------------------------------ MODULE ChatTurn ------------------------------
(***************************************************************************)
(* One chat of the web UI (docker/chat/static/index.html, send) and the    *)
(* backend's tool-calling loop (docker/chat/main.py, _chat_events), turn   *)
(* after turn.  The backend keeps nothing between turns: the browser sends *)
(* the whole history, and gets back the messages the turn added to it.     *)
(*                                                                         *)
(* The language model is an adversary that may answer, ask for any tool    *)
(* calls, or fail.  A tool call is a value of Calls: the signature (name   *)
(* and arguments) by which the loop recognises a repetition.               *)
(***************************************************************************)
EXTENDS Selection, SequencesExt

CONSTANTS Calls, NoCall,
          MaxParallel,     \* bound: tool calls in one assistant message
          Models,          \* [budget, room] of the models: _round_budget, and what
                           \* earlier turns may take of the context
          Warning,         \* TOOL_ROUNDS_WARNING
          RepeatCap,       \* MAX_REPEATED_CALL
          LongResult,      \* size of a tool result, 1 once shortened
          MaxTurns         \* bound: turns of the chat

ASSUME CallsAssumption == NoCall \notin Calls
ASSUME BudgetAssumption ==
  Models \subseteq [budget : Nat \ {0}, room : Nat] /\ Warning \in Nat
ASSUME CapAssumption == RepeatCap \in Nat /\ MaxParallel \in Nat
ASSUME SizeAssumption == LongResult \in Nat \ {0}
ASSUME TurnsAssumption == MaxTurns \in Nat

VARIABLES
  history,    \* the browser's history of the chat
  pc,         \* where the turn is
  messages,   \* what the model is sent
  turnStart,  \* messages up to here are from before this turn
  budget,     \* tool rounds this turn may take
  rounds,     \* tool rounds completed
  todo,       \* calls of the current assistant message still to run
  seen,       \* seen_calls
  cache,      \* tool_cache
  fresh,      \* round_fetched_something_new
  capped,     \* round_hit_repeat_cap
  fetched,    \* tools/call requests champions-mcp got for each signature
  reply,      \* turn_messages of the final event
  turns       \* turns started

turn == <<messages, turnStart, budget, rounds, todo, seen, cache, fresh, capped, fetched>>
vars == <<history, pc, turn, reply, turns>>

CallLists == UNION {[1 .. k -> Calls] : k \in 1 .. MaxParallel}

\* A message: calls are an assistant's tool_calls, call the one a tool message
\* answers, result what it says, left the rounds its budget note announces.
Plain(role) == [role |-> role, calls |-> <<>>, call |-> NoCall,
                result |-> "none", left |-> 0, short |-> FALSE]
AsksFor(calls) == [Plain("assistant") EXCEPT !.calls = calls]
Result(c, r) == [Plain("tool") EXCEPT !.call = c, !.result = r]
Nudge == [Plain("user") EXCEPT !.result = "nudge"]

Init ==
  /\ history = <<>> /\ pc = "idle"
  /\ messages = <<>> /\ turnStart = 0 /\ budget = 0 /\ rounds = 0 /\ todo = <<>>
  /\ seen = [c \in Calls |-> 0] /\ cache = [c \in Calls |-> "none"]
  /\ fresh = FALSE /\ capped = FALSE
  /\ fetched = [c \in Calls |-> 0]
  /\ reply = <<>> /\ turns = 0

-----------------------------------------------------------------------------
\* _fit_history.  Only an unshortened successful result is long.
Size(m) == IF m.result = "ok" /\ ~m.short THEN LongResult ELSE 1

\* The first n messages with their long tool results shortened.
Shortened(ms, n) ==
  [i \in DOMAIN ms |->
     IF i <= n /\ Size(ms[i]) > 1 THEN [ms[i] EXCEPT !.short = TRUE] ELSE ms[i]]

\* Fault: an answer counts as part of a tool chain.
FaultyInChain(m) == m.role \in {"tool", "assistant"}

InChain(m) == m.role = "tool" \/ (m.role = "assistant" /\ m.calls # <<>>)

\* The messages that are left without the first n of tool chains.
Undropped(ms, n) ==
  {i \in DOMAIN ms : InChain(ms[i]) => Cardinality({j \in 1 .. i : InChain(ms[j])}) > n}

\* Shorten until it fits, then drop until it fits, oldest first: cut messages
\* are looked at to shorten them, drop are left out.
FitHistory(ms, size, cut, drop) ==
  LET Fits(c, d) == MapThenSumSet(LAMBDA i : Size(Shortened(ms, c)[i]), Undropped(ms, d)) <= size
  IN  /\ cut < Len(ms) => drop = 0
      /\ Fits(cut, drop) \/ drop = Len(ms)
      /\ \A c \in 0 .. cut - 1 : ~Fits(c, 0)
      /\ \A d \in 0 .. drop - 1 : ~Fits(cut, d)

\* The browser sends the history with a new question.
Send ==
  /\ pc = "idle" /\ turns < MaxTurns
  /\ turns' = turns + 1
  /\ history' = Append(history, Plain("user"))
  /\ pc' = "start"
  /\ UNCHANGED <<turn, reply>>

\* The backend shrinks the earlier turns to what the chosen model can take,
\* keeping this turn's question whole.
Earlier == <<Plain("system")>> \o Front(history)
Start ==
  /\ pc = "start"
  /\ \E chosen \in Models, cut, drop \in 0 .. Len(Earlier) :
       /\ FitHistory(Earlier, chosen.room, cut, drop)
       /\ messages' = Append(Select(Shortened(Earlier, cut), Undropped(Earlier, drop)),
                             Last(history))
       /\ budget' = chosen.budget
  /\ turnStart' = Len(messages')
  /\ rounds' = 0 /\ todo' = <<>>
  /\ seen' = [c \in Calls |-> 0] /\ cache' = [c \in Calls |-> "none"]
  /\ fresh' = FALSE /\ capped' = FALSE
  /\ fetched' = [c \in Calls |-> 0]
  /\ pc' = "ask"
  /\ UNCHANGED <<history, reply, turns>>

-----------------------------------------------------------------------------
\* The messages of this turn.
Chain == SubSeq(messages, turnStart + 1, Len(messages))

\* _turn_messages: this turn's chain without the nudge, and the answer.
TurnMessages ==
  Append(Select(Chain, {i \in DOMAIN Chain : Chain[i] # Nudge}), Plain("assistant"))

\* Fault: out of rounds, the turn has no answer left to ask for.
FaultyAnswer ==
  /\ pc = "ask"
  /\ reply' = TurnMessages
  /\ pc' = "reply"
  /\ UNCHANGED <<history, turn, turns>>

\* The model answers: the final event.
Answer ==
  /\ pc \in {"ask", "wrapup"}
  /\ reply' = TurnMessages
  /\ pc' = "reply"
  /\ UNCHANGED <<history, turn, turns>>

\* The model asks for tool calls, which it can only while it is given tools.
AskTools ==
  /\ pc = "ask"
  /\ \E calls \in CallLists :
       /\ messages' = Append(messages, AsksFor(calls))
       /\ todo' = calls
  /\ fresh' = FALSE /\ capped' = FALSE
  /\ pc' = "tools"
  /\ UNCHANGED <<history, turnStart, budget, rounds, seen, cache, fetched, reply, turns>>

\* The budget note goes into the last result of the round.
Noted(ms, left) ==
  IF 0 < left /\ left <= Warning THEN [ms EXCEPT ![Len(ms)].left = left] ELSE ms

\* Fault: refusing a call ends the turn at once.
FaultyOnward(ms, new, cap) ==
  LET done == rounds + 1
      over == Len(todo) = 1 \/ cap
  IN  /\ fresh' = new /\ capped' = cap
      /\ todo' = IF over THEN <<>> ELSE Tail(todo)
      /\ rounds' = IF over THEN done ELSE rounds
      /\ IF ~over THEN pc' = "tools" /\ messages' = ms
         ELSE IF (cap /\ ~new) \/ done = budget
              THEN pc' = "wrapup" /\ messages' = Append(ms, Nudge)
              ELSE pc' = "ask" /\ messages' = Noted(ms, budget - done)

\* Fault: a round is stuck as soon as it repeats a refused call.
FaultyOnwardStuck(ms, new, cap) ==
  LET done == rounds + 1
  IN  /\ fresh' = new /\ capped' = cap
      /\ todo' = Tail(todo)
      /\ rounds' = IF Len(todo) = 1 THEN done ELSE rounds
      /\ IF Len(todo) > 1 THEN pc' = "tools" /\ messages' = ms
         ELSE IF cap \/ done = budget
              THEN pc' = "wrapup" /\ messages' = Append(ms, Nudge)
              ELSE pc' = "ask" /\ messages' = Noted(ms, budget - done)

\* With the result of a call in ms: the next call, or the end of the round,
\* after which a stuck model, or one out of rounds, gets no more tools.
Onward(ms, new, cap) ==
  LET done == rounds + 1
  IN  /\ fresh' = new /\ capped' = cap
      /\ todo' = Tail(todo)
      /\ rounds' = IF Len(todo) = 1 THEN done ELSE rounds
      /\ IF Len(todo) > 1 THEN pc' = "tools" /\ messages' = ms
         ELSE IF (cap /\ ~new) \/ done = budget
              THEN pc' = "wrapup" /\ messages' = Append(ms, Nudge)
              ELSE pc' = "ask" /\ messages' = Noted(ms, budget - done)

\* Fault: a call that failed is not marked as seen, so that it is retried.
FaultyFetch ==
  /\ pc = "tools" /\ seen[Head(todo)] = 0
  /\ \E r \in {"ok", "error"} :
       /\ seen' = IF r = "ok" THEN [seen EXCEPT ![Head(todo)] = 1] ELSE seen
       /\ cache' = [cache EXCEPT ![Head(todo)] = r]
       /\ fetched' = [fetched EXCEPT ![Head(todo)] = @ + 1]
       /\ Onward(Append(messages, Result(Head(todo), r)), TRUE, capped)
  /\ UNCHANGED <<history, turnStart, budget, reply, turns>>

\* A signature not seen this turn goes to champions-mcp (_run_tool, which
\* turns every failure into an error result).
Fetch ==
  /\ pc = "tools" /\ seen[Head(todo)] = 0
  /\ \E r \in {"ok", "error"} :
       /\ seen' = [seen EXCEPT ![Head(todo)] = 1]
       /\ cache' = [cache EXCEPT ![Head(todo)] = r]
       /\ fetched' = [fetched EXCEPT ![Head(todo)] = @ + 1]
       /\ Onward(Append(messages, Result(Head(todo), r)), TRUE, capped)
  /\ UNCHANGED <<history, turnStart, budget, reply, turns>>

\* One asked for again gets the cached result...
Recall ==
  /\ pc = "tools" /\ seen[Head(todo)] > 0 /\ seen[Head(todo)] + 1 < RepeatCap
  /\ seen' = [seen EXCEPT ![Head(todo)] = @ + 1]
  /\ Onward(Append(messages, Result(Head(todo), cache[Head(todo)])), fresh, capped)
  /\ UNCHANGED <<history, turnStart, budget, cache, fetched, reply, turns>>

\* ... and from the RepeatCap-th time on a refusal.
Refuse ==
  /\ pc = "tools" /\ seen[Head(todo)] > 0 /\ seen[Head(todo)] + 1 >= RepeatCap
  /\ seen' = [seen EXCEPT ![Head(todo)] = @ + 1]
  /\ Onward(Append(messages, Result(Head(todo), "refused")), fresh, TRUE)
  /\ UNCHANGED <<history, turnStart, budget, cache, fetched, reply, turns>>

\* The stream has ended after a final event: the browser keeps the turn.
Receive ==
  /\ pc = "reply"
  /\ history' = history \o reply
  /\ pc' = "idle"
  /\ UNCHANGED <<turn, reply, turns>>

\* The model fails, its message is malformed, or the connection breaks, even
\* after the final event: the browser shows an error and keeps the question.
Fail ==
  /\ pc # "idle"
  /\ pc' = "idle"
  /\ UNCHANGED <<history, turn, reply, turns>>

Next == \/ Send \/ Start \/ Answer \/ AskTools \/ Fetch \/ Recall \/ Refuse
        \/ Receive \/ Fail

\* Every request of a turn has a timeout: http_client's, or its own.
Proceed == Start \/ Answer \/ AskTools \/ Fetch \/ Recall \/ Refuse \/ Receive
Fairness == WF_vars(Proceed)

Spec == Init /\ [][Next]_vars
FairSpec == Spec /\ Fairness
-----------------------------------------------------------------------------
Messages ==
  [role : {"system", "user", "assistant", "tool"}, calls : CallLists \cup {<<>>},
   call : Calls \cup {NoCall}, result : {"none", "ok", "error", "refused", "nudge"},
   left : 0 .. Warning, short : BOOLEAN]

TypeOK ==
  /\ history \in Seq(Messages) /\ messages \in Seq(Messages) /\ reply \in Seq(Messages)
  /\ pc \in {"idle", "start", "ask", "tools", "wrapup", "reply"}
  /\ turnStart \in 0 .. Len(messages)
  /\ budget \in Nat /\ rounds \in 0 .. budget
  /\ todo \in CallLists \cup {<<>>}
  /\ seen \in [Calls -> Nat] /\ fetched \in [Calls -> Nat]
  /\ cache \in [Calls -> {"none", "ok", "error"}]
  /\ fresh \in BOOLEAN /\ capped \in BOOLEAN
  /\ turns \in 0 .. MaxTurns

\* The results of this turn.
ChainResults == {i \in DOMAIN Chain : Chain[i].role = "tool"}

\* Every tool_calls message is followed by one result per call, in order, and
\* every result belongs to one: what chat APIs demand of a request.
Paired(ms) ==
  /\ \A i \in DOMAIN ms : \A k \in DOMAIN ms[i].calls :
       i + k \in DOMAIN ms /\ ms[i + k].role = "tool" /\ ms[i + k].call = ms[i].calls[k]
  /\ \A j \in DOMAIN ms : ms[j].role = "tool" =>
       \E i \in 1 .. j - 1 : j - i \in DOMAIN ms[i].calls

\* Whenever the model is asked, every tool call of this turn has its result.
TurnPaired == pc \in {"ask", "wrapup"} => Paired(Chain)

\* However often the model repeats a call, and however it batches its calls,
\* champions-mcp gets it once in a turn.
FetchedOnce == \A c \in Calls : fetched[c] <= 1

\* Asking again returns what the first call returned, an error included, until
\* it is refused; and once refused it is never answered again.
RepeatsAgree ==
  \A i, j \in ChainResults :
    i < j /\ Chain[i].call = Chain[j].call =>
      Chain[j].result \in {Chain[i].result, "refused"}

\* The results of the last round: nothing is asked for after them.
LastRound == {i \in ChainResults : \A j \in i .. Len(Chain) : Chain[j].calls = <<>>}
New(i) == \A j \in ChainResults : j < i => Chain[j].call # Chain[i].call
Stuck == /\ \E i \in LastRound : Chain[i].result = "refused"
         /\ \A i \in LastRound : ~New(i)

\* The tools are taken away exactly when a round was refused a call and
\* brought nothing new, or when the rounds are used up.
ToolsUntilStuck ==
  /\ pc = "ask" => rounds < budget /\ ~Stuck
  /\ pc = "wrapup" => rounds = budget \/ Stuck

\* A model near the end of its budget has just been told how many rounds it
\* really has left, before it can use the last one.
ToldWhatIsLeft ==
  pc = "ask" /\ rounds > 0 /\ budget - rounds <= Warning =>
    messages[Len(messages)].left = budget - rounds

\* Shrinking the history for the context costs no question and no answer.
IsTalk(m) == m.role = "user" \/ (m.role = "assistant" /\ m.calls = <<>>)
Talk(ms) == Select(ms, {i \in DOMAIN ms : IsTalk(ms[i])})
TalkKept == pc \in {"ask", "tools"} =>
  Talk(history) = Talk(SubSeq(messages, 1, turnStart))

\* The browser's history is one the next turn can replay: chains are whole,
\* the backend's own nudge is not in it, and an answer follows its question.
HistoryReplayable ==
  /\ Paired(history)
  /\ \A i \in DOMAIN history :
       /\ history[i] # Nudge
       /\ (history[i].role = "assistant" /\ history[i].calls = <<>>) =>
            \E q \in 1 .. i - 1 : /\ history[q].role = "user"
                                  /\ \A k \in q + 1 .. i - 1 : InChain(history[k])

\* The loop takes the tools away exactly when it should, says so before it does,
\* and answers a repetition as it answered the first time.
RoundsSound == RepeatsAgree /\ ToolsUntilStuck /\ ToldWhatIsLeft

\* What the browser keeps and sends again is the conversation.
HistorySound == TypeOK /\ TalkKept /\ HistoryReplayable

\* Whatever the model does, a turn comes to its end.
TurnEnds == pc # "idle" ~> pc = "idle"

-----------------------------------------------------------------------------
(* What a comment says and the code does not keep.                          *)

\* _fit_history drops "tool chains entirely (assistant tool calls + results)".
ChainsDroppedEntirely == pc = "ask" => Paired(messages)
=============================================================================
