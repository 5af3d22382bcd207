----------------------------- MODULE McpSession -----------------------------
(***************************************************************************)
(* The chat backend's one session with champions-mcp (docker/chat/main.py):*)
(* mcp_rpc, mcp_notify, _init_mcp, _fetch_skill_guide, and the beginning   *)
(* and the tool calls of _chat_events.  Any number of chats share the      *)
(* globals mcp_session_id, mcp_tools and skill_guide_text, and interleave  *)
(* at every await.  champions-mcp's side (the MCP SDK's streamable HTTP    *)
(* transport) is external: a session lives until the server restarts, is   *)
(* usable once it was told so, and an unknown one is an HTTP error.        *)
(***************************************************************************)
EXTENDS Integers

CONSTANTS Chats, Startup,
          MaxAttempts,     \* 20 in _init_mcp
          MaxRestarts      \* bound: restarts of champions-mcp

Tasks == Chats \union {Startup}

ASSUME TasksAssumption == Startup \notin Chats
ASSUME BoundsAssumption == MaxAttempts \in Nat \ {0} /\ MaxRestarts \in Nat

VARIABLES
  up,          \* champions-mcp accepts requests
  restarts,    \* times it went down
  issued,      \* sessions it ever handed out: 1 .. issued
  known,       \* those it knows now
  ready,       \* those told notifications/initialized
  held,        \* mcp_session_id, 0 for None
  tools,       \* mcp_tools is not empty
  guide,       \* skill_guide_text is there
  task         \* where each coroutine is, and the request it awaits

server == <<up, restarts, issued, known, ready>>
backend == <<held, tools, guide>>
mcpVars == <<server, backend, task>>

Requests == {"initialize", "notify", "list", "guide", "prompt", "call"}

McpInit ==
  /\ up \in BOOLEAN /\ restarts = 0
  /\ issued = 0 /\ known = {} /\ ready = {}
  /\ held = 0 /\ tools = FALSE /\ guide = FALSE
  /\ task = [t \in Tasks |->
               [step |-> IF t = Startup THEN "initialize" ELSE "off",
                sent |-> 0, got |-> "none", back |-> 0, attempt |-> 1]]

-----------------------------------------------------------------------------
(* champions-mcp *)

Up == ~up /\ up' = TRUE /\ UNCHANGED <<restarts, issued, known, ready, backend, task>>

Restart ==
  /\ up /\ restarts < MaxRestarts
  /\ up' = FALSE /\ restarts' = restarts + 1
  /\ known' = {} /\ ready' = {}
  /\ UNCHANGED <<issued, backend, task>>

Responded(t, got, id) == task' = [task EXCEPT ![t].got = got, ![t].back = id]

\* "refused" is a JSON-RPC error in a response that names the session, "fail"
\* an HTTP error or no response at all.  The prompts may not be there yet.
Serve(t) ==
  LET s == task[t].step
      id == task[t].sent
  IN  /\ s \in Requests /\ task[t].got = "none"
      /\ UNCHANGED <<up, restarts, backend>>
      /\ \/ /\ \/ ~up \/ (id # 0 /\ id \notin known)
               \/ id = 0 /\ s # "initialize"
            /\ Responded(t, "fail", 0)
            /\ UNCHANGED <<issued, known, ready>>
         \/ /\ up /\ id = 0 /\ s = "initialize"
            /\ issued' = issued + 1 /\ known' = known \union {issued'}
            /\ Responded(t, "ok", issued')
            /\ UNCHANGED ready
         \/ /\ up /\ id \in known /\ s \in {"initialize", "notify"}
            /\ ready' = IF s = "notify" THEN ready \union {id} ELSE ready
            /\ Responded(t, "ok", id)
            /\ UNCHANGED <<issued, known>>
         \/ /\ up /\ id \in known /\ s \notin {"initialize", "notify"}
            /\ \E got \in {"ok", "refused"} :
                 /\ id \notin ready => got = "refused"
                 /\ id \in ready /\ s \in {"list", "call"} => got = "ok"
                 /\ Responded(t, got, id)
            /\ UNCHANGED <<issued, known, ready>>

-----------------------------------------------------------------------------
(* The backend.  A coroutine runs until its next await, so the request that  *)
(* follows an answer is sent in the same step, with the session held then.   *)

\* mcp_rpc stores the session a response names, also that of a refusal.
Adopted(t) == IF task[t].got = "fail" THEN held ELSE task[t].back

\* The tasks when t goes on to step s of its n-th attempt, sending its request.
Sent(t, s, id, n) ==
  [task EXCEPT ![t] = [step |-> s, sent |-> id, got |-> "none", back |-> 0, attempt |-> n]]

Proceeds(t, s) == task' = Sent(t, s, held', task[t].attempt)

\* The chat goes on behind _init_mcp: a missing guide is fetched alone.
IntoChat(t) ==
  IF t = Startup THEN Proceeds(t, "off")
  ELSE IF guide' THEN Proceeds(t, "body") ELSE Proceeds(t, "prompt")

\* A chat comes in once the startup hook is through.
Open(c) ==
  /\ task[c].step = "off" /\ task[Startup].step = "off"
  /\ task' = [task EXCEPT ![c].step = "begin", ![c].attempt = 1]
  /\ UNCHANGED <<server, backend>>

\* Fault: the tools are loaded by the startup hook alone.
FaultyBegin(c) ==
  /\ task[c].step = "begin"
  /\ UNCHANGED <<server, backend>>
  /\ IntoChat(c)

Begin(c) ==
  /\ task[c].step = "begin"
  /\ UNCHANGED <<server, backend>>
  /\ IF tools THEN IntoChat(c) ELSE Proceeds(c, "initialize")

\* Fault: the notification names the session held before.
FaultyInitialized(t) ==
  /\ task[t].step = "initialize" /\ task[t].got = "ok"
  /\ held' = Adopted(t)
  /\ task' = Sent(t, "notify", held, task[t].attempt)
  /\ UNCHANGED <<server, tools, guide>>

Initialized(t) ==
  /\ task[t].step = "initialize" /\ task[t].got = "ok"
  /\ held' = Adopted(t)
  /\ Proceeds(t, "notify")
  /\ UNCHANGED <<server, tools, guide>>

\* mcp_notify looks at no answer.
Notified(t) ==
  /\ task[t].step = "notify" /\ task[t].got # "none"
  /\ UNCHANGED <<server, backend>>
  /\ Proceeds(t, "list")

Listed(t) ==
  /\ task[t].step = "list" /\ task[t].got = "ok"
  /\ held' = Adopted(t) /\ tools' = TRUE
  /\ Proceeds(t, "guide")
  /\ UNCHANGED <<server, guide>>

\* An exception in _init_mcp: sleep and try again, or give up.
InitFailed(t) ==
  /\ task[t].step \in {"initialize", "list"} /\ task[t].got \notin {"none", "ok"}
  /\ held' = Adopted(t)
  /\ UNCHANGED <<server, tools, guide>>
  /\ IF task[t].attempt < MaxAttempts THEN Proceeds(t, "sleep") ELSE IntoChat(t)

Retry(t) ==
  /\ task[t].step = "sleep"
  /\ task' = Sent(t, "initialize", held, task[t].attempt + 1)
  /\ UNCHANGED <<server, backend>>

\* _fetch_skill_guide: its result replaces the global, a failure's None too.
\* In _init_mcp it is the last step, in _chat_events it precedes the loop.
Guided(t) ==
  /\ task[t].step \in {"guide", "prompt"} /\ task[t].got # "none"
  /\ held' = Adopted(t) /\ guide' = (task[t].got = "ok")
  /\ UNCHANGED <<server, tools>>
  /\ IF task[t].step = "guide" THEN IntoChat(t) ELSE Proceeds(t, "body")

\* _run_tool, of a model that was shown the tools.
Call(c) ==
  /\ task[c].step = "body" /\ tools
  /\ UNCHANGED <<server, backend>>
  /\ Proceeds(c, "call")

\* The tool's result, or "Tool error" and the chat goes on.
Returned(c) ==
  /\ task[c].step = "call" /\ task[c].got # "none"
  /\ held' = Adopted(c)
  /\ UNCHANGED <<server, tools, guide>>
  /\ Proceeds(c, "body")

End(c) ==
  /\ task[c].step = "body"
  /\ UNCHANGED <<server, backend>>
  /\ Proceeds(c, "off")

Backend(t) ==
  \/ Initialized(t) \/ Notified(t) \/ Listed(t) \/ InitFailed(t) \/ Retry(t) \/ Guided(t)

McpNext ==
  \/ Up \/ Restart
  \/ \E t \in Tasks : Serve(t) \/ Backend(t)
  \/ \E c \in Chats : Open(c) \/ Begin(c) \/ Call(c) \/ Returned(c) \/ End(c)

\* A container that went down is started again, requests are answered or time
\* out, and asyncio runs every coroutine that can go on.
McpFairness ==
  /\ WF_mcpVars(Up)
  /\ \A t \in Tasks : WF_mcpVars(Serve(t)) /\ WF_mcpVars(Backend(t))
  /\ \A c \in Chats : WF_mcpVars(Begin(c)) /\ WF_mcpVars(Returned(c))

McpSpec == McpInit /\ [][McpNext]_mcpVars /\ McpFairness

-----------------------------------------------------------------------------
McpTypeOK ==
  /\ up \in BOOLEAN /\ tools \in BOOLEAN /\ guide \in BOOLEAN
  /\ restarts \in 0 .. MaxRestarts /\ issued \in Nat
  /\ known \subseteq 1 .. issued /\ ready \subseteq known
  /\ held \in 0 .. issued
  /\ task \in [Tasks -> [step : Requests \union {"off", "begin", "sleep", "body"},
                         sent : 0 .. issued, got : {"none", "ok", "refused", "fail"},
                         back : 0 .. issued, attempt : 1 .. MaxAttempts]]

\* Whichever of several chats' sessions the backend holds, it is usable or the
\* notification that makes it so is on its way: no chat is left with a session
\* that another one opened and nobody finishes opening.
HeldIsOpened ==
  held \in known \ ready =>
    \E t \in Tasks : /\ task[t].step = "notify" /\ task[t].got = "none"
                     /\ task[t].sent = held

Asking(c) == task[c].step = "begin" /\ up

\* The startup hook may have given up before champions-mcp was ready; a chat
\* that comes when it is up loads the tools, also when several come at once.
LoadsLazily ==
  \A c \in Chats : (Asking(c) /\ restarts = 0) ~> (tools \/ restarts > 0)

\* "If the MCP server wasn't ready during startup [...], load tools lazily
\* here": a chat that comes while champions-mcp is up gets the tools.
LoadsWheneverUp == \A c \in Chats : Asking(c) ~> (tools \/ ~up)
=============================================================================
