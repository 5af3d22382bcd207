---------------------------- MODULE ModelRouting ----------------------------
(***************************************************************************)
(* Which model a chat turn asks, at which price, with how much of earlier  *)
(* reasoning (docker/chat/main.py): the start-up that picks the provider   *)
(* and reads OpenRouter's model list, the Auto Router whose pick is pinned *)
(* for the rest of the turn, and the reasoning replayed from the history.  *)
(* The tool calls of a round and the shrinking of the history are          *)
(* ChatTurn's and are left out; a message is an assistant's, with the turn *)
(* it belongs to.                                                          *)
(***************************************************************************)
EXTENDS Integers, Sequences, FiniteSets, FiniteSetsExt

CONSTANTS
  Fixed,           \* models offered by their id; the first default is Default
  Default,
  Tiers,           \* Auto Router entries of the picker, by cost tier
  Stale,           \* a name left in the UI that is not offered
  Pools,           \* [Tiers -> candidates], {} lets the router choose
  Routable,        \* every model the router may pick
  ListedContext,   \* [model -> context_length] of OpenRouter's list
  Nominal,         \* the router's own
  Local,           \* LLAMA_CTX_SIZE
  MaxPrice, MaxPrices, Uncapped,   \* price caps, per tier too
  Routes,          \* models with their own provider rule
  Big,             \* context from which rounds and results are larger
  BigBudget, SmallBudget, BigResult, SmallResult,
  ReasoningTurns,  \* MAX_REASONING_HISTORY_TURNS
  MaxRouted,       \* bound: turns of the chat
  Unnamed          \* no model named, or the router's own name

\* A tier's name is made of the router's, which no answering model has.
ASSUME RoutingAssumption ==
  /\ IsFiniteSet(Routable) /\ Pools \in [Tiers -> SUBSET Routable] /\ Default \in Fixed
  /\ Tiers \cap (Fixed \cup Routable) = {} /\ Unnamed \notin Routable \cup Fixed \cup Tiers
  /\ ListedContext \in [DOMAIN ListedContext -> Nat]
  /\ ReasoningTurns \in Nat /\ MaxRouted \in Nat

VARIABLES
  provider,      \* "auto" until start-up has decided
  context,       \* model_context
  listRead,      \* OpenRouter's model list was read
  kept,          \* assistant messages the browser keeps
  routed,        \* turns begun
  routePc, asked, model, tier,
  rounded,       \* the turn's round budget
  requests,      \* answered so far
  sent,          \* messages
  named,         \* metrics.model
  request        \* the last request of the turn

routing == <<asked, model, tier, rounded, requests, sent, named, request>>
routingVars == <<provider, context, listRead, kept, routed, routePc, routing>>

Offered == Fixed \cup Tiers
NoRequest == [to |-> Unnamed, price |-> Uncapped, cap |-> 0, replay |-> <<>>]

RoutingInit ==
  /\ provider = "auto" /\ context = [m \in {} |-> 0] /\ listRead = FALSE
  /\ kept = <<>> /\ routed = 0 /\ routePc = "starting"
  /\ asked = Default /\ model = Default /\ tier = Unnamed /\ rounded = 0 /\ requests = 0
  /\ sent = <<>> /\ named = Unnamed /\ request = NoRequest

-----------------------------------------------------------------------------
\* What the list knows of a tier's candidates, of which the smallest counts.
PoolContexts(t) == {ListedContext[m] : m \in Pools[t] \cap DOMAIN ListedContext}
TierContext(t) == IF PoolContexts(t) # {} THEN Min(PoolContexts(t)) ELSE Nominal

\* _init_openrouter; without the list nothing is learnt.
Learnt ==
  [m \in Tiers \cup ((Fixed \cup UNION {Pools[t] : t \in Tiers}) \cap DOMAIN ListedContext) |->
     IF m \in Tiers THEN TierContext(m) ELSE ListedContext[m]]

ContextSize(m) == IF m \in DOMAIN context THEN context[m] ELSE Local

RoundBudget(m) == IF ContextSize(m) >= Big THEN BigBudget ELSE SmallBudget
ResultCap(m) == IF ContextSize(m) >= Big THEN BigResult ELSE SmallResult

\* startup: a local server that answers, or OpenRouter.
ChooseProvider(local, list) ==
  /\ routePc = "starting" /\ routePc' = "idle"
  /\ provider' = IF local THEN "llama" ELSE "openrouter"
  /\ listRead' = (~local /\ list)
  /\ context' = IF ~local /\ list THEN Learnt ELSE context
  /\ UNCHANGED <<kept, routed, routing>>

-----------------------------------------------------------------------------
\* The last ReasoningTurns messages with reasoning keep it, cut to size.
Reasoned(ms) == {i \in DOMAIN ms : ms[i].reasoning # "none"}
LastReasoned(ms) ==
  {i \in Reasoned(ms) : Cardinality({j \in Reasoned(ms) : i < j}) < ReasoningTurns}
CapReasoning(ms) ==
  [i \in DOMAIN ms |->
     [ms[i] EXCEPT !.reasoning = IF i \notin LastReasoned(ms) THEN "none"
                                 ELSE IF @ = "long" THEN "cut" ELSE @]]

\* The reasoning of a message that goes back to whom it came from: OpenRouter
\* is sent its reasoning_details, which CapReasoning leaves alone.
Preserved(m) == IF provider = "openrouter" THEN m.details ELSE m.reasoning
Replay(ms) == [i \in DOMAIN ms |-> [turn |-> ms[i].turn, reasoning |-> Preserved(ms[i])]]

AutoTier(m) == IF m \in Tiers THEN m ELSE Unnamed

\* The model a turn starts with: a stale name means the default.
Chosen(m) == IF provider = "openrouter" /\ m \notin Offered THEN Default ELSE m

RouteTurn(m) ==
  /\ routePc = "idle" /\ routed < MaxRouted
  /\ routePc' = "turn" /\ routed' = routed + 1
  /\ asked' = m /\ model' = Chosen(m)
  /\ tier' = AutoTier(Chosen(m)) /\ rounded' = RoundBudget(Chosen(m)) /\ requests' = 0
  /\ sent' = CapReasoning(kept)
  /\ named' = Unnamed /\ request' = NoRequest
  /\ UNCHANGED <<provider, context, listRead, kept>>

\* price_tier: a model pinned after routing keeps its tier's price rule.
PriceTier(m) == tier

\* The provider field of the request.
Price(m) ==
  IF m \in Routes THEN m
  ELSE IF PriceTier(m) \in Tiers THEN MaxPrices[PriceTier(m)] ELSE MaxPrice

\* Whom OpenRouter lets answer, and the name the response carries.
Answering(m) ==
  IF provider = "llama" THEN {Unnamed}
  ELSE IF m \in Tiers THEN (IF Pools[m] = {} THEN Routable ELSE Pools[m]) \cup {Unnamed}
  ELSE {m, Unnamed}

\* Fault: every round is routed on its own.
FaultyPinned(m, name) == m

\* Route once, then pin.
Pinned(m, name) == IF m \in Tiers /\ name # Unnamed THEN name ELSE m

\* metrics.model: the last that was named.
Named(name) == IF name # Unnamed THEN name ELSE named

\* A response: OpenRouter gives its reasoning in both of its forms.
Said(reasoning) ==
  [turn |-> routed, reasoning |-> reasoning,
   details |-> IF provider = "openrouter" THEN reasoning ELSE "none"]

\* This turn's chain: what follows the history.
OwnChain == SubSeq(sent, Len(kept) + 1, Len(sent))

\* One request to the model.  It asks for tools, answers, or fails.
Ask(name, reasoning, outcome) ==
  /\ routePc = "turn"
  /\ outcome = "tools" => requests < rounded
  /\ request' = [to |-> model, price |-> Price(model), cap |-> ResultCap(model),
                 replay |-> Replay(sent)]
  /\ IF outcome = "failed"
     THEN /\ routePc' = "idle" /\ UNCHANGED <<kept, model, named, sent, requests>>
     ELSE /\ named' = Named(name)
          /\ model' = IF requests < rounded THEN Pinned(model, Named(name)) ELSE model
          /\ sent' = Append(sent, Said(reasoning))
          /\ requests' = requests + 1
          /\ routePc' = IF outcome = "tools" THEN "turn" ELSE "idle"
          /\ kept' = IF outcome = "tools" THEN kept
                     ELSE kept \o Append(OwnChain, Said(reasoning))
  /\ UNCHANGED <<provider, context, listRead, routed, asked, tier, rounded>>

RoutingNext ==
  \/ \E local, list \in BOOLEAN : ChooseProvider(local, list)
  \/ \E m \in Offered \cup {Stale} : RouteTurn(m)
  \/ \E name \in Answering(model), r \in {"none", "short", "long"},
        outcome \in {"tools", "answer", "failed"} : Ask(name, r, outcome)

RoutingSpec == RoutingInit /\ [][RoutingNext]_routingVars

-----------------------------------------------------------------------------
\* Once a response has named the model that answered, the next request of the
\* turn goes to that model: the router is not asked again between tool rounds.
RoutedOnce ==
  routePc = "turn" /\ named # Unnamed =>
    model \in {named, asked, Default} /\ model \notin Tiers

\* Whatever model the router picked and however long the turn, its requests carry
\* the price rule of what the user chose, or the rule of the model itself.
Promised == IF asked \in Offered THEN asked ELSE Default
PriceKept ==
  request # NoRequest /\ provider = "openrouter" =>
    \/ request.price = request.to /\ request.to \in Routes
    \/ request.price = IF Promised \in Tiers THEN MaxPrices[Promised] ELSE MaxPrice

\* A request replays to llama-server of earlier turns no more than the bound
\* allows, cut to size, and to either provider of its own turn all there is, as it
\* came: the model does not lose its plan mid-chain.
FromBefore(ms) == {i \in DOMAIN ms : ms[i].turn # routed /\ ms[i].reasoning # "none"}
ReasoningReplayed ==
  request # NoRequest =>
    /\ provider = "llama" =>
         /\ Cardinality(FromBefore(request.replay)) <= ReasoningTurns
         /\ \A i \in FromBefore(request.replay) : request.replay[i].reasoning # "long"
    /\ \A i \in DOMAIN request.replay : request.replay[i].turn = routed =>
         request.replay[i].reasoning = Preserved(sent[i]) /\ Preserved(sent[i]) # "cut"

\* "the real limit is the routed model's, so meter against the smallest of a
\* tier's allowed candidates": a tier with a pool never counts on more context
\* than the model it is pinned to is listed with.
MeterIsSafe ==
  tier \in Tiers /\ listRead /\ Pools[tier] # {} /\ model \in DOMAIN ListedContext \ Tiers =>
    ContextSize(tier) <= ListedContext[model]

\* A turn is routed once, at the price and with the memory its user was promised.
RoutingSound == RoutedOnce /\ PriceKept /\ ReasoningReplayed /\ MeterIsSafe

-----------------------------------------------------------------------------
(* What comments say and the code does not keep.                            *)

\* MAX_REASONING_HISTORY_TURNS: "we only replay it for the most recent N prior
\* turns": the reasoning of the last N turns of the history is replayed.
LastTurnsReplayed ==
  routePc = "turn" => \A i \in DOMAIN kept :
    kept[i].turn >= routed - ReasoningTurns /\ kept[i].reasoning # "none" =>
      sent[i].reasoning # "none"

\* "Left unbounded that grows context linearly with turn count": whoever is
\* asked, the reasoning of earlier turns is bounded.
ReasoningBounded ==
  request # NoRequest => Cardinality(FromBefore(request.replay)) <= ReasoningTurns

\* _init_openrouter, when the model list cannot be read: "the chat still works;
\* only the context meter degrades": rounds and results stay what they are.
OnlyMeterDegrades ==
  /\ routePc = "turn" /\ provider = "openrouter" /\ tier = Unnamed
  /\ model \in Fixed \cap DOMAIN ListedContext
  => rounded = IF ListedContext[model] >= Big THEN BigBudget ELSE SmallBudget
=============================================================================
