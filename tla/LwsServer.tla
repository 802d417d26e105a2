----------------------------- MODULE LwsServer ------------------------------
(***************************************************************************)
(* The WebSocket output: lws_main, LwsServer and SystemMetricsLwsProxy.    *)
(*                                                                         *)
(* One thread goes round: serve the network events, tick the controller,   *)
(* broadcast what the tick left in the proxy, sleep.  A broadcast only     *)
(* stores the message and asks for a WRITEABLE callback of every           *)
(* connection; libwebsockets makes the callbacks in a later round, when    *)
(* the peer can take data.  Documents are numbered in the order in which   *)
(* the pipeline hands them to the proxy.                                   *)
(***************************************************************************)
EXTENDS Naturals

CONSTANTS
  Peers,     \* connections (struct lws): freed ones are used again
  None,      \* no message
  MaxDocs    \* bound: documents

ASSUME LwsAssumption ==
  /\ MaxDocs \in Nat
  /\ None \notin Nat

VARIABLES
  stage,         \* where lws_main is
  persistent,    \* controller->is_persistent()
  context,       \* "none", "null" (the port is taken), "up" or "destroyed"
  peer,          \* external, per connection: "gone", "asks", "open", "hung up"
  want,          \* external: connections that have a WRITEABLE callback coming
  clients,       \* ServerInternalState::clients
  pending,       \* ServerInternalState::pending_broadcast
  current,       \* SystemMetricsLwsProxy::current_json_str
  has_new_data,  \* SystemMetricsLwsProxy::has_new_data
  received       \* per connection: the newest message when it was
                 \* established, or the last one written to it

netVars   == <<peer, want>>
stateVars == <<clients, pending, received>>
proxyVars == <<current, has_new_data>>
lwsVars   == <<stage, persistent, context, peer, want, clients, pending,
               current, has_new_data, received>>

\* Connections for which ESTABLISHED has been called back and CLOSED has not.
Connected == {c \in Peers : peer[c] \in {"open", "hung up"}}

\* The number of the message that a write would send.
Newest == IF pending = None THEN 0 ELSE pending

LwsInit ==
  /\ stage = "create"
  /\ persistent \in BOOLEAN
  /\ context = "none"
  /\ peer = [c \in Peers |-> "gone"]
  /\ want = {}
  /\ clients = {}
  /\ pending = None
  /\ current = 0
  /\ has_new_data = FALSE
  /\ received = [c \in Peers |-> 0]

-----------------------------------------------------------------------------
(* The peers, at any moment.                                                *)

Connect(c) ==
  /\ context = "up" /\ stage # "crashed"
  /\ peer[c] = "gone"
  /\ peer' = [peer EXCEPT ![c] = "asks"]
  /\ UNCHANGED <<stage, persistent, context, want, stateVars, proxyVars>>

\* Before ESTABLISHED the server does not hear of it.
HangUp(c) ==
  /\ peer[c] \in {"asks", "open"}
  /\ peer' = [peer EXCEPT ![c] = IF @ = "asks" THEN "gone" ELSE "hung up"]
  /\ UNCHANGED <<stage, persistent, context, want, stateVars, proxyVars>>

-----------------------------------------------------------------------------
(* LwsServer: constructor, callbacks, destructor.                           *)

\* lws_create_context returns a null pointer when the port is taken.
Create ==
  /\ stage = "create"
  /\ context' \in {"up", "null"}
  /\ stage' = "loop"
  /\ UNCHANGED <<persistent, netVars, stateVars, proxyVars>>

\* libwebsockets calls back while it serves events, and once more for every
\* connection while the context is destroyed.
Calling == context = "up" /\ stage \in {"step", "destroy"}

Established(c) ==
  /\ Calling /\ stage = "step"
  /\ peer[c] = "asks"
  /\ peer' = [peer EXCEPT ![c] = "open"]
  /\ clients' = clients \cup {c}
  /\ received' = [received EXCEPT ![c] = Newest]
  /\ UNCHANGED <<stage, persistent, context, want, pending, proxyVars>>

\* Mutant of Closed: the connection stays in the set.
ClosedKeeps(c) ==
  /\ Calling
  /\ peer[c] = "hung up" \/ (peer[c] = "open" /\ stage = "destroy")
  /\ peer' = [peer EXCEPT ![c] = "gone"]
  /\ want' = want \ {c}
  /\ UNCHANGED <<stage, persistent, context, stateVars, proxyVars>>

Closed(c) ==
  /\ Calling
  /\ peer[c] = "hung up" \/ (peer[c] = "open" /\ stage = "destroy")
  /\ peer' = [peer EXCEPT ![c] = "gone"]
  /\ want' = want \ {c}
  /\ clients' = clients \ {c}
  /\ UNCHANGED <<stage, persistent, context, pending, received, proxyVars>>

\* Mutant of Writeable: the message is dropped once somebody has it.
WriteableOnce(c) ==
  /\ Calling /\ stage = "step"
  /\ c \in want
  /\ want' = want \ {c}
  /\ IF pending # None /\ peer[c] = "open"
     THEN received' = [received EXCEPT ![c] = pending] /\ pending' = None
     ELSE UNCHANGED <<received, pending>>
  /\ UNCHANGED <<stage, persistent, context, peer, clients, proxyVars>>

\* The result of lws_write is ignored: to a peer that hung up nothing is sent.
Writeable(c) ==
  /\ Calling /\ stage = "step"
  /\ c \in want
  /\ want' = want \ {c}
  /\ IF pending # None /\ peer[c] = "open"
     THEN received' = [received EXCEPT ![c] = pending]
     ELSE UNCHANGED received
  /\ UNCHANGED <<stage, persistent, context, peer, clients, pending, proxyVars>>

\* Mutant of Broadcast: a new message waits until everybody has the last one.
BroadcastIfIdle(data) ==
  IF context = "null"
  THEN stage' = "crashed" /\ UNCHANGED <<pending, want>>
  ELSE /\ stage' = "sleep"
       /\ IF want = {}
          THEN pending' = data /\ want' = Connected
          ELSE UNCHANGED <<pending, want>>

\* broadcast(): a null context is dereferenced (lws_context_user).
Broadcast(data) ==
  IF context = "null"
  THEN stage' = "crashed" /\ UNCHANGED <<pending, want>>
  ELSE stage' = "sleep" /\ pending' = data /\ want' = Connected

-----------------------------------------------------------------------------
(* lws_main.                                                                *)

LoopTest ==
  /\ stage = "loop"
  /\ stage' = IF persistent THEN "step" ELSE "destroy"
  /\ UNCHANGED <<persistent, context, netVars, stateVars, proxyVars>>

\* server.step() returns after any number of callbacks; lws_service returns at
\* once for a null context.
StepReturns ==
  /\ stage = "step"
  /\ stage' = "tick"
  /\ UNCHANGED <<persistent, context, netVars, stateVars, proxyVars>>

\* A tick that renders: the pipeline calls updateData.
TickPublishes ==
  /\ stage = "tick"
  /\ current < MaxDocs
  /\ current' = current + 1
  /\ has_new_data' = TRUE
  /\ stage' = "poll"
  /\ UNCHANGED <<persistent, context, netVars, stateVars>>

\* A tick that is used up by a reload, which may change the run mode, or that
\* ends in a processor of another output mode.
TickReloads ==
  /\ stage = "tick"
  /\ persistent' \in BOOLEAN
  /\ stage' = "poll"
  /\ UNCHANGED <<context, netVars, stateVars, proxyVars>>

\* A tick or updateData that throws: nothing catches it.
TickThrows ==
  /\ stage = "tick"
  /\ stage' = "crashed"
  /\ UNCHANGED <<persistent, context, netVars, stateVars, proxyVars>>

\* Mutant of PollProxy: nothing is taken while nobody is connected.
PollProxyIfConnected ==
  /\ stage = "poll"
  /\ IF has_new_data /\ clients # {}
     THEN Broadcast(current) /\ has_new_data' = FALSE
     ELSE stage' = "sleep" /\ UNCHANGED <<pending, want, has_new_data>>
  /\ UNCHANGED <<persistent, context, peer, clients, received, current>>

\* Mutant of PollProxy: consume() does not clear the flag.
PollProxyAgain ==
  /\ stage = "poll"
  /\ IF has_new_data
     THEN Broadcast(current)
     ELSE stage' = "sleep" /\ UNCHANGED <<pending, want>>
  /\ UNCHANGED <<persistent, context, peer, clients, received, proxyVars>>

\* if (proxy->ready()) server.broadcast(proxy->consume())
PollProxy ==
  /\ stage = "poll"
  /\ IF has_new_data
     THEN Broadcast(current) /\ has_new_data' = FALSE
     ELSE stage' = "sleep" /\ UNCHANGED <<pending, want, has_new_data>>
  /\ UNCHANGED <<persistent, context, peer, clients, received, current>>

Sleep ==
  /\ stage = "sleep"
  /\ stage' = "loop"
  /\ UNCHANGED <<persistent, context, netVars, stateVars, proxyVars>>

\* ~LwsServer: the context is destroyed after the last CLOSED callback; the
\* ServerInternalState they use is never freed.
Destroy ==
  /\ stage = "destroy"
  /\ Connected = {}
  /\ context' = IF context = "up" THEN "destroyed" ELSE context
  /\ peer' = [c \in Peers |-> "gone"]
  /\ stage' = "exit"
  /\ UNCHANGED <<persistent, want, stateVars, proxyVars>>

LwsTerminated == stage \in {"exit", "crashed"} /\ UNCHANGED lwsVars

LwsMain ==
  \/ Create \/ LoopTest \/ StepReturns
  \/ TickPublishes \/ TickReloads \/ TickThrows
  \/ PollProxy \/ Sleep \/ Destroy

LwsNext ==
  \/ LwsMain
  \/ \E c \in Peers : \/ Connect(c) \/ HangUp(c)
                      \/ Established(c) \/ Closed(c) \/ Writeable(c)
  \/ LwsTerminated

LwsSpec == LwsInit /\ [][LwsNext]_lwsVars

\* The loop goes round, and lws_service leaves no event aside for ever: one
\* that is there again and again when it polls is served.
LwsFairSpec ==
  /\ LwsSpec
  /\ WF_lwsVars(LwsMain)
  /\ \A c \in Peers : SF_lwsVars(Writeable(c)) /\ SF_lwsVars(Closed(c))

-----------------------------------------------------------------------------
(* Properties.                                                              *)

\* Every variable keeps its shape; in particular what is broadcast is always a
\* document, never the empty string of a proxy that has none yet.
LwsTypeOK ==
  /\ stage \in {"create", "loop", "step", "tick", "poll", "sleep", "destroy",
             "exit", "crashed"}
  /\ persistent \in BOOLEAN
  /\ context \in {"none", "null", "up", "destroyed"}
  /\ peer \in [Peers -> {"gone", "asks", "open", "hung up"}]
  /\ want \subseteq Peers
  /\ clients \subseteq Peers
  /\ pending \in 1..MaxDocs \cup {None}
  /\ current \in 0..MaxDocs
  /\ has_new_data \in BOOLEAN
  /\ received \in [Peers -> 0..MaxDocs]

\* The set of clients holds exactly the live connections, and callbacks are
\* outstanding only for these: no pointer to a connection that libwebsockets
\* has freed, and may use again, is left behind (callback_telemetry).
OnlyLiveConnections == clients = Connected /\ want \subseteq clients

\* No document is overwritten in the proxy before it was broadcast: the flag
\* is never up when the next tick may call updateData (lws_main).
NothingOverwritten == stage \in {"loop", "step", "tick"} => ~has_new_data

\* A WRITEABLE callback that is outstanding has something new to send, however
\* the broadcasts and callbacks interleave: nobody is written a message twice,
\* nor an empty one (broadcast, callback_telemetry).
OnlyNewsIsSent == \A c \in want : pending # None /\ received[c] < pending

\* What readers have changes only to the newest document and only forwards, none
\* is from before the reader came, and every document is broadcast in its turn.
Board == INSTANCE Bulletin WITH
           Readers <- Peers,
           Away    <- None,
           posted  <- Newest,
           seen    <- [c \in Peers |-> IF c \in clients THEN received[c]
                                        ELSE None]

ReadersSeeTheNewest == Board!BulletinSpec

\* A reader that stays connected gets the newest message, or a newer one, as
\* long as the loop runs: one reader's write takes nothing from the others.
NewestArrives ==
  \A c \in Peers, n \in 1..MaxDocs :
    (peer[c] = "open" /\ pending = n /\ c \in want)
      ~> \/ received[c] >= n
         \/ peer[c] # "open"
         \/ stage \in {"destroy", "exit", "crashed"}
=============================================================================
