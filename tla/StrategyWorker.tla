--------------------------- MODULE StrategyWorker ---------------------------
(***************************************************************************)
(* The worker process of SPSC (worker-main.cpp, WorkerStrategyServices.cpp) *)
(* and the transport it shares with the engine (ShmStrategyTransport.cpp). *)
(*                                                                         *)
(* Each direction is a ring, here the bounded queue that ShmSpscRing is    *)
(* proved to implement, and an eventfd that wakes the other side.  A send  *)
(* is two steps, the push and the eventfd_write, and the peer may run      *)
(* between them.  The worker is one thread: its variables that no other    *)
(* process reads (the caches, the counters) change together with the       *)
(* shared access that precedes them.                                       *)
(*                                                                         *)
(* The engine's runtime is not in this repository.  It is modelled from    *)
(* how the transport is used: it sends events when it likes and, woken by  *)
(* its eventfd, drains it and pops actions until there are none.           *)
(***************************************************************************)
EXTENDS Integers, Sequences

CONSTANTS
    Event,          \* wire frames of the event ring: [kind, exchange, account]
    Instrument,     \* <<exchange, instrument id>> pairs
    Account,        \* <<exchange, account id>> pairs (makeAccountKey)
    EventCapacity,  \* eventRing_.capacity()
    ActionCapacity, \* actionRing_.capacity()
    FdMax,          \* largest value of an eventfd counter
    CountMod,       \* number of values of a sequence counter (2^64)
    MaxCalls,       \* bound on the service calls of one strategy callback
    NotifyMayFail   \* whether eventfd_write can fail other than with EAGAIN

ASSUME WorkerAssumption ==
    /\ EventCapacity \in Nat \ {0} /\ ActionCapacity \in Nat \ {0}
    /\ FdMax \in Nat \ {0}
    /\ CountMod \in Nat /\ CountMod > ActionCapacity + 1
    /\ MaxCalls \in Nat
    /\ NotifyMayFail \in BOOLEAN
    /\ \A e \in Event : e.kind \in {"account", "wallet", "position"} =>
          <<e.exchange, e.account>> \in Account

VARIABLES
    eventRing, actionRing,  \* frames in the two rings, oldest first
    workerFd, engineFd,     \* counters of workerWakeFd and engineWakeFd
    epc,                    \* engine: "idle", "notify" (sendEvent), "recv" (drain)
    engineSubs,             \* instruments the engine has subscribed for the worker
    engineSawReady,         \* whether the engine has received WorkerReady
    wpc,                    \* where the worker is in runWorker
    exitCode,
    sending,                \* <<a>>: action a is pushed, eventfd_write is next
    hasStrategy,            \* makeWorkerStrategy returned a strategy
    callsLeft,              \* service calls the running callback may still make
    eventsSeen, heartbeatSeq,
    due,                    \* kHeartbeatInterval has passed since the last one
    keepRunning,            \* g_keepRunning
    subscribed,             \* subscribedInstruments_
    connected,              \* connectedExchanges_
    readyAccounts, accountInfos, walletInfos  \* the account caches, their keys

caches == <<subscribed, connected, readyAccounts, accountInfos, walletInfos>>
engineVars == <<epc, engineSubs, engineSawReady>>
loopVars == <<hasStrategy, callsLeft, eventsSeen, heartbeatSeq>>
swVars == <<eventRing, actionRing, workerFd, engineFd, engineVars, wpc, exitCode,
          sending, loopVars, due, keepRunning, caches>>

\* The actions a worker sends; an order may be too large for a slot.
Subscribe(i)   == [kind |-> "subscribe", arg |-> i]
Unsubscribe(i) == [kind |-> "unsubscribe", arg |-> i]
Setup(a)       == [kind |-> "setup", arg |-> a]
Order          == [kind |-> "order", arg |-> 0]
LargeOrder     == [kind |-> "largeOrder", arg |-> 0]
Ready          == [kind |-> "ready", arg |-> 0]
Ack(n)         == [kind |-> "ack", arg |-> n]
Heartbeat(n)   == [kind |-> "heartbeat", arg |-> n]

ServiceCall ==
    {Subscribe(i) : i \in Instrument} \cup {Unsubscribe(i) : i \in Instrument}
        \cup {Setup(a) : a \in Account} \cup {Order, LargeOrder}

Count == 0 .. CountMod - 1
Action == ServiceCall \cup {Ready} \cup {Ack(n) : n \in Count} \cup {Heartbeat(n) : n \in Count}

SwInit ==
    /\ eventRing = << >> /\ actionRing = << >>
    /\ workerFd = 0 /\ engineFd = 0
    /\ epc = "idle" /\ engineSubs = {} /\ engineSawReady = FALSE
    /\ wpc = "open" /\ exitCode = 0 /\ sending = << >>
    /\ hasStrategy = FALSE /\ callsLeft = 0
    /\ eventsSeen = 0 /\ heartbeatSeq = 0
    /\ due = FALSE /\ keepRunning = TRUE
    /\ subscribed = {} /\ connected = {}
    /\ readyAccounts = {} /\ accountInfos = {} /\ walletInfos = {}

-----------------------------------------------------------------------------
(* The engine.                                                             *)

\* sendEvent up to the push; on a full ring it reports false and is done.
EngineSend(e) ==
    /\ epc = "idle"
    /\ Len(eventRing) < EventCapacity
    /\ eventRing' = Append(eventRing, e)
    /\ epc' = "notify"
    /\ UNCHANGED <<actionRing, workerFd, engineFd, engineSubs, engineSawReady, wpc,
                   exitCode, sending, loopVars, due, keepRunning, caches>>

\* eventfd_write adds one; at the counter's limit it is EAGAIN, which is fine
\* since the counter is then not zero.
Bump(fd) == IF fd < FdMax THEN fd + 1 ELSE fd

EngineNotify ==
    /\ epc = "notify"
    /\ \/ workerFd' = Bump(workerFd)
       \/ NotifyMayFail /\ UNCHANGED workerFd
    /\ epc' = "idle"
    /\ UNCHANGED <<eventRing, actionRing, engineFd, engineSubs, engineSawReady, wpc,
                   exitCode, sending, loopVars, due, keepRunning, caches>>

\* the reactor finds engineWakeFd readable: drainWakeups, then pop actions
EngineDrain ==
    /\ epc = "idle"
    /\ engineFd > 0
    /\ engineFd' = 0
    /\ epc' = "recv"
    /\ UNCHANGED <<eventRing, actionRing, workerFd, engineSubs, engineSawReady, wpc,
                   exitCode, sending, loopVars, due, keepRunning, caches>>

\* what applying an action does to the set of subscribed instruments
Applied(subs, a) ==
    CASE a.kind = "subscribe"   -> subs \cup {a.arg}
      [] a.kind = "unsubscribe" -> subs \ {a.arg}
      [] OTHER                  -> subs

\* tryRecvAction until it reports false
EngineRecv ==
    /\ epc = "recv"
    /\ \/ /\ actionRing = << >>
          /\ epc' = "idle"
          /\ UNCHANGED <<actionRing, engineSubs, engineSawReady>>
       \/ /\ actionRing # << >>
          /\ actionRing' = Tail(actionRing)
          /\ engineSubs' = Applied(engineSubs, Head(actionRing))
          /\ engineSawReady' = (engineSawReady \/ Head(actionRing) = Ready)
          /\ UNCHANGED epc
    /\ UNCHANGED <<eventRing, workerFd, engineFd, wpc, exitCode, sending, loopVars,
                   due, keepRunning, caches>>

-----------------------------------------------------------------------------
(* The worker: sending an action.                                          *)

ExitWith(code) == wpc' = "exited" /\ exitCode' = code

\* mistake: the local view is updated whether or not the action was sent
CacheCallUnchecked(a, accepted) ==
    /\ subscribed' = Applied(subscribed, a)
    /\ readyAccounts' = readyAccounts \cup {x \in Account : accepted /\ a = Setup(x)}
    /\ connected' = connected \cup {x[1] : x \in
                       {y \in Instrument \cup Account : accepted /\ a \in {Subscribe(y), Setup(y)}}}
    /\ UNCHANGED <<accountInfos, walletInfos>>

\* what subscribe, unsubscribe and setupExchange remember of a call that
\* sendAction reports as sent; the order calls remember nothing
CacheCall(a, accepted) ==
    /\ subscribed' = IF accepted THEN Applied(subscribed, a) ELSE subscribed
    /\ readyAccounts' = readyAccounts \cup {x \in Account : accepted /\ a = Setup(x)}
    /\ connected' = connected \cup {x[1] : x \in
                       {y \in Instrument \cup Account : accepted /\ a \in {Subscribe(y), Setup(y)}}}
    /\ UNCHANGED <<accountInfos, walletInfos>>

\* mistake: one event per wakeup; after its ack the worker polls again
SentOneEventPerWakeup(a, ok) ==
    \/ /\ wpc \in {"start", "callback"}
       /\ CacheCall(a, ok)
       /\ UNCHANGED <<wpc, exitCode, due>>
    \/ /\ wpc \in {"ready", "ack", "beat"}
       /\ IF ok THEN wpc' = "poll" /\ UNCHANGED exitCode ELSE ExitWith(5)
       /\ due' = (due /\ wpc = "ack")
       /\ UNCHANGED caches

\* What the caller of sendAction does with its result: a service call in
\* start() or in a callback goes back to the strategy; a failed WorkerReady,
\* ack or heartbeat ends the worker.
Sent(a, ok) ==
    \/ /\ wpc \in {"start", "callback"}
       /\ CacheCall(a, ok)
       /\ UNCHANGED <<wpc, exitCode, due>>
    \/ /\ wpc = "ready"
       /\ IF ok THEN wpc' = "poll" /\ UNCHANGED exitCode ELSE ExitWith(3)
       /\ due' = FALSE
       /\ UNCHANGED caches
    \/ /\ wpc = "ack"
       /\ IF ok THEN wpc' = "recv" /\ UNCHANGED exitCode ELSE ExitWith(5)
       /\ UNCHANGED <<due, caches>>
    \/ /\ wpc = "beat"
       /\ IF ok THEN wpc' = "poll" /\ due' = FALSE /\ UNCHANGED exitCode
                ELSE ExitWith(7) /\ UNCHANGED due
       /\ UNCHANGED caches

\* sendAction up to the push: a frame too large for a slot and a full ring
\* are failures.
SendAction(a) ==
    /\ sending = << >>
    /\ \/ /\ a # LargeOrder
          /\ Len(actionRing) < ActionCapacity
          /\ actionRing' = Append(actionRing, a)
          /\ sending' = <<a>>
          /\ UNCHANGED <<wpc, exitCode, due, caches>>
       \/ /\ a = LargeOrder \/ Len(actionRing) = ActionCapacity
          /\ Sent(a, FALSE)
          /\ UNCHANGED <<actionRing, sending>>
    /\ UNCHANGED <<eventRing, workerFd, engineFd, engineVars, keepRunning>>

\* notifyPeer, and sendAction returns
NotifyPeer ==
    /\ wpc # "exited"
    /\ sending # << >>
    /\ sending' = << >>
    /\ \/ engineFd' = Bump(engineFd) /\ Sent(sending[1], TRUE)
       \/ NotifyMayFail /\ UNCHANGED engineFd /\ Sent(sending[1], FALSE)
    /\ UNCHANGED <<eventRing, actionRing, workerFd, engineVars, loopVars, keepRunning>>

-----------------------------------------------------------------------------
(* The worker: runWorker.                                                  *)

\* a strategy or, for an unknown name or a throwing constructor, none
makeWorkerStrategy == hasStrategy' \in BOOLEAN

\* ShmStrategyTransport::make opens the rings or fails
Open ==
    /\ wpc = "open"
    /\ \/ ExitWith(2) /\ UNCHANGED <<hasStrategy, callsLeft>>
       \/ /\ makeWorkerStrategy
          /\ wpc' = IF hasStrategy' THEN "start" ELSE "ready"
          /\ callsLeft' = MaxCalls
          /\ UNCHANGED exitCode
    /\ UNCHANGED <<eventRing, actionRing, workerFd, engineFd, engineVars, sending,
                   eventsSeen, heartbeatSeq, due, keepRunning, caches>>

\* the strategy, in start() or in a callback, calls one of its services
CallService(a) ==
    /\ wpc \in {"start", "callback"}
    /\ callsLeft > 0
    /\ SendAction(a)
    /\ callsLeft' = callsLeft - 1
    /\ UNCHANGED <<hasStrategy, eventsSeen, heartbeatSeq>>

\* start() returns, or throws
Started ==
    /\ wpc = "start"
    /\ sending = << >>
    /\ \/ wpc' = "ready" /\ UNCHANGED exitCode
       \/ ExitWith(6)
    /\ UNCHANGED <<eventRing, actionRing, workerFd, engineFd, engineVars, sending,
                   loopVars, due, keepRunning, caches>>

SendReady ==
    /\ wpc = "ready"
    /\ SendAction(Ready)
    /\ UNCHANGED loopVars

\* mistake: a readable eventfd is taken for a timeout
PollMissesWakeup ==
    /\ wpc = "poll"
    /\ \/ ~keepRunning /\ ExitWith(0)
       \/ keepRunning /\ wpc' = "timer" /\ UNCHANGED exitCode
    /\ UNCHANGED <<eventRing, actionRing, workerFd, engineFd, engineVars, sending,
                   loopVars, due, keepRunning, caches>>

\* mistake: the loop does not look at g_keepRunning
PollForever ==
    /\ wpc = "poll"
    /\ wpc' = IF workerFd > 0 THEN "drain" ELSE "timer"
    /\ UNCHANGED <<eventRing, actionRing, workerFd, engineFd, engineVars, exitCode, sending,
                   loopVars, due, keepRunning, caches>>

\* The head of the loop and poll: a cleared g_keepRunning ends the worker, a
\* readable eventfd leads to the ring, a timeout past it, an error out.
Poll ==
    /\ wpc = "poll"
    /\ \/ ~keepRunning /\ ExitWith(0)
       \/ keepRunning /\ workerFd > 0 /\ wpc' = "drain" /\ UNCHANGED exitCode
       \/ keepRunning /\ workerFd = 0 /\ wpc' = "timer" /\ UNCHANGED exitCode
       \/ keepRunning /\ ExitWith(4)
    /\ UNCHANGED <<eventRing, actionRing, workerFd, engineFd, engineVars, sending,
                   loopVars, due, keepRunning, caches>>

DrainWakeups ==
    /\ wpc = "drain"
    /\ workerFd' = 0
    /\ wpc' = "recv"
    /\ UNCHANGED <<eventRing, actionRing, engineFd, engineVars, exitCode, sending,
                   loopVars, due, keepRunning, caches>>

\* WorkerStrategyServices::handleEvent.  Kinds: "market" data, "account"
\* (status or login response), "wallet", "position", and the order responses
\* and fills, "response", which it ignores.
HandleEvent(e) ==
    /\ connected' = IF e.kind = "response" THEN connected ELSE connected \cup {e.exchange}
    /\ readyAccounts' = IF e.kind \in {"account", "position"}
                          THEN readyAccounts \cup {<<e.exchange, e.account>>} ELSE readyAccounts
    /\ accountInfos' = IF e.kind = "account"
                         THEN accountInfos \cup {<<e.exchange, e.account>>} ELSE accountInfos
    /\ walletInfos' = IF e.kind \in {"account", "wallet"}
                        THEN walletInfos \cup {<<e.exchange, e.account>>} ELSE walletInfos
    /\ UNCHANGED subscribed

\* mistake: a frame that does not decode is counted as an event
RecvEventCountsUndecodable ==
    /\ wpc = "recv"
    /\ eventRing' = IF eventRing = << >> THEN eventRing ELSE Tail(eventRing)
    /\ eventsSeen' = IF eventRing = << >> THEN eventsSeen ELSE (eventsSeen + 1) % CountMod
    /\ callsLeft' = MaxCalls
    /\ \/ eventRing = << >> /\ wpc' = "timer" /\ UNCHANGED caches
       \/ /\ eventRing # << >>
          /\ wpc' = IF Head(eventRing).kind = "undecodable" THEN "timer"
                    ELSE IF hasStrategy THEN "callback" ELSE "ack"
          /\ IF wpc' = "callback" THEN HandleEvent(Head(eventRing)) ELSE UNCHANGED caches
    /\ UNCHANGED <<actionRing, workerFd, engineFd, engineVars, exitCode, sending,
                   hasStrategy, heartbeatSeq, due, keepRunning>>

\* tryRecvEvent.  Empty: leave the inner loop.  A frame that does not decode
\* is gone from the ring, and the inner loop is left as well.  Otherwise the
\* event goes through handleEvent to the strategy's callback.
RecvEvent ==
    /\ wpc = "recv"
    /\ \/ /\ eventRing = << >>
          /\ wpc' = "timer"
          /\ UNCHANGED <<eventRing, eventsSeen, callsLeft, caches>>
       \/ /\ eventRing # << >>
          /\ Head(eventRing).kind = "undecodable"
          /\ eventRing' = Tail(eventRing)
          /\ wpc' = "timer"
          /\ UNCHANGED <<eventsSeen, callsLeft, caches>>
       \/ /\ eventRing # << >>
          /\ Head(eventRing).kind # "undecodable"
          /\ eventRing' = Tail(eventRing)
          /\ wpc' = IF hasStrategy THEN "callback" ELSE "ack"
          /\ eventsSeen' = (eventsSeen + 1) % CountMod
          /\ callsLeft' = MaxCalls
          /\ IF hasStrategy THEN HandleEvent(Head(eventRing)) ELSE UNCHANGED caches
    /\ UNCHANGED <<actionRing, workerFd, engineFd, engineVars, exitCode, sending,
                   hasStrategy, heartbeatSeq, due, keepRunning>>

\* the callback returns
CallbackDone ==
    /\ wpc = "callback"
    /\ sending = << >>
    /\ wpc' = "ack"
    /\ UNCHANGED <<eventRing, actionRing, workerFd, engineFd, engineVars, exitCode,
                   sending, loopVars, due, keepRunning, caches>>

SendAck ==
    /\ wpc = "ack"
    /\ SendAction(Ack(eventsSeen))
    /\ UNCHANGED loopVars

\* the clock is read after the ring: is a heartbeat due?
CheckTimer ==
    /\ wpc = "timer"
    /\ wpc' = IF due THEN "beat" ELSE "poll"
    /\ UNCHANGED <<eventRing, actionRing, workerFd, engineFd, engineVars, exitCode,
                   sending, loopVars, due, keepRunning, caches>>

SendHeartbeat ==
    /\ wpc = "beat"
    /\ heartbeatSeq' = (heartbeatSeq + 1) % CountMod
    /\ SendAction(Heartbeat(heartbeatSeq'))
    /\ UNCHANGED <<hasStrategy, callsLeft, eventsSeen>>

WorkerStep ==
    \/ Open
    \/ \E a \in ServiceCall : CallService(a)
    \/ Started
    \/ SendReady
    \/ Poll
    \/ DrainWakeups
    \/ RecvEvent
    \/ CallbackDone
    \/ SendAck
    \/ CheckTimer
    \/ SendHeartbeat
    \/ NotifyPeer

\* 250 ms have passed since lastHeartbeatSent
IntervalPasses ==
    /\ wpc \notin {"open", "start", "ready", "exited", "beat"}
    /\ due' = TRUE
    /\ UNCHANGED <<eventRing, actionRing, workerFd, engineFd, engineVars, wpc, exitCode,
                   sending, loopVars, keepRunning, caches>>

\* SIGINT or SIGTERM
WorkerSignalHandler ==
    /\ wpc # "exited"
    /\ keepRunning' = FALSE
    /\ UNCHANGED <<eventRing, actionRing, workerFd, engineFd, engineVars, wpc, exitCode,
                   sending, loopVars, due, caches>>

\* SIGKILL or a crash, at any point, between a push and its notify too
Killed ==
    /\ wpc # "exited"
    /\ ExitWith(9)
    /\ UNCHANGED <<eventRing, actionRing, workerFd, engineFd, engineVars, sending,
                   loopVars, due, keepRunning, caches>>

EngineStep == EngineNotify \/ EngineDrain \/ EngineRecv

SwNext ==
    \/ \E e \in Event : EngineSend(e)
    \/ EngineStep
    \/ WorkerStep
    \/ IntervalPasses
    \/ WorkerSignalHandler
    \/ Killed

SwSpec == SwInit /\ [][SwNext]_swVars

\* Neither side ever blocks for good: poll times out after 100 ms, sends and
\* receives do not wait, callbacks return, and the engine finishes a send and
\* answers its wakeups.
SwFairSpec == SwSpec /\ WF_swVars(WorkerStep) /\ WF_swVars(EngineNotify)
                 /\ WF_swVars(EngineRecv) /\ SF_swVars(EngineDrain)

-----------------------------------------------------------------------------
(* What the strategy may ask of its services, of an exchange e, an account *)
(* a and an instrument i: whether the answer is yes, or not empty.         *)

isMdhReady(e) == e \in connected
getWalletInfo(a) == a \in walletInfos
getAccountInfo(a) == a \in accountInfos
getSubscribedInstruments(e) == {i \in subscribed : i[1] = e}
isInstrumentSubscribed(i) == i \in subscribed
isExchangeReady(a) == a \in readyAccounts

-----------------------------------------------------------------------------
\* Every variable has its type.
SwTypeOK ==
    /\ eventRing \in Seq(Event) /\ Len(eventRing) <= EventCapacity
    /\ actionRing \in Seq(Action) /\ Len(actionRing) <= ActionCapacity
    /\ workerFd \in 0 .. FdMax /\ engineFd \in 0 .. FdMax
    /\ epc \in {"idle", "notify", "recv"}
    /\ engineSubs \subseteq Instrument /\ engineSawReady \in BOOLEAN
    /\ wpc \in {"open", "start", "ready", "poll", "drain", "recv", "callback", "ack",
                "timer", "beat", "exited"}
    /\ exitCode \in {0, 2, 3, 4, 5, 6, 7, 9}
    /\ sending \in {<< >>} \cup {<<a>> : a \in Action}
    /\ hasStrategy \in BOOLEAN /\ callsLeft \in 0 .. MaxCalls
    /\ eventsSeen \in Count /\ heartbeatSeq \in Count
    /\ due \in BOOLEAN /\ keepRunning \in BOOLEAN
    /\ subscribed \subseteq Instrument
    /\ readyAccounts \subseteq Account /\ accountInfos \subseteq Account
    /\ walletInfos \subseteq Account

\* No lost wakeup, engine to worker: a worker that has left the inner loop
\* leaves no event behind without a wakeup that will bring it back; the rings
\* are read only after a wakeup, not on poll's timeout.  The inner loop relies
\* for this on what ShmStrategyTransport.hpp says of tryRecvEvent: "@return
\* true if an event was popped and decoded, false if empty."
NoStrandedEvent ==
    wpc \in {"open", "start", "ready", "poll", "timer", "beat"} /\ eventRing # << >>
        => workerFd > 0 \/ epc = "notify"

\* No lost wakeup, worker to engine: an action in the ring has an eventfd_write
\* that announces it, done or still to come, unless the engine is reading.
NoStrandedAction ==
    epc # "recv" /\ actionRing # << >> /\ wpc # "exited"
        => engineFd > 0 \/ sending # << >>

\* No wakeup is lost in either direction between engine and worker.
WakeupsKept == NoStrandedEvent /\ NoStrandedAction

\* What the engine's subscription of i will be once it has applied the actions
\* in the ring: the last one about i decides.
WillBeSubscribed(i) ==
    \/ /\ i \in engineSubs
       /\ \A m \in 1 .. Len(actionRing) : actionRing[m] # Unsubscribe(i)
    \/ \E n \in 1 .. Len(actionRing) :
          /\ actionRing[n] = Subscribe(i)
          /\ \A m \in n + 1 .. Len(actionRing) : actionRing[m] # Unsubscribe(i)

\* What isInstrumentSubscribed answers is what the engine's subscriptions will
\* be once it has applied the actions still in the ring.  The cache relies for
\* this on what ShmStrategyTransport.hpp says of sendAction: "@return true on
\* success, false if ring is full or serialization fails."
SubscriptionsAgree ==
    wpc # "exited" /\ sending = << >> =>
        \A i \in Instrument : isInstrumentSubscribed(i) <=> WillBeSubscribed(i)

AckAt == {i \in 1 .. Len(actionRing) : actionRing[i].kind = "ack"}

\* The number of the last event that is acknowledged, in the ring or before.
LastAcked == IF wpc = "callback" \/ (wpc = "ack" /\ sending = << >>)
               THEN eventsSeen - 1 ELSE eventsSeen

\* Acks carry consecutive numbers up to the last event taken, none is skipped
\* or sent twice, and the event whose ack is missing is the one being handled.
AcksConsecutive ==
    wpc # "exited" =>
        /\ \A i \in AckAt : (\A j \in AckAt : j <= i) =>
              actionRing[i].arg = LastAcked % CountMod
        /\ \A i, j \in AckAt : i < j /\ (\A k \in AckAt : k <= i \/ j <= k) =>
              actionRing[j].arg = (actionRing[i].arg + 1) % CountMod

\* The engine hears WorkerReady before any ack or heartbeat.
ReadyFirst ==
    \A i \in 1 .. Len(actionRing) : actionRing[i].kind \in {"ack", "heartbeat"} =>
        engineSawReady \/ \E j \in 1 .. i - 1 : actionRing[j] = Ready

\* What the engine reads of a worker's progress is complete and in order.
ReportsInOrder == SwTypeOK /\ AcksConsecutive /\ ReadyFirst

\* An account known to be ready has a connected exchange, and one with account
\* information has a wallet and is ready: what the queries of
\* WorkerStrategyServices answer about one account fits together.
CachesAgree ==
    /\ \A a \in Account :
          /\ isExchangeReady(a) \/ getWalletInfo(a) => isMdhReady(a[1])
          /\ getAccountInfo(a) => getWalletInfo(a) /\ isExchangeReady(a)
    /\ \A i \in Instrument : getSubscribedInstruments(i[1]) # {} => isMdhReady(i[1])

\* What WorkerStrategyServices answers from its caches fits the engine and itself.
AnswersAgree == SubscriptionsAgree /\ CachesAgree

\* An account event reaches the strategy's caches however many other events
\* the engine sends around it, unless the worker ends first.
AccountReachesStrategy ==
    \A a \in Account :
        (\E i \in 1 .. Len(eventRing) :
            eventRing[i].kind = "account" /\ <<eventRing[i].exchange, eventRing[i].account>> = a)
        ~> (a \in accountInfos \/ wpc = "exited" \/ (wpc # "open" /\ ~hasStrategy))

\* Once the engine has stopped sending, a heartbeat that is due goes out: none
\* of the steps of the loop keeps the worker from its timer.
HeartbeatWhenQuiet ==
    <>[](epc # "notify") => (due ~> (~due \/ wpc = "exited"))

\* Likewise SIGINT and SIGTERM end the worker.
StopsWhenQuiet ==
    <>[](epc # "notify") => (~keepRunning ~> wpc = "exited")

\* The loop of runWorker gets to its timer and to a signal.
AttendsWhenQuiet == HeartbeatWhenQuiet /\ StopsWhenQuiet

=============================================================================
