------------------------------ MODULE WireCodec ------------------------------
(***************************************************************************)
(* The JSON codec between engine and strategy worker                       *)
(* (engine/StrategyTransportCodec.cpp) and the four calls of               *)
(* ShmStrategyTransport.cpp that use it.  A message is the name of its     *)
(* alternative of the StrategyEvent or StrategyAction variant; its fields  *)
(* are left out.  The structures themselves are not in the repository, so  *)
(* the reader of glaze is taken at its most lenient: a payload that is     *)
(* whole JSON reads into any structure, missing fields keeping their       *)
(* defaults.  Only the type id of the envelope then keeps two kinds apart. *)
(***************************************************************************)
EXTENDS Naturals, Sequences, TLC

CONSTANTS RingSlots,    \* what one ring holds
          MaxMessages   \* bound: messages sent, both directions together

VARIABLES wire,   \* direction -> frames in its ring
          handed,   \* direction -> kinds handed to send..., the cut ones marked
          got     \* direction -> what tryRecv... made of each frame

wcVars == <<wire, handed, got>>

Refused == "refused"

---------------------------------------------------------------------------
(* enum class StrategyWireMessageType: std::uint16_t *)
StrategyWireMessageType == [
    EventBookUpdate |-> 1, EventIndexPrice |-> 2, EventSnapshot |-> 3, EventTopOfBook |-> 4,
    EventMarkPrice |-> 5, EventInstrumentState |-> 6, EventFundingRate |-> 7, EventTrades |-> 8,
    EventReplaceResponse |-> 9, EventCancelResponse |-> 10, EventAmendResponse |-> 11,
    EventPlaceResponse |-> 12, EventOrderUpdate |-> 13, EventFill |-> 14, EventCancelAllResponse |-> 15,
    EventAccountStatus |-> 16, EventWalletUpdate |-> 17, EventPositionUpdate |-> 18,
    EventLoginResponse |-> 19, ActionPlace |-> 101, ActionCancel |-> 102, ActionAmend |-> 103,
    ActionReplace |-> 104, ActionCancelAll |-> 105, ActionSubscribe |-> 106, ActionUnsubscribe |-> 107,
    ActionSetupExchange |-> 108, ActionSubscribeMarketDataOnly |-> 109, ActionWorkerReady |-> 110,
    ActionWorkerEventAck |-> 111, ActionWorkerHeartbeat |-> 112]

(* The chains of std::visit: the enumerator that each alternative is written with. *)
EventVisit == [
    BookUpdate |-> "EventBookUpdate", IndexPrice |-> "EventIndexPrice", Snapshot |-> "EventSnapshot",
    TopOfBook |-> "EventTopOfBook", MarkPrice |-> "EventMarkPrice",
    InstrumentState |-> "EventInstrumentState", FundingRate |-> "EventFundingRate", Trades |-> "EventTrades",
    ReplaceResponse |-> "EventReplaceResponse", CancelResponse |-> "EventCancelResponse",
    AmendResponse |-> "EventAmendResponse", PlaceResponse |-> "EventPlaceResponse",
    OrderUpdate |-> "EventOrderUpdate", Fill |-> "EventFill", CancelAllResponse |-> "EventCancelAllResponse",
    AccountStatus |-> "EventAccountStatus", WalletUpdate |-> "EventWalletUpdate",
    PositionUpdate |-> "EventPositionUpdate", LoginResponse |-> "EventLoginResponse"]
ActionVisit == [
    Place |-> "ActionPlace", Cancel |-> "ActionCancel", Amend |-> "ActionAmend", Replace |-> "ActionReplace",
    CancelAll |-> "ActionCancelAll", Subscribe |-> "ActionSubscribe", Unsubscribe |-> "ActionUnsubscribe",
    SetupExchange |-> "ActionSetupExchange", SubscribeMarketDataOnly |-> "ActionSubscribeMarketDataOnly",
    WorkerReady |-> "ActionWorkerReady", WorkerEventAck |-> "ActionWorkerEventAck",
    WorkerHeartbeat |-> "ActionWorkerHeartbeat"]

(* The cases of the two switches: the alternative that each enumerator is read as. *)
EventSwitch == [
    EventBookUpdate |-> "BookUpdate", EventIndexPrice |-> "IndexPrice", EventSnapshot |-> "Snapshot",
    EventTopOfBook |-> "TopOfBook", EventMarkPrice |-> "MarkPrice",
    EventInstrumentState |-> "InstrumentState", EventFundingRate |-> "FundingRate", EventTrades |-> "Trades",
    EventReplaceResponse |-> "ReplaceResponse", EventCancelResponse |-> "CancelResponse",
    EventAmendResponse |-> "AmendResponse", EventPlaceResponse |-> "PlaceResponse",
    EventOrderUpdate |-> "OrderUpdate", EventFill |-> "Fill", EventCancelAllResponse |-> "CancelAllResponse",
    EventAccountStatus |-> "AccountStatus", EventWalletUpdate |-> "WalletUpdate",
    EventPositionUpdate |-> "PositionUpdate", EventLoginResponse |-> "LoginResponse"]
ActionSwitch == [
    ActionPlace |-> "Place", ActionCancel |-> "Cancel", ActionAmend |-> "Amend", ActionReplace |-> "Replace",
    ActionCancelAll |-> "CancelAll", ActionSubscribe |-> "Subscribe", ActionUnsubscribe |-> "Unsubscribe",
    ActionSetupExchange |-> "SetupExchange", ActionSubscribeMarketDataOnly |-> "SubscribeMarketDataOnly",
    ActionWorkerReady |-> "WorkerReady", ActionWorkerEventAck |-> "WorkerEventAck",
    ActionWorkerHeartbeat |-> "WorkerHeartbeat"]

(* The two JSON writes: the payload and the envelope around it. *)
encodeMessage(type, kind) == [type |-> type, payload |-> kind, whole |-> "yes"]

encodeStrategyEventMessage(kind) == encodeMessage(StrategyWireMessageType[EventVisit[kind]], kind)

(* A mistake: a branch copied from the one before it keeps its enumerator. *)
encodeStrategyActionMessageCopied(kind) ==
    encodeMessage(StrategyWireMessageType[IF kind = "Replace" THEN "ActionAmend" ELSE ActionVisit[kind]], kind)

encodeStrategyActionMessage(kind) == encodeMessage(StrategyWireMessageType[ActionVisit[kind]], kind)

(* glz::read_json into the structure of a kind, at its most lenient. *)
read_json(frame, kind) == IF frame.whole = "yes" THEN kind ELSE Refused

decodePayload(frame, kind) == read_json(frame, kind)

(* decodeEnvelope<Variant>: the envelope, then the case of its number.      *)
(* whole = "envelope": cut inside the envelope itself.                     *)
decodeEnvelope(cases, frame) ==
    LET taken == {e \in DOMAIN cases : StrategyWireMessageType[e] = frame.type}
    IN IF frame.whole # "envelope" /\ taken # {}
       THEN decodePayload(frame, cases[CHOOSE e \in taken : TRUE])
       ELSE Refused

decodeStrategyEventMessage(frame) == decodeEnvelope(EventSwitch, frame)
decodeStrategyActionMessage(frame) == decodeEnvelope(ActionSwitch, frame)

---------------------------------------------------------------------------
WcInit == /\ wire = [d \in {"events", "actions"} |-> <<>>]
          /\ handed = [d \in {"events", "actions"} |-> <<>>]
          /\ got = [d \in {"events", "actions"} |-> <<>>]

(* sendEvent of the engine and sendAction of the worker: encode, then push *)
(* into the ring unless it is full.                                        *)
SendTo(d, frame) ==
    /\ Len(handed["events"]) + Len(handed["actions"]) < MaxMessages
    /\ Len(wire[d]) < RingSlots
    /\ wire' = [wire EXCEPT ![d] = Append(@, frame)]
    /\ handed' = [handed EXCEPT ![d] = Append(@, frame.payload)]
    /\ UNCHANGED got
sendEvent == \E k \in DOMAIN EventVisit :
                 SendTo("events", encodeStrategyEventMessage(k))
sendAction == \E k \in DOMAIN ActionVisit :
                 SendTo("actions", encodeStrategyActionMessage(k))

(* tryRecvEvent of the worker and tryRecvAction of the engine: what was    *)
(* popped is gone, whether or not it decodes.                              *)
RecvFrom(d, decoded) ==
    /\ wire' = [wire EXCEPT ![d] = Tail(@)]
    /\ got' = [got EXCEPT ![d] = Append(@, decoded)]
    /\ UNCHANGED handed
tryRecvEvent == /\ wire["events"] # <<>>
                /\ RecvFrom("events", decodeStrategyEventMessage(Head(wire["events"])))
tryRecvAction == /\ wire["actions"] # <<>>
                 /\ RecvFrom("actions", decodeStrategyActionMessage(Head(wire["actions"])))

(* A slot that is filled anew while it is read: not between one worker and *)
(* its engine, whose tryPush never overwrites, but once an orphaned worker *)
(* pops the same ring (RingLifecycle).  The frame breaks in its payload or *)
(* its envelope.                                                           *)
TornFrame == \E d \in DOMAIN wire, w \in {"payload", "envelope"} :
    /\ wire[d] # <<>>
    /\ wire' = [wire EXCEPT ![d][1].whole = w]
    /\ handed' = [handed EXCEPT ![d][Len(got[d]) + 1] = Refused]
    /\ UNCHANGED got

WcNext == sendEvent \/ sendAction \/ tryRecvEvent \/ tryRecvAction \/ TornFrame

WcSpec == WcInit /\ [][WcNext]_wcVars

---------------------------------------------------------------------------
(* Every message the peer's codec wrote is decoded to the alternative it   *)
(* was, in the order sent, and a torn one to an error: the encoding switch *)
(* and the decoding switch, kept apart in the code, agree on all 31 kinds. *)
MessagesArriveAsSent ==
    \A d \in DOMAIN got : \A i \in DOMAIN got[d] : got[d][i] = handed[d][i]

(* No frame of one direction could be taken for a message of the other:    *)
(* the id ranges of events and actions do not meet, however lenient the    *)
(* JSON reader is.                                                         *)
DirectionsApart ==
    /\ \A i \in DOMAIN wire["events"] :
           decodeStrategyActionMessage(wire["events"][i]) = Refused
    /\ \A i \in DOMAIN wire["actions"] :
           decodeStrategyEventMessage(wire["actions"][i]) = Refused

\* The two directions of the codec carry their messages, and only their own.
CodecFaithful == MessagesArriveAsSent /\ DirectionsApart
=============================================================================
