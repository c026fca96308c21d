------------------------------ MODULE WebTask ------------------------------
(***************************************************************************)
(* The requests of src/src/WebServerHandler.cpp, served by the async_tcp   *)
(* task while the loop task works on the same registry (RegistrySteps) and *)
(* sends on the same radio (LoRaRadio).  A step reads or writes one thing  *)
(* that the tasks share.  The value that /value-set is given is abstracted *)
(* to the metadata it is converted with.                                   *)
(***************************************************************************)
EXTENDS RegistrySteps, LoRaRadio

CONSTANT Requests    \* what the clients ask: path, numbers, parameters given

AllEntities == 255  \* the entity of requests about a whole device
NoId == 256         \* no parameter, where there is none

Paths == {"ping", "discovery", "value-get", "value-set", "status", "other"}
Params == {"deviceId", "entityId", "value"}

ASSUME RequestsAssumption ==
    Requests \subseteq [path : Paths, deviceId : DeviceIds,
                        entityId : EntityIds, given : SUBSET Params]

VARIABLES
    web,           \* the request being served
    lastStatus     \* what /status tells

vars == <<registry, call, radio, sending, web, lastStatus>>

Packet(dst, type, entityId, by) ==
    [dst |-> dst, msgType |-> type, entityId |-> entityId, convertedBy |-> by]

\* slot and i are where the lookup is.  Histories: moved, whether the slot found
\* was written over; shifted, whether a removal overlapped the lookup; known,
\* whether the entity was registered when it began.
NoRequest == [pc |-> "idle", request |-> [path |-> "none"], slot |-> 0, i |-> 0,
              status |-> 0, moved |-> FALSE, shifted |-> FALSE, known |-> FALSE]

Init == /\ StepsInit
        /\ RadioInit
        /\ web = NoRequest
        /\ lastStatus = "none"

-----------------------------------------------------------------------------
(* The loop task: one thing at a time. *)

LoopIdle == InCall(Idle) /\ At("loop", "idle")

Removing == {"shift", "memset"}

\* The web task finds its slot, or the order of the slots, changed.
LoopCalls ==
    /\ \/ LoopIdle /\ BeginCall
       \/ Continue
    /\ LET over == /\ web.slot # 0 /\ call.at \in Removing
                   /\ registry'.devices[web.slot] # registry.devices[web.slot]
           shift == web.pc \in {"find", "search"} /\ call'.at \in Removing
       IN  web' = [web EXCEPT !.moved = @ \/ over, !.shifted = @ \/ shift]
    /\ UNCHANGED <<radio, sending, lastStatus>>

\* Answers to nodes, and commands from MQTT.
LoopSends == LoopIdle /\ Sends("loop") /\ UNCHANGED <<registry, call, web, lastStatus>>

\* loop() polls the radio, sends, or returns from sending.
LoopUsesRadio ==
    /\ InCall(Idle)
    /\ Handle \/ SendMessage("loop") \/ Sent("loop")
    /\ UNCHANGED <<registry, call, web, lastStatus>>

Loop == LoopCalls \/ LoopSends \/ LoopUsesRadio

-----------------------------------------------------------------------------
(* The async_tcp task: one request at a time. *)

Needs(path) == CASE path \in {"ping", "discovery"} -> {"deviceId"}
                 [] path = "value-get" -> {"deviceId", "entityId"}
                 [] path = "value-set" -> Params
                 [] OTHER -> {}

Complete(request) == Needs(request.path) \subseteq request.given

Answers(status) == web' = [web EXCEPT !.pc = "reply", !.status = status,
                                      !.slot = 0, !.i = 0, !.moved = FALSE]

\* Paths that touch nothing, and requests without a parameter they need.
AnswersAtOnce(request) ==
    LET answer(status) == web' = [NoRequest EXCEPT !.pc = "reply", !.request = request,
                                                   !.status = status]
    IN  /\ web.pc = "idle"
        /\ \/ request.path = "status" /\ answer(200)
           \/ request.path = "other" /\ answer(404)
           \/ ~ Complete(request) /\ answer(400)
        /\ UNCHANGED <<registry, call, radio, sending, lastStatus>>

\* What sendPingRequest, sendDiscoveryRequest and sendValueGetRequest send.
PacketFor(request) ==
    LET d == request.deviceId
        e == IF "entityId" \in request.given THEN request.entityId ELSE AllEntities
    IN  CASE request.path = "ping" -> Packet(d, "ping_req", NoId, NoEntity)
          [] request.path = "discovery" -> Packet(d, "discovery_req", e, NoEntity)
          [] request.path = "value-get" -> Packet(d, "value_req", e, NoEntity)

SendsRequest(request) ==
    /\ web.pc = "idle"
    /\ request.path \in {"ping", "discovery", "value-get"} /\ Complete(request)
    /\ web' = [NoRequest EXCEPT !.pc = "send", !.request = request]
    /\ sending' = [sending EXCEPT !["web"] = Starting(PacketFor(request))]
    /\ UNCHANGED <<registry, call, radio, lastStatus>>

\* /value-set looks the entity up: first its device ...
LooksUp(request) ==
    /\ web.pc = "idle"
    /\ request.path = "value-set" /\ Complete(request)
    /\ web' = [NoRequest EXCEPT
                 !.pc = "find", !.request = request, !.i = 1,
                 !.shifted = call.at \in Removing,
                 !.known = getEntity(Settled, request.deviceId, request.entityId) # NoEntity]
    /\ UNCHANGED <<registry, call, radio, sending, lastStatus>>

Asks(request) == AnswersAtOnce(request) \/ SendsRequest(request) \/ LooksUp(request)

\* Faulty variant of FindDevice: the last device is not looked at.
FindDeviceShort ==
    /\ web.pc = "find"
    /\ \/ web.i >= registry.deviceCount /\ Answers(400)
       \/ /\ web.i < registry.deviceCount
          /\ LET found == registry.devices[web.i].info.deviceId = web.request.deviceId
             IN  web' = IF found
                        THEN [web EXCEPT !.pc = "search", !.slot = web.i, !.i = 1,
                                         !.moved = web.i = Torn]
                        ELSE [web EXCEPT !.i = @ + 1]
    /\ UNCHANGED <<registry, call, radio, sending, lastStatus>>

FindDevice ==
    /\ web.pc = "find"
    /\ \/ web.i > registry.deviceCount /\ Answers(400)
       \/ /\ web.i <= registry.deviceCount
          /\ LET found == registry.devices[web.i].info.deviceId = web.request.deviceId
             IN  web' = IF found
                        THEN [web EXCEPT !.pc = "search", !.slot = web.i, !.i = 1,
                                         !.moved = web.i = Torn]
                        ELSE [web EXCEPT !.i = @ + 1]
    /\ UNCHANGED <<registry, call, radio, sending, lastStatus>>

Found == [web EXCEPT !.pc = "convert", !.shifted = FALSE, !.known = FALSE]

\* ... then the entity in the device's slot.
SearchEntity ==
    LET slot == registry.devices[web.slot]
    IN  /\ web.pc = "search"
        /\ \/ web.i > slot.registeredEntityCount /\ Answers(400)
           \/ /\ web.i <= slot.registeredEntityCount
              /\ web' = IF slot.entities[web.i].entityId = web.request.entityId
                        THEN Found
                        ELSE [web EXCEPT !.i = @ + 1]
        /\ UNCHANGED <<registry, call, radio, sending, lastStatus>>

\* Faulty variant of PointedTo: read through the DeviceInfo.
PointedToByInfo == LET info == registry.devices[web.slot].info
                  IN  IF info.entities = NullPointer THEN NoEntity
                      ELSE registry.devices[info.entities].entities[web.i]

\* What the pointer that the lookup returned points to by now.
PointedTo == registry.devices[web.slot].entities[web.i]

\* toRawValue, then sendValueSetRequest.
Converts ==
    LET e == web.request.entityId
    IN  /\ web.pc = "convert"
        /\ \/ /\ e = AllEntities
              /\ Answers(500) /\ lastStatus' = "failed"
              /\ UNCHANGED sending
           \/ /\ e # AllEntities
              /\ web' = [web EXCEPT !.pc = "send", !.slot = 0, !.i = 0, !.moved = FALSE]
              /\ sending' = [sending EXCEPT !["web"] =
                   Starting(Packet(web.request.deviceId, "valueSet_req", e, PointedTo))]
              /\ UNCHANGED lastStatus
        /\ UNCHANGED <<registry, call, radio>>

WebTransmits == SendMessage("web") /\ UNCHANGED <<registry, call, web, lastStatus>>

Succeeds ==
    /\ web.pc = "send" /\ Sent("web")
    /\ Answers(200) /\ lastStatus' = "sent"
    /\ UNCHANGED <<registry, call>>

\* The answer is handed to the library and the handler returns.
Returned ==
    /\ web.pc = "reply"
    /\ web' = NoRequest
    /\ UNCHANGED <<registry, call, radio, sending, lastStatus>>

Serve == \/ FindDevice \/ SearchEntity \/ Converts \/ WebTransmits \/ Succeeds \/ Returned

-----------------------------------------------------------------------------
RadioEnds == Transmitted /\ UNCHANGED <<registry, call, web, lastStatus>>

Next == Loop \/ Serve \/ RadioEnds \/ \E request \in Requests : Asks(request)

Spec == Init /\ [][Next]_vars

-----------------------------------------------------------------------------
(* Properties, beside those of RegistrySteps. *)

\* /value-set converts its value with the metadata announced for that entity of
\* that device, whatever the loop task registers or removes between the steps of
\* the lookup, as long as the slot found is not written over (WebServerHandler.cpp
\* :183-192 keeps a pointer into the table).
ConvertedAsAnnounced ==
    [][LET by == sending'["web"].packet.convertedBy
       IN  web.pc = "convert" /\ web'.pc = "send" /\ ~ web.moved =>
             /\ by \in Announcements
             /\ by.deviceId = web.request.deviceId
             /\ by.entityId = web.request.entityId]_vars

\* "Entity not found on device" is never said of an entity that was registered
\* when the lookup began, unless a removal overlaps the lookup, which then may
\* pass over the device that moves down (DeviceRegistry::findDeviceIndex).
RegisteredEntityFound ==
    LET request == web.request
    IN  /\ web.pc = "reply" /\ web.status = 400 /\ request.path = "value-set"
        /\ Complete(request)
        /\ ~ web.shifted
        => ~ web.known
=============================================================================
