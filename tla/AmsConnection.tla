--------------------------- MODULE AmsConnection ---------------------------
(***************************************************************************)
(* Requests and responses of one AmsConnection.                            *)
(*                                                                         *)
(* Threads call AdsRequest with a port of their own, or with one that they *)
(* share.  It takes an invoke id, reserves the slot (AmsResponse) of the   *)
(* port, writes a frame to the socket and waits.  The receiver thread      *)
(* reads frames, looks for the slot that waits for the id of the frame and *)
(* copies the data straight into the buffer of the waiting caller.  The    *)
(* slot is handed over by two atomics and a flag: request (who has         *)
(* reserved it), invokeId (nonzero until the receiver or                   *)
(* the timeout consumes it) and wasWritten (the receiver is done).         *)
(*                                                                         *)
(* The remote side answers frames in any order, late or never, and may     *)
(* close the connection.  A request whose write failed is not answered.    *)
(* Invoke ids do not wrap around: MaxId bounds them (2^32 - 1 in the       *)
(* code).  Notifications, which the connector does not use, are left out.  *)
(***************************************************************************)
EXTENDS Naturals, Sequences

CONSTANTS
  Callers,        \* threads that call AdsRequest
  Ports,          \* local AMS ports, the indices of queue
  NoCaller,       \* request is nullptr
  MaxId           \* bound on the invoke ids

ASSUME PortsAssumption ==
  /\ Ports # {}
  /\ NoCaller \notin Callers
  /\ MaxId \in Nat

VARIABLES
  pc,       \* pc[c]: where caller c is in AdsRequest
  id,       \* id[c]: the invoke id of c's request
  port,     \* port[c]: the port that c's request uses
  result,   \* result[c]: what c's last call returned, or is about to return
  buffer,   \* buffer[c]: "old", or what the receiver wrote into it
  slot,     \* slot[p]: [request, invokeId, wasWritten, errorCode]
  lastId,   \* the last invoke id given out
  wire,     \* requests that the remote side has not answered yet
  stream,   \* frames sent by the remote side, in order
  open,     \* the remote side has not closed the connection
  rpc,      \* where the receiver is
  frame,    \* the frame that the receiver reads, NoFrame between frames
  answered  \* ghost: answered[c]: the answer that c's call has got

callVars == <<pc, id, port, result>>
wireVars == <<wire, stream, open, answered>>
receiverVars == <<rpc, frame>>
vars == <<callVars, buffer, slot, lastId, wireVars, receiverVars>>

NoFrame == [id |-> 0, port |-> CHOOSE p \in Ports : TRUE, kind |-> "data"]

Init ==
  /\ pc = [c \in Callers |-> "idle"]
  /\ id = [c \in Callers |-> 0]
  /\ port = [c \in Callers |-> NoFrame.port]
  /\ result = [c \in Callers |-> "none"]
  /\ buffer = [c \in Callers |-> "old"]
  /\ slot = [p \in Ports |-> [request |-> NoCaller, invokeId |-> 0,
                              wasWritten |-> FALSE, errorCode |-> "none"]]
  /\ lastId = 0
  /\ wire = {}
  /\ stream = <<>>
  /\ open = TRUE
  /\ rpc = "header"
  /\ frame = NoFrame
  /\ answered = [c \in Callers |-> "none"]

-----------------------------------------------------------------------------
(* A caller. *)

Goto(c, label) == pc' = [pc EXCEPT ![c] = label]

(* Release: wasWritten and request are reset, invokeId is not.  The code   *)
(* leaves errorCode, too, which nobody reads until it is written again.    *)
Release(p) ==
  slot' = [slot EXCEPT ![p].wasWritten = FALSE, ![p].request = NoCaller,
                       ![p].errorCode = "none"]

(* AdsRequest and GetInvokeId: the id 0 is skipped. *)
TakeId(c, p) ==
  /\ pc[c] = "idle"
  /\ lastId < MaxId
  /\ lastId' = lastId + 1
  /\ id' = [id EXCEPT ![c] = lastId + 1]
  /\ port' = [port EXCEPT ![c] = p]
  /\ result' = [result EXCEPT ![c] = "none"]
  /\ buffer' = [buffer EXCEPT ![c] = "old"]
  /\ answered' = [answered EXCEPT ![c] = "none"]
  /\ Goto(c, "reserve")
  /\ UNCHANGED <<slot, wire, stream, open, receiverVars>>

Reserve(c) ==
  /\ pc[c] = "reserve"
  /\ slot[port[c]].request = NoCaller
  /\ slot' = [slot EXCEPT ![port[c]].request = c]
  /\ Goto(c, "arm")
  /\ UNCHANGED <<id, port, result, buffer, lastId, wireVars, receiverVars>>

(* Another thread has a request on this port: AdsRequest returns -1. *)
PortInUse(c) ==
  /\ pc[c] = "reserve"
  /\ slot[port[c]].request # NoCaller
  /\ result' = [result EXCEPT ![c] = "unsent"]
  /\ Goto(c, "idle")
  /\ UNCHANGED <<id, port, buffer, slot, lastId, wireVars, receiverVars>>

Arm(c) ==
  /\ pc[c] = "arm"
  /\ slot' = [slot EXCEPT ![port[c]].invokeId = id[c]]
  /\ Goto(c, "write")
  /\ UNCHANGED <<id, port, result, buffer, lastId, wireVars, receiverVars>>

Write(c) ==
  /\ pc[c] = "write"
  /\ wire' = wire \cup {[id |-> id[c], port |-> port[c]]}
  /\ Goto(c, "wait")
  /\ UNCHANGED <<id, port, result, buffer, slot, lastId, stream, open,
                 answered, receiverVars>>

(* Mistake: the slot stays reserved. *)
WriteFailsUnreleased(c) ==
  /\ pc[c] = "write"
  /\ result' = [result EXCEPT ![c] = "unsent"]
  /\ Goto(c, "idle")
  /\ UNCHANGED <<id, port, buffer, slot, lastId, wireVars, receiverVars>>

WriteFails(c) ==
  /\ pc[c] = "write"
  /\ Release(port[c])
  /\ result' = [result EXCEPT ![c] = "unsent"]
  /\ Goto(c, "idle")
  /\ UNCHANGED <<id, port, buffer, lastId, wireVars, receiverVars>>

(* Mistake: the id is read, not exchanged with 0. *)
TimesOutArmed(c) ==
  /\ pc[c] = "wait"
  /\ slot[port[c]].invokeId # 0
  /\ result' = [result EXCEPT ![c] = "timeout"]
  /\ Goto(c, "release")
  /\ UNCHANGED <<id, port, buffer, slot, lastId, wireVars, receiverVars>>

(* Wait: the deadline passes and nobody has consumed the id. *)
TimesOut(c) ==
  /\ pc[c] = "wait"
  /\ slot[port[c]].invokeId # 0
  /\ slot' = [slot EXCEPT ![port[c]].invokeId = 0]
  /\ result' = [result EXCEPT ![c] = "timeout"]
  /\ Goto(c, "release")
  /\ UNCHANGED <<id, port, buffer, lastId, wireVars, receiverVars>>

(* Wait: the receiver has consumed the id, and is awaited. *)
AwaitsReceiver(c) ==
  /\ pc[c] = "wait"
  /\ slot[port[c]].invokeId = 0
  /\ Goto(c, "collect")
  /\ UNCHANGED <<id, port, result, buffer, slot, lastId, wireVars,
                 receiverVars>>

Collect(c) ==
  /\ pc[c] = "collect"
  /\ slot[port[c]].wasWritten
  /\ result' = [result EXCEPT ![c] = slot[port[c]].errorCode]
  /\ Goto(c, "release")
  /\ UNCHANGED <<id, port, buffer, slot, lastId, wireVars, receiverVars>>

Return(c) ==
  /\ pc[c] = "release"
  /\ Release(port[c])
  /\ Goto(c, "idle")
  /\ UNCHANGED <<id, port, result, buffer, lastId, wireVars, receiverVars>>

-----------------------------------------------------------------------------
(* The remote side. *)

(* The frame carries data, or the result in its body is not 0 ("failure"), *)
(* or its AoE header has an error, or it is too long or of an unknown      *)
(* command: the latter are all "error".                                    *)
Kinds == {"data", "failure", "error"}

Answer(request, kind) ==
  /\ open
  /\ wire' = wire \ {request}
  /\ stream' = Append(stream, [id |-> request.id, port |-> request.port,
                               kind |-> kind])
  /\ answered' = [c \in Callers |->
                    IF id[c] = request.id /\ pc[c] # "idle" THEN kind
                    ELSE answered[c]]
  /\ UNCHANGED <<callVars, buffer, slot, lastId, open, receiverVars>>

Close ==
  /\ open
  /\ open' = FALSE
  /\ UNCHANGED <<callVars, buffer, slot, lastId, wire, stream, answered,
                 receiverVars>>

-----------------------------------------------------------------------------
(* The receiver. *)

Notify(p, error) ==
  slot' = [slot EXCEPT ![p].errorCode = error, ![p].wasWritten = TRUE]

Reader == slot[frame.port].request

(* Mistake: any pending request of the port takes the frame. *)
MatchPort ==
  /\ rpc = "header"
  /\ stream # <<>>
  /\ slot[Head(stream).port].invokeId # 0
  /\ slot' = [slot EXCEPT ![Head(stream).port].invokeId = 0]
  /\ frame' = Head(stream)
  /\ stream' = Tail(stream)
  /\ rpc' = "frame"
  /\ UNCHANGED <<callVars, buffer, lastId, wire, open, answered>>

(* Recv and GetPending: the compare-and-exchange hands the slot over. *)
MatchFrame ==
  /\ rpc = "header"
  /\ stream # <<>>
  /\ slot[Head(stream).port].invokeId = Head(stream).id
  /\ slot' = [slot EXCEPT ![Head(stream).port].invokeId = 0]
  /\ frame' = Head(stream)
  /\ stream' = Tail(stream)
  /\ rpc' = "frame"
  /\ UNCHANGED <<callVars, buffer, lastId, wire, open, answered>>

(* No response pending: ReceiveJunk. *)
SkipFrame ==
  /\ rpc = "header"
  /\ stream # <<>>
  /\ slot[Head(stream).port].invokeId # Head(stream).id
  /\ stream' = Tail(stream)
  /\ UNCHANGED <<callVars, buffer, slot, lastId, wire, open, answered,
                 receiverVars>>

NotifyError ==
  /\ rpc = "frame"
  /\ frame.kind = "error"
  /\ Notify(frame.port, "error")
  /\ rpc' = "header"
  /\ frame' = NoFrame
  /\ UNCHANGED <<callVars, buffer, lastId, wireVars>>

(* The body is read for its result, too. *)
CopyAnswer ==
  /\ rpc = "frame"
  /\ frame.kind # "error"
  /\ buffer' = [buffer EXCEPT ![Reader] = "answer"]
  /\ rpc' = "copied"
  /\ UNCHANGED <<callVars, slot, lastId, wireVars, frame>>

(* Mistake: the kind of the frame is passed on instead of the result. *)
NotifyKind ==
  /\ rpc = "copied"
  /\ Notify(frame.port, frame.kind)
  /\ rpc' = "header"
  /\ frame' = NoFrame
  /\ UNCHANGED <<callVars, buffer, lastId, wireVars>>

(* Mistake: the result of the body is dropped. *)
NotifyOk ==
  /\ rpc = "copied"
  /\ Notify(frame.port, "ok")
  /\ rpc' = "header"
  /\ frame' = NoFrame
  /\ UNCHANGED <<callVars, buffer, lastId, wireVars>>

(* header.result() *)
NotifyAnswer ==
  /\ rpc = "copied"
  /\ Notify(frame.port, IF frame.kind = "data" THEN "ok" ELSE "failure")
  /\ rpc' = "header"
  /\ frame' = NoFrame
  /\ UNCHANGED <<callVars, buffer, lastId, wireVars>>

(* Mistake: the waiting caller is not notified. *)
StallsSilently ==
  /\ rpc = "frame"
  /\ frame.kind # "error"
  /\ rpc' = "lost"
  /\ buffer' = [buffer EXCEPT ![Reader] = "partial"]
  /\ frame' = NoFrame
  /\ UNCHANGED <<callVars, slot, lastId, wireVars>>

(* TimeoutEx: the deadline of the request passes while the rest of the     *)
(* frame is awaited.  ReceiveJunk then reads as many bytes as there were   *)
(* before the body was read, so the receiver is "lost" in the stream       *)
(* unless nothing of it was read.                                          *)
AnswerStalls ==
  /\ rpc = "frame"
  /\ frame.kind # "error"
  /\ \/ /\ rpc' = "header"
        /\ UNCHANGED buffer
     \/ /\ rpc' = "lost"
        /\ buffer' = [buffer EXCEPT ![Reader] = "partial"]
  /\ Notify(frame.port, "timeout")
  /\ frame' = NoFrame
  /\ UNCHANGED <<callVars, lastId, wireVars>>

(* Bytes in the middle of frames are taken for headers and match nothing.  *)
MisreadFrame ==
  /\ rpc = "lost"
  /\ stream # <<>>
  /\ stream' = Tail(stream)
  /\ UNCHANGED <<callVars, buffer, slot, lastId, wire, open, answered,
                 receiverVars>>

(* std::runtime_error, thrown by the read of a closed connection, ends the *)
(* receiver, in the middle of a frame too ("cut"): nobody is notified.     *)
ReceiverEnds ==
  /\ ~open
  /\ \/ /\ rpc \in {"header", "lost"}
        /\ rpc' = "dead"
        /\ UNCHANGED buffer
     \/ /\ rpc = "frame" /\ frame.kind # "error"
        /\ rpc' = "cut"
        /\ buffer' = [buffer EXCEPT ![Reader] = "partial"]
  /\ frame' = NoFrame
  /\ UNCHANGED <<callVars, slot, lastId, wireVars>>

-----------------------------------------------------------------------------

CallerStep(c) ==
  \/ (\E p \in Ports : TakeId(c, p)) \/ Reserve(c) \/ PortInUse(c) \/ Arm(c)
  \/ Write(c) \/ WriteFails(c)
  \/ TimesOut(c) \/ AwaitsReceiver(c) \/ Collect(c) \/ Return(c)

Remote ==
  \/ \E request \in wire, kind \in Kinds : Answer(request, kind)
  \/ Close

(* The steps on a frame that has found its slot. *)
ReadsFrame == NotifyError \/ CopyAnswer \/ NotifyAnswer \/ AnswerStalls

Receiver ==
  \/ MatchFrame \/ SkipFrame \/ ReadsFrame \/ MisreadFrame \/ ReceiverEnds

Next == (\E c \in Callers : CallerStep(c)) \/ Remote \/ Receiver

Spec == Init /\ [][Next]_vars

(* A thread in a call goes on, and deadlines pass.  The receiver goes on   *)
(* with a frame that has found its slot: its read has a deadline, too.     *)
(* Nothing is assumed of the remote side.                                  *)
Fairness ==
  /\ \A c \in Callers : WF_vars(pc[c] # "idle" /\ CallerStep(c))
  /\ WF_vars(ReadsFrame)

FairSpec == Spec /\ Fairness

-----------------------------------------------------------------------------

Labels == {"idle", "reserve", "arm", "write", "wait", "collect", "release"}
Results == {"none", "ok", "failure", "error", "timeout", "unsent"}
Contents == {"old", "answer", "partial"}
Frame == [id : Nat, port : Ports, kind : Kinds]
Slot == [request : Callers \cup {NoCaller}, invokeId : Nat,
         wasWritten : BOOLEAN, errorCode : Results]

(* Every variable holds a value of its type. *)
TypeOK ==
  /\ pc \in [Callers -> Labels]
  /\ id \in [Callers -> Nat]
  /\ port \in [Callers -> Ports]
  /\ result \in [Callers -> Results]
  /\ buffer \in [Callers -> Contents]
  /\ slot \in [Ports -> Slot]
  /\ lastId \in Nat
  /\ wire \subseteq [id : Nat, port : Ports]
  /\ stream \in Seq(Frame)
  /\ open \in BOOLEAN
  /\ rpc \in {"header", "frame", "copied", "lost", "dead", "cut"}
  /\ frame \in Frame
  /\ answered \in [Callers -> Kinds \cup {"none"}]

(* A request that the slot of its port points to. *)
InSlot == {"arm", "write", "wait", "collect", "release"}

(***************************************************************************)
(* A slot belongs to one call at a time: the thread between Reserve and    *)
(* Release, of those that share the port, is the one it points to.         *)
(***************************************************************************)
SlotHasOneOwner ==
  \A p \in Ports, c \in Callers :
    slot[p].request = c <=> port[c] = p /\ pc[c] \in InSlot

(***************************************************************************)
(* The receiver reads a request, and writes into the caller's buffer, only *)
(* while that very call waits for that very frame: never after a timeout,  *)
(* a failed write or a return, when the request (on the caller's stack)    *)
(* is gone, and never for an answer to an earlier request.                 *)
(***************************************************************************)
ReceiverUsesLiveRequest ==
  rpc \in {"frame", "copied"} =>
    \E c \in Callers :
      /\ Reader = c
      /\ id[c] = frame.id
      /\ pc[c] \in {"wait", "collect"}

(***************************************************************************)
(* AdsRequest implements AdsCall: the outcome of a call is that of its own *)
(* answer, the result in the answer's body included, "ok" comes with the   *)
(* whole data, and no buffer is written to after its call has returned.    *)
(***************************************************************************)
Abstract ==
  INSTANCE AdsCall WITH
    busy <- {c \in Callers : pc[c] # "idle"},
    answer <- answered,
    outcome <- [c \in Callers |->
                  IF pc[c] = "idle" THEN result[c] ELSE "none"],
    content <- buffer

ImplementsAdsCall == Abstract!Spec

(***************************************************************************)
(* Every call returns, whatever the remote side does, unless the           *)
(* connection is closed in the middle of a frame: a thread waits for its   *)
(* deadline or for the receiver, never for the remote side or for another  *)
(* thread.                                                                 *)
(***************************************************************************)
CallsReturnUnlessCut ==
  \A c \in Callers : pc[c] # "idle" ~> (pc[c] = "idle" \/ rpc = "cut")

(***************************************************************************)
(* AmsConnection.h, line 58, says of Wait: "wait for response or timeout   *)
(* and return received errorCode or ADSERR_CLIENT_SYNCTIMEOUT".  So every  *)
(* call returns.  It holds unless the connection is closed in the middle   *)
(* of the frame that the call waits for: its id is consumed, wasWritten is *)
(* never set, and the second wait of Wait has no deadline.                 *)
(***************************************************************************)
EveryCallReturns == \A c \in Callers : pc[c] # "idle" ~> pc[c] = "idle"

=============================================================================
