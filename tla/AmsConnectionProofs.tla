------------------------ MODULE AmsConnectionProofs ------------------------
(* Slots and frames for any number of threads and ports, and that          *)
(* AdsRequest implements AdsCall.                                          *)
EXTENDS AmsConnection, TLAPS

-----------------------------------------------------------------------------
(* Types. *)

(* There is a port for the frame that nobody has sent. *)
LEMMA NoFrameType == NoFrame \in Frame
BY PortsAssumption DEF NoFrame, Frame, Kinds

(* The starting values are of their types. *)
LEMMA InitTypeOK == Init => TypeOK
<1> SUFFICES ASSUME Init PROVE TypeOK
  OBVIOUS
<1>1. NoFrame \in Frame /\ NoFrame.port \in Ports
  BY NoFrameType DEF Frame
<1>2. stream \in Seq(Frame)
  BY DEF Init
<1>3. slot \in [Ports -> Slot]
  BY DEF Init, Slot, Results
<1> QED BY <1>1, <1>2, <1>3 DEF Init, TypeOK, Labels, Results, Contents

(* The slots stay slots when one of their members changes. *)
LEMMA SlotType ==
  ASSUME TypeOK, NEW p \in Ports
  PROVE  /\ \A c \in Callers : [slot EXCEPT ![p].request = c]
                                 \in [Ports -> Slot]
         /\ \A i \in Nat : [slot EXCEPT ![p].invokeId = i] \in [Ports -> Slot]
         /\ \A e \in Results :
              [slot EXCEPT ![p].errorCode = e, ![p].wasWritten = TRUE]
                \in [Ports -> Slot]
         /\ [slot EXCEPT ![p].wasWritten = FALSE, ![p].request = NoCaller,
                         ![p].errorCode = "none"]
              \in [Ports -> Slot]
<1>0. slot \in [Ports -> Slot]
  BY DEF TypeOK
<1>1. "none" \in Results
  BY DEF Results
<1>2. ASSUME NEW s \in Slot
      PROVE  /\ \A c \in Callers : [s EXCEPT !.request = c] \in Slot
             /\ \A i \in Nat : [s EXCEPT !.invokeId = i] \in Slot
             /\ \A e \in Results :
                  [s EXCEPT !.errorCode = e, !.wasWritten = TRUE] \in Slot
             /\ [s EXCEPT !.wasWritten = FALSE, !.request = NoCaller,
                          !.errorCode = "none"] \in Slot
  BY <1>1, <1>2 DEF Slot
<1> QED BY <1>0, <1>2

(* A step of a caller keeps the types. *)
LEMMA CallerTypeStep ==
  ASSUME TypeOK, NEW c \in Callers, CallerStep(c)
  PROVE  TypeOK'
<1> USE DEF Goto, wireVars, receiverVars, Labels, Results
<1>p. port[c] \in Ports /\ id[c] \in Nat /\ slot[port[c]] \in Slot
  BY DEF TypeOK
<1>1. ASSUME NEW p \in Ports, TakeId(c, p) PROVE TypeOK'
  BY <1>1 DEF TakeId, TypeOK, Contents
<1>2. CASE Reserve(c)
  BY <1>2, <1>p, SlotType DEF Reserve, TypeOK
<1>3. CASE PortInUse(c)
  BY <1>3 DEF PortInUse, TypeOK
<1>4. CASE Arm(c)
  BY <1>4, <1>p, SlotType DEF Arm, TypeOK
<1>5. CASE Write(c)
  BY <1>5, <1>p DEF Write, TypeOK
<1>6. CASE WriteFails(c)
  BY <1>6, <1>p, SlotType DEF WriteFails, Release, TypeOK
<1>7. CASE TimesOut(c)
  BY <1>7, <1>p, SlotType DEF TimesOut, TypeOK
<1>8. CASE AwaitsReceiver(c)
  BY <1>8 DEF AwaitsReceiver, TypeOK
<1>9. CASE Collect(c)
  BY <1>9, <1>p DEF Collect, TypeOK, Slot
<1>10. CASE Return(c)
  BY <1>10, <1>p, SlotType DEF Return, Release, TypeOK
<1> QED BY <1>1, <1>2, <1>3, <1>4, <1>5, <1>6, <1>7, <1>8, <1>9, <1>10
        DEF CallerStep

(* A step of the remote side keeps the types. *)
LEMMA RemoteTypeStep == TypeOK /\ Remote => TypeOK'
<1> SUFFICES ASSUME TypeOK, Remote PROVE TypeOK'
  OBVIOUS
<1>1. ASSUME NEW request \in wire, NEW kind \in Kinds,
             Answer(request, kind)
      PROVE  TypeOK'
  <2> DEFINE f == [id |-> request.id, port |-> request.port, kind |-> kind]
  <2>1. f \in Frame
    BY DEF TypeOK, Frame
  <2>2. stream' \in Seq(Frame)
    BY <1>1, <2>1 DEF Answer, TypeOK
  <2>3. answered' \in [Callers -> Kinds \cup {"none"}]
    BY <1>1 DEF Answer, TypeOK
  <2> QED BY <1>1, <2>2, <2>3 DEF Answer, TypeOK, callVars, receiverVars
<1>2. CASE Close
  BY <1>2 DEF Close, TypeOK, callVars, receiverVars
<1> QED BY <1>1, <1>2 DEF Remote

(* What is left of the stream when its head is taken. *)
LEMMA StreamType ==
  ASSUME TypeOK, stream # <<>>
  PROVE  Head(stream) \in Frame /\ Tail(stream) \in Seq(Frame)
BY DEF TypeOK

(* The reader's buffer is in the types whether or not there is a reader. *)
LEMMA BufferType ==
  ASSUME TypeOK, NEW c, NEW what \in Contents
  PROVE  [buffer EXCEPT ![c] = what] \in [Callers -> Contents]
BY DEF TypeOK

(* A step of the receiver keeps the types. *)
LEMMA ReceiverTypeStep == TypeOK /\ Receiver => TypeOK'
<1> SUFFICES ASSUME TypeOK, Receiver PROVE TypeOK'
  OBVIOUS
<1> USE DEF callVars, wireVars, Notify, Results
<1>f. frame.port \in Ports
  BY DEF TypeOK, Frame
<1>1. CASE MatchFrame
  <2>1. Head(stream) \in Frame /\ Tail(stream) \in Seq(Frame)
    BY <1>1, StreamType DEF MatchFrame
  <2>2. slot' \in [Ports -> Slot]
    BY <1>1, <2>1, SlotType DEF MatchFrame, Frame
  <2> QED BY <1>1, <2>1, <2>2 DEF MatchFrame, TypeOK
<1>2. CASE SkipFrame \/ MisreadFrame
  BY <1>2, StreamType DEF SkipFrame, MisreadFrame, TypeOK, receiverVars
<1>3. CASE NotifyError
  BY <1>3, <1>f, SlotType, NoFrameType DEF NotifyError, TypeOK
<1>4. CASE CopyAnswer
  BY <1>4, BufferType DEF CopyAnswer, TypeOK, Contents
<1>5. CASE NotifyAnswer
  <2>1. (IF frame.kind = "data" THEN "ok" ELSE "failure") \in Results
    OBVIOUS
  <2>2. slot' \in [Ports -> Slot]
    BY <1>5, <1>f, <2>1, SlotType DEF NotifyAnswer
  <2> QED BY <1>5, <2>2, NoFrameType DEF NotifyAnswer, TypeOK
<1>6. CASE AnswerStalls
  <2>1. buffer' \in [Callers -> Contents]
    BY <1>6, BufferType DEF AnswerStalls, TypeOK, Contents
  <2>2. slot' \in [Ports -> Slot]
    BY <1>6, <1>f, SlotType DEF AnswerStalls
  <2> QED BY <1>6, <2>1, <2>2, NoFrameType DEF AnswerStalls, TypeOK
<1>7. CASE ReceiverEnds
  <2>1. buffer' \in [Callers -> Contents]
    BY <1>7, BufferType DEF ReceiverEnds, TypeOK, Contents
  <2> QED BY <1>7, <2>1, NoFrameType DEF ReceiverEnds, TypeOK
<1> QED BY <1>1, <1>2, <1>3, <1>4, <1>5, <1>6, <1>7 DEF Receiver, ReadsFrame

(* Every variable holds a value of its type, for all threads and ports. *)
THEOREM TypeCorrect == Spec => []TypeOK
<1>1. TypeOK /\ [Next]_vars => TypeOK'
  <2> SUFFICES ASSUME TypeOK, UNCHANGED vars PROVE TypeOK'
    BY CallerTypeStep, RemoteTypeStep, ReceiverTypeStep DEF Next
  <2> QED BY DEF TypeOK, vars, callVars, wireVars, receiverVars
<1> QED BY <1>1, InitTypeOK, PTL DEF Spec

-----------------------------------------------------------------------------
(***************************************************************************)
(* The inductive invariant.  An id is given out once, and a caller has its *)
(* own from the start of the call.                                         *)
(***************************************************************************)
IdsAreFresh ==
  /\ \A c \in Callers : id[c] <= lastId /\ (pc[c] # "idle" => id[c] # 0)
  /\ \A c, d \in Callers : id[c] = id[d] /\ id[c] # 0 => c = d

(* What was written comes from a call that has written it, to its port. *)
Unsent == {"reserve", "arm", "write"}

Written(f) ==
  /\ f.id \in 1..lastId
  /\ \A c \in Callers : id[c] = f.id => pc[c] \notin Unsent /\ port[c] = f.port

Frames == {stream[i] : i \in DOMAIN stream}

(* A request on its way is not answered yet, and a frame is the answer. *)
OneAnswer ==
  /\ \A c \in Callers : pc[c] \in Unsent => answered[c] = "none"
  /\ \A r \in wire : Written(r) /\ \A c \in Callers :
       id[c] = r.id /\ pc[c] # "idle" => answered[c] = "none"
  /\ \A f \in Frames : Written(f) /\ \A c \in Callers :
       id[c] = f.id /\ pc[c] # "idle" => answered[c] = f.kind

(***************************************************************************)
(* The id in a slot is that of the request to be answered, or, as a failed *)
(* write leaves it there, of one that nobody answers.                      *)
(***************************************************************************)
Armed ==
  \A p \in Ports :
    /\ slot[p].invokeId <= lastId
    /\ slot[p].invokeId # 0 =>
         \A c \in Callers : id[c] = slot[p].invokeId =>
           port[c] = p /\ pc[c] \in {"write", "wait", "idle"}
    /\ \A f \in wire \cup Frames : f.id = slot[p].invokeId =>
         \E c \in Callers : id[c] = f.id /\ pc[c] = "wait"

(* What a call may return after the answer and the content it has got. *)
Fits(code, answer, content) ==
  /\ code \in {"ok", "failure", "error", "timeout"}
  /\ code = "ok" => answer = "data" /\ content = "answer"
  /\ code = "failure" => answer = "failure" /\ content = "answer"
  /\ code = "error" => answer = "error"

Collected ==
  /\ \A p \in Ports : slot[p].wasWritten =>
       /\ slot[p].invokeId = 0
       /\ \E c \in Callers :
            /\ slot[p].request = c
            /\ pc[c] \in {"wait", "collect", "release"}
            /\ Fits(slot[p].errorCode, answered[c], buffer[c])
  /\ \A c \in Callers :
       pc[c] = "release" => Fits(result[c], answered[c], buffer[c])

(* While the receiver reads a frame it has the slot to itself. *)
ReadsForCaller ==
  rpc \in {"frame", "copied"} =>
    /\ slot[frame.port].invokeId = 0 /\ ~slot[frame.port].wasWritten
    /\ \E c \in Callers :
         /\ slot[frame.port].request = c
         /\ id[c] = frame.id
         /\ pc[c] \in {"wait", "collect"}
         /\ answered[c] = frame.kind
         /\ rpc = "copied" => frame.kind # "error" /\ buffer[c] = "answer"

Inv ==
  /\ SlotHasOneOwner /\ IdsAreFresh /\ OneAnswer /\ Armed /\ Collected
  /\ ReadsForCaller

-----------------------------------------------------------------------------
(* What the steps do to the stream. *)

(* A frame that is taken was on the way, and so was what is left. *)
LEMMA TakeHead ==
  ASSUME TypeOK, stream # <<>>, stream' = Tail(stream)
  PROVE  Head(stream) \in Frames /\ Frames' \subseteq Frames
<1>1. /\ Len(stream) \in Nat \ {0} /\ DOMAIN stream = 1..Len(stream)
      /\ Head(stream) = stream[1]
      /\ DOMAIN stream' = 1..Len(stream) - 1
      /\ \A i \in 1..Len(stream) - 1 : stream'[i] = stream[i + 1]
  BY DEF TypeOK
<1> QED BY <1>1 DEF Frames

(* A frame that is sent is on the way, too. *)
LEMMA AddFrame ==
  ASSUME TypeOK, NEW f \in Frame, stream' = Append(stream, f)
  PROVE  Frames' = Frames \cup {f}
<1>1. /\ Len(stream) \in Nat /\ DOMAIN stream = 1..Len(stream)
      /\ DOMAIN stream' = 1..Len(stream) + 1
      /\ stream'[Len(stream) + 1] = f
      /\ \A i \in 1..Len(stream) : stream'[i] = stream[i]
  BY DEF TypeOK
<1> QED BY <1>1 DEF Frames

(* The frames on the way are frames. *)
LEMMA FramesType == ASSUME TypeOK PROVE Frames \subseteq Frame
BY DEF TypeOK, Frames

(* The receiver leaves calls and requests alone, and only takes frames. *)
LEMMA ReceiverTakes ==
  ASSUME TypeOK, Receiver
  PROVE  /\ UNCHANGED <<pc, id, port, result, lastId, answered, wire>>
         /\ Frames' \subseteq Frames
<1>1. UNCHANGED <<pc, id, port, result, lastId, answered, wire>>
  BY DEF Receiver, ReadsFrame, MatchFrame, SkipFrame, MisreadFrame,
     ReceiverEnds, NotifyError, CopyAnswer, NotifyAnswer, AnswerStalls,
     callVars, wireVars
<1>2. CASE MatchFrame \/ SkipFrame \/ MisreadFrame
  BY <1>1, <1>2, TakeHead DEF MatchFrame, SkipFrame, MisreadFrame
<1>3. CASE ReceiverEnds \/ ReadsFrame
  BY <1>1, <1>3 DEF ReceiverEnds, ReadsFrame, NotifyError, CopyAnswer,
     NotifyAnswer, AnswerStalls, wireVars, Frames
<1> QED BY <1>2, <1>3 DEF Receiver

-----------------------------------------------------------------------------
(* What the steps do to the slots. *)

(* The receiver is done with a slot. *)
LEMMA NotifyEffect ==
  ASSUME TypeOK, NEW p \in Ports, NEW e, Notify(p, e)
  PROVE  /\ slot'[p].request = slot[p].request
         /\ slot'[p].invokeId = slot[p].invokeId
         /\ slot'[p].wasWritten
         /\ slot'[p].errorCode = e
         /\ \A q \in Ports \ {p} : slot'[q] = slot[q]
BY DEF Notify, TypeOK, Slot

(* A slot is free again. *)
LEMMA ReleaseEffect ==
  ASSUME TypeOK, NEW p \in Ports, Release(p)
  PROVE  /\ slot'[p].request = NoCaller
         /\ slot'[p].invokeId = slot[p].invokeId
         /\ ~slot'[p].wasWritten
         /\ \A q \in Ports \ {p} : slot'[q] = slot[q]
BY DEF Release, TypeOK, Slot

(* An id is stored in a slot. *)
LEMMA ArmEffect ==
  ASSUME TypeOK, NEW p \in Ports, NEW i,
         slot' = [slot EXCEPT ![p].invokeId = i]
  PROVE  /\ slot'[p].request = slot[p].request
         /\ slot'[p].invokeId = i
         /\ slot'[p].wasWritten = slot[p].wasWritten
         /\ slot'[p].errorCode = slot[p].errorCode
         /\ \A q \in Ports \ {p} : slot'[q] = slot[q]
BY DEF TypeOK, Slot

(* A slot is reserved. *)
LEMMA ReserveEffect ==
  ASSUME TypeOK, NEW p \in Ports, NEW c,
         slot' = [slot EXCEPT ![p].request = c]
  PROVE  /\ slot'[p].request = c
         /\ slot'[p].invokeId = slot[p].invokeId
         /\ slot'[p].wasWritten = slot[p].wasWritten
         /\ slot'[p].errorCode = slot[p].errorCode
         /\ \A q \in Ports \ {p} : slot'[q] = slot[q]
BY DEF TypeOK, Slot

(* The ports of the callers and of the frame at hand. *)
LEMMA PortsType ==
  ASSUME TypeOK
  PROVE  /\ \A c \in Callers : port[c] \in Ports
         /\ frame.port \in Ports
         /\ stream # <<>> => Head(stream).port \in Ports
BY StreamType DEF TypeOK, Frame

-----------------------------------------------------------------------------
(* SlotHasOneOwner. *)

(* A step of a caller hands a slot over only as Reserve and Release do. *)
LEMMA OwnerCallerStep ==
  ASSUME TypeOK, SlotHasOneOwner, NEW c \in Callers, CallerStep(c)
  PROVE  SlotHasOneOwner'
<1> USE PortsType, PortsAssumption DEF SlotHasOneOwner, Goto, InSlot
<1>0. pc \in [Callers -> Labels] /\ port \in [Callers -> Ports]
  BY DEF TypeOK
<1>1. ASSUME NEW p \in Ports, TakeId(c, p) PROVE SlotHasOneOwner'
  BY <1>0, <1>1 DEF TakeId
<1>2. CASE Reserve(c)
  <2>1. /\ slot[port[c]].request = NoCaller /\ slot'[port[c]].request = c
        /\ \A p \in Ports \ {port[c]} : slot'[p] = slot[p]
    BY <1>2, ReserveEffect DEF Reserve
  <2>2. /\ pc[c] = "reserve" /\ pc' = [pc EXCEPT ![c] = "arm"]
        /\ port' = port
    BY <1>2 DEF Reserve
  <2> QED BY <1>0, <2>1, <2>2
<1>3. CASE PortInUse(c)
  BY <1>0, <1>3 DEF PortInUse
<1>4. CASE Arm(c)
  BY <1>0, <1>4, ArmEffect DEF Arm
<1>5. CASE Write(c) \/ AwaitsReceiver(c) \/ Collect(c)
  BY <1>0, <1>5 DEF Write, AwaitsReceiver, Collect
<1>6. CASE WriteFails(c)
  BY <1>0, <1>6, ReleaseEffect DEF WriteFails
<1>7. CASE TimesOut(c)
  BY <1>0, <1>7, ArmEffect DEF TimesOut
<1>8. CASE Return(c)
  BY <1>0, <1>8, ReleaseEffect DEF Return
<1> QED BY <1>1, <1>2, <1>3, <1>4, <1>5, <1>6, <1>7, <1>8 DEF CallerStep

(* The others leave the owners alone. *)
LEMMA OwnerOtherStep ==
  ASSUME TypeOK, SlotHasOneOwner, Remote \/ Receiver
  PROVE  SlotHasOneOwner'
<1>1. \A p \in Ports : slot'[p].request = slot[p].request
  <2>1. CASE Remote
    BY <2>1 DEF Remote, Answer, Close
  <2>2. CASE MatchFrame
    BY <2>2, PortsType, ArmEffect DEF MatchFrame
  <2>3. CASE SkipFrame \/ CopyAnswer \/ MisreadFrame \/ ReceiverEnds
    BY <2>3 DEF SkipFrame, CopyAnswer, MisreadFrame, ReceiverEnds
  <2>4. CASE NotifyError \/ NotifyAnswer \/ AnswerStalls
    BY <2>4, PortsType, NotifyEffect
       DEF NotifyError, NotifyAnswer, AnswerStalls
  <2> QED BY <2>1, <2>2, <2>3, <2>4 DEF Receiver, ReadsFrame
<1>2. UNCHANGED callVars
  BY DEF Remote, Answer, Close, Receiver, ReadsFrame, MatchFrame, SkipFrame,
     MisreadFrame, ReceiverEnds, NotifyError, CopyAnswer, NotifyAnswer,
     AnswerStalls
<1> QED BY <1>1, <1>2 DEF SlotHasOneOwner, callVars

-----------------------------------------------------------------------------
(* IdsAreFresh. *)

(* Only TakeId, which counts on, gives an id or starts a call. *)
LEMMA IdsStep ==
  ASSUME TypeOK, IdsAreFresh, Next
  PROVE  IdsAreFresh'
<1> USE DEF IdsAreFresh
<1>0. /\ pc \in [Callers -> Labels] /\ id \in [Callers -> Nat]
      /\ lastId \in Nat
  BY DEF TypeOK
<1>1. ASSUME NEW c \in Callers, NEW p \in Ports, TakeId(c, p)
      PROVE  IdsAreFresh'
  BY <1>0, <1>1 DEF TakeId, Goto
<1>2. ASSUME NEW c \in Callers, CallerStep(c), \A p \in Ports : ~TakeId(c, p)
      PROVE  IdsAreFresh'
  <2>1. /\ UNCHANGED <<id, lastId>>
        /\ \A d \in Callers : pc'[d] # "idle" => pc[d] # "idle"
    BY <1>0, <1>2
       DEF CallerStep, Reserve, PortInUse, Arm, Write, WriteFails, TimesOut,
           AwaitsReceiver, Collect, Return, Goto
  <2> QED BY <2>1
<1>3. CASE Remote \/ Receiver
  <2>1. UNCHANGED <<id, lastId, pc>>
    BY <1>3
       DEF Remote, Answer, Close, Receiver, ReadsFrame, MatchFrame, SkipFrame,
           MisreadFrame, ReceiverEnds, NotifyError, CopyAnswer, NotifyAnswer,
           AnswerStalls, callVars
  <2> QED BY <2>1
<1> QED BY <1>1, <1>2, <1>3 DEF Next

-----------------------------------------------------------------------------
(* OneAnswer. *)

(* What leaves OneAnswer alone: no call goes back, nothing new on the way. *)
LEMMA OneAnswerStays ==
  ASSUME OneAnswer, UNCHANGED <<id, port, lastId, answered, wire>>,
         Frames' \subseteq Frames,
         \A c \in Callers : /\ pc'[c] \in Unsent => pc[c] \in Unsent
                            /\ pc'[c] # "idle" => pc[c] # "idle"
  PROVE  OneAnswer'
BY DEF OneAnswer, Written

(* A step of a caller keeps OneAnswer. *)
LEMMA OneAnswerCallerStep ==
  ASSUME TypeOK, IdsAreFresh, OneAnswer, NEW c \in Callers, CallerStep(c)
  PROVE  OneAnswer'
<1>0. /\ pc \in [Callers -> Labels] /\ id \in [Callers -> Nat]
      /\ port \in [Callers -> Ports] /\ lastId \in Nat
      /\ wire \subseteq [id : Nat, port : Ports] /\ Frames \subseteq Frame
      /\ answered \in [Callers -> Kinds \cup {"none"}]
  BY FramesType DEF TypeOK
<1>1. ASSUME NEW p \in Ports, TakeId(c, p) PROVE OneAnswer'
  <2>1. /\ id' = [id EXCEPT ![c] = lastId + 1]
        /\ port' = [port EXCEPT ![c] = p]
        /\ pc' = [pc EXCEPT ![c] = "reserve"]
        /\ answered' = [answered EXCEPT ![c] = "none"]
        /\ lastId' = lastId + 1 /\ wire' = wire /\ Frames' = Frames
    BY <1>1 DEF TakeId, Goto, Frames
  <2>2. ASSUME NEW f, Written(f)
        PROVE  Written(f)' /\ f.id # lastId + 1
    BY <1>0, <2>1, <2>2 DEF Written
  <2> QED BY <1>0, <2>1, <2>2 DEF OneAnswer
<1>2. CASE Write(c)
  <2> DEFINE r == [id |-> id[c], port |-> port[c]]
  <2>1. /\ UNCHANGED <<id, port, lastId, answered>> /\ Frames' = Frames
        /\ pc' = [pc EXCEPT ![c] = "wait"] /\ pc[c] = "write"
        /\ wire' = wire \cup {r}
    BY <1>2 DEF Write, Goto, Frames
  <2>2. \A f : Written(f) => Written(f)'
    BY <1>0, <2>1 DEF Written, Unsent
  <2>3. Written(r)'
    BY <1>0, <2>1 DEF Written, Unsent, IdsAreFresh
  <2>4. \A d \in Callers : id[d] = r.id => d = c /\ answered[d] = "none"
    BY <1>0, <2>1 DEF OneAnswer, Unsent, IdsAreFresh
  <2> QED BY <1>0, <2>1, <2>2, <2>3, <2>4 DEF OneAnswer, Unsent
<1>3. ASSUME ~Write(c), \A p \in Ports : ~TakeId(c, p) PROVE OneAnswer'
  <2>1. UNCHANGED <<id, port, lastId, answered, wire, stream>>
    BY <1>3
       DEF CallerStep, Reserve, PortInUse, Arm, WriteFails, TimesOut,
           AwaitsReceiver, Collect, Return, wireVars
  <2>2. \A d \in Callers : /\ pc'[d] \in Unsent => pc[d] \in Unsent
                           /\ pc'[d] # "idle" => pc[d] # "idle"
    BY <1>0, <1>3
       DEF CallerStep, Reserve, PortInUse, Arm, WriteFails, TimesOut,
           AwaitsReceiver, Collect, Return, Goto, Unsent
  <2> QED BY <2>1, <2>2, OneAnswerStays DEF Frames
<1> QED BY <1>1, <1>2, <1>3 DEF CallerStep

(* The remote side answers a request once. *)
LEMMA OneAnswerRemoteStep ==
  ASSUME TypeOK, IdsAreFresh, OneAnswer, Remote
  PROVE  OneAnswer'
<1>0. /\ wire \subseteq [id : Nat, port : Ports]
      /\ answered \in [Callers -> Kinds \cup {"none"}]
  BY DEF TypeOK
<1>1. ASSUME NEW r \in wire, NEW kind \in Kinds, Answer(r, kind)
      PROVE  OneAnswer'
  <2> DEFINE f == [id |-> r.id, port |-> r.port, kind |-> kind]
  <2>1. f \in Frame
    BY <1>0 DEF Frame
  <2>2. /\ UNCHANGED <<pc, id, port, lastId>> /\ wire' = wire \ {r}
        /\ stream' = Append(stream, f)
        /\ \A c \in Callers :
             answered'[c] = IF id[c] = r.id /\ pc[c] # "idle" THEN kind
                            ELSE answered[c]
    BY <1>1 DEF Answer, callVars
  <2>3. Frames' = Frames \cup {f}
    BY <2>1, <2>2, AddFrame
  <2>4. \A g : Written(g) => Written(g)'
    BY <2>2 DEF Written
  <2>5. Written(f) /\ Written(r)
    BY DEF OneAnswer, Written
  <2>6. \A c \in Callers : pc[c] \in Unsent => answered'[c] = "none"
    BY <2>2, <2>5 DEF OneAnswer, Written
  <2>7. ASSUME NEW s \in wire', NEW c \in Callers, id[c] = s.id, pc[c] # "idle"
        PROVE  answered'[c] = "none"
    <3>1. s.id # r.id
      <4>1. SUFFICES ASSUME s.id = r.id PROVE FALSE
        OBVIOUS
      <4>2. s.port = r.port
        BY <2>2, <2>5, <2>7, <4>1 DEF OneAnswer, Written
      <4> QED BY <1>0, <2>2, <4>1, <4>2
    <3> QED BY <2>2, <2>7, <3>1 DEF OneAnswer
  <2>8. ASSUME NEW g \in Frames', NEW c \in Callers, id[c] = g.id,
               pc[c] # "idle"
        PROVE  answered'[c] = g.kind
    <3>1. CASE g = f
      BY <2>2, <2>8, <3>1
    <3>2. CASE g \in Frames
      <4>1. answered[c] = g.kind /\ g.kind # "none"
        BY <2>8, <3>2, FramesType DEF OneAnswer, Frame, Kinds
      <4>2. id[c] # r.id
        BY <2>8, <4>1 DEF OneAnswer
      <4> QED BY <2>2, <4>1, <4>2
    <3> QED BY <2>3, <2>8, <3>1, <3>2
  <2> HIDE DEF f
  <2> QED BY <2>2, <2>3, <2>4, <2>5, <2>6, <2>7, <2>8 DEF OneAnswer
<1>2. CASE Close
  BY <1>2, OneAnswerStays DEF Close, callVars, Frames
<1> QED BY <1>1, <1>2 DEF Remote

(* The receiver only takes frames. *)
LEMMA OneAnswerReceiverStep ==
  ASSUME TypeOK, OneAnswer, Receiver
  PROVE  OneAnswer'
BY ReceiverTakes, OneAnswerStays

-----------------------------------------------------------------------------
(* Armed. *)

(* What leaves Armed alone: ids in slots are reset at most, nothing new is *)
(* on the way, and a call whose id is in its slot stays, or has failed.    *)
LEMMA ArmedStays ==
  ASSUME TypeOK, OneAnswer, Armed, UNCHANGED <<id, port, lastId>>,
         \A p \in Ports : slot'[p].invokeId \in {slot[p].invokeId, 0},
         \A f \in wire' \cup Frames' :
           f.id # 0 /\ \E g \in wire \cup Frames : g.id = f.id,
         \A c \in Callers :
           \/ pc'[c] = pc[c]
           \/ slot'[port[c]].invokeId = 0
           \/ pc[c] \in {"reserve", "collect", "release"}
           \/ pc[c] = "write" /\ pc'[c] = "idle"
  PROVE  Armed'
<1> SUFFICES ASSUME NEW p \in Ports, slot'[p].invokeId # 0
             PROVE  /\ slot'[p].invokeId <= lastId
                    /\ \A c \in Callers : id[c] = slot'[p].invokeId =>
                         port[c] = p /\ pc'[c] \in {"write", "wait", "idle"}
                    /\ \A f \in wire' \cup Frames' :
                         f.id = slot'[p].invokeId =>
                           \E c \in Callers : id[c] = f.id /\ pc'[c] = "wait"
  BY DEF Armed, TypeOK
<1>1. slot'[p].invokeId = slot[p].invokeId /\ slot[p].invokeId <= lastId
  BY DEF Armed
<1>2. ASSUME NEW c \in Callers, id[c] = slot'[p].invokeId
      PROVE  /\ port[c] = p /\ pc[c] \in {"write", "wait", "idle"}
             /\ \/ pc'[c] = pc[c]
                \/ pc[c] = "write" /\ pc'[c] = "idle"
  <2>1. port[c] = p /\ pc[c] \in {"write", "wait", "idle"}
    BY <1>1, <1>2 DEF Armed
  <2> QED BY <2>1
<1>3. ASSUME NEW f \in wire' \cup Frames', f.id = slot'[p].invokeId
      PROVE  \E c \in Callers : id[c] = f.id /\ pc'[c] = "wait"
  <2>1. PICK g \in wire \cup Frames : g.id = f.id
    OBVIOUS
  <2>2. PICK c \in Callers : id[c] = g.id /\ pc[c] = "wait"
    BY <1>1, <1>3, <2>1 DEF Armed
  <2> QED BY <1>2, <1>3, <2>1, <2>2
<1> QED BY <1>1, <1>2, <1>3

(* What is on the way has an id. *)
LEMMA OnTheWay ==
  ASSUME OneAnswer
  PROVE  \A f \in wire \cup Frames : f.id # 0
BY DEF OneAnswer, Written

(* A step of a caller keeps Armed. *)
LEMMA ArmedCallerStep ==
  ASSUME TypeOK, IdsAreFresh, OneAnswer, Armed, NEW c \in Callers,
         CallerStep(c)
  PROVE  Armed'
<1>0. /\ pc \in [Callers -> Labels] /\ id \in [Callers -> Nat]
      /\ port \in [Callers -> Ports] /\ lastId \in Nat
      /\ \A p \in Ports : slot[p].invokeId \in Nat
  BY DEF TypeOK, Slot
<1>1. ASSUME NEW p \in Ports, TakeId(c, p) PROVE Armed'
  <2>1. /\ id' = [id EXCEPT ![c] = lastId + 1]
        /\ port' = [port EXCEPT ![c] = p]
        /\ pc[c] = "idle" /\ pc' = [pc EXCEPT ![c] = "reserve"]
        /\ lastId' = lastId + 1 /\ UNCHANGED <<slot, wire, Frames>>
    BY <1>1 DEF TakeId, Goto, Frames
  <2>2. \A d \in Callers \ {c} :
          id'[d] = id[d] /\ port'[d] = port[d] /\ pc'[d] = pc[d]
    BY <1>0, <2>1
  <2>3. \A q \in Ports : slot[q].invokeId <= lastId
    BY DEF Armed
  <2> QED BY <1>0, <2>1, <2>2, <2>3 DEF Armed
<1>2. CASE Arm(c)
  <2>1. /\ UNCHANGED <<id, port, lastId, wire, Frames>>
        /\ pc[c] = "arm" /\ pc' = [pc EXCEPT ![c] = "write"]
        /\ slot'[port[c]].invokeId = id[c]
        /\ \A q \in Ports \ {port[c]} : slot'[q] = slot[q]
    BY <1>2, PortsType, ArmEffect DEF Arm, Goto, Frames, wireVars
  <2>2. \A f \in wire \cup Frames : f.id # id[c]
    BY <2>1 DEF OneAnswer, Written, Unsent
  <2>3. id[c] <= lastId /\ \A d \in Callers : id[d] = id[c] => d = c
    BY <2>1 DEF IdsAreFresh
  <2> QED BY <1>0, <2>1, <2>2, <2>3 DEF Armed
<1>3. CASE Write(c)
  <2> DEFINE r == [id |-> id[c], port |-> port[c]]
  <2>1. /\ UNCHANGED <<id, port, lastId, slot, Frames>>
        /\ pc[c] = "write" /\ pc' = [pc EXCEPT ![c] = "wait"]
        /\ wire' = wire \cup {r} /\ r.id = id[c]
    BY <1>3 DEF Write, Goto, Frames
  <2> HIDE DEF r
  <2> QED BY <1>0, <2>1 DEF Armed
<1>4. ASSUME ~Arm(c), ~Write(c), \A p \in Ports : ~TakeId(c, p)
      PROVE  Armed'
  <2>1. UNCHANGED <<id, port, lastId, wire, Frames>>
    BY <1>4
       DEF CallerStep, Reserve, PortInUse, WriteFails, TimesOut,
           AwaitsReceiver, Collect, Return, wireVars, Frames
  <2>2. \A p \in Ports : slot'[p].invokeId \in {slot[p].invokeId, 0}
    <3>1. CASE Reserve(c)
      BY <3>1, PortsType, ReserveEffect DEF Reserve
    <3>2. CASE WriteFails(c) \/ Return(c)
      BY <3>2, PortsType, ReleaseEffect DEF WriteFails, Return
    <3>3. CASE TimesOut(c)
      BY <3>3, PortsType, ArmEffect DEF TimesOut
    <3>4. CASE PortInUse(c) \/ AwaitsReceiver(c) \/ Collect(c)
      BY <3>4 DEF PortInUse, AwaitsReceiver, Collect
    <3> QED BY <1>4, <3>1, <3>2, <3>3, <3>4 DEF CallerStep
  <2>3. \A d \in Callers \ {c} : pc'[d] = pc[d]
    <3>1. \E label : Goto(c, label)
      BY <1>4 DEF CallerStep, Reserve, PortInUse, WriteFails, TimesOut,
         AwaitsReceiver, Collect, Return
    <3> QED BY <1>0, <3>1 DEF Goto
  <2>4. \/ slot'[port[c]].invokeId = 0
        \/ pc[c] \in {"reserve", "collect", "release"}
        \/ pc[c] = "write" /\ pc'[c] = "idle"
    <3>1. CASE TimesOut(c)
      <4>1. port[c] \in Ports
        BY PortsType
      <4>2. slot' = [slot EXCEPT ![port[c]].invokeId = 0]
        BY <3>1 DEF TimesOut
      <4> QED BY <4>1, <4>2, ArmEffect
    <3>2. CASE WriteFails(c)
      BY <1>0, <3>2 DEF WriteFails, Goto
    <3>3. CASE ~TimesOut(c) /\ ~WriteFails(c)
      BY <1>4, <3>3 DEF CallerStep, Reserve, PortInUse, AwaitsReceiver,
         Collect, Return
    <3> QED BY <3>1, <3>2, <3>3
  <2>5. \A d \in Callers :
          \/ pc'[d] = pc[d]
          \/ slot'[port[d]].invokeId = 0
          \/ pc[d] \in {"reserve", "collect", "release"}
          \/ pc[d] = "write" /\ pc'[d] = "idle"
    BY <2>3, <2>4
  <2> QED BY <2>1, <2>2, <2>5, OnTheWay, ArmedStays
<1> QED BY <1>1, <1>2, <1>3, <1>4 DEF CallerStep

(* A request becomes a frame with its id. *)
LEMMA ArmedRemoteStep ==
  ASSUME TypeOK, OneAnswer, Armed, Remote
  PROVE  Armed'
<1>1. UNCHANGED <<pc, id, port, lastId, slot>>
  BY DEF Remote, Answer, Close, callVars
<1>2. \A f \in wire' \cup Frames' : \E g \in wire \cup Frames : g.id = f.id
  <2>1. ASSUME NEW r \in wire, NEW kind \in Kinds, Answer(r, kind)
        PROVE  \A f \in wire' \cup Frames' :
                 \E g \in wire \cup Frames : g.id = f.id
    <3> DEFINE h == [id |-> r.id, port |-> r.port, kind |-> kind]
    <3>1. h \in Frame /\ h.id = r.id
      BY DEF Frame, TypeOK
    <3>2. wire' = wire \ {r} /\ stream' = Append(stream, h)
      BY <2>1 DEF Answer
    <3> HIDE DEF h
    <3>3. Frames' = Frames \cup {h}
      BY <3>1, <3>2, AddFrame
    <3> QED BY <3>1, <3>2, <3>3
  <2>2. CASE Close
    BY <2>2 DEF Close, Frames
  <2> QED BY <2>1, <2>2 DEF Remote
<1> QED BY <1>1, <1>2, OnTheWay, ArmedStays

(* The receiver takes frames and resets ids. *)
LEMMA ArmedReceiverStep ==
  ASSUME TypeOK, OneAnswer, Armed, Receiver
  PROVE  Armed'
<1>1. \A p \in Ports : slot'[p].invokeId \in {slot[p].invokeId, 0}
  <2>1. CASE MatchFrame
    BY <2>1, PortsType, ArmEffect DEF MatchFrame
  <2>2. CASE SkipFrame \/ CopyAnswer \/ MisreadFrame \/ ReceiverEnds
    BY <2>2 DEF SkipFrame, CopyAnswer, MisreadFrame, ReceiverEnds
  <2>3. CASE NotifyError \/ NotifyAnswer \/ AnswerStalls
    BY <2>3, PortsType, NotifyEffect
       DEF NotifyError, NotifyAnswer, AnswerStalls
  <2> QED BY <2>1, <2>2, <2>3 DEF Receiver, ReadsFrame
<1> QED BY <1>1, ReceiverTakes, OnTheWay, ArmedStays

-----------------------------------------------------------------------------
(* Collected. *)

(* What leaves Collected alone: slots are reset, not written; a call that  *)
(* has its answer keeps it until it returns.                               *)
LEMMA CollectedStays ==
  ASSUME Collected,
         \A p \in Ports : slot'[p].wasWritten =>
           /\ slot[p].wasWritten
           /\ slot'[p].invokeId \in {slot[p].invokeId, 0}
           /\ slot'[p].request = slot[p].request
           /\ slot'[p].errorCode = slot[p].errorCode,
         \A c \in Callers :
           \/ pc[c] \notin {"wait", "collect", "release"}
           \/ \A p \in Ports : slot'[p].wasWritten => slot[p].request # c
           \/ /\ pc'[c] \in {"wait", "collect", "release"}
              /\ \A code : Fits(code, answered[c], buffer[c])
                             => Fits(code, answered'[c], buffer'[c]),
         \A c \in Callers :
           pc'[c] = "release" => Fits(result'[c], answered'[c], buffer'[c])
  PROVE  Collected'
<1>1. ASSUME NEW p \in Ports, slot'[p].wasWritten
      PROVE  /\ slot'[p].invokeId = 0
             /\ \E c \in Callers :
                  /\ slot'[p].request = c
                  /\ pc'[c] \in {"wait", "collect", "release"}
                  /\ Fits(slot'[p].errorCode, answered'[c], buffer'[c])
  <2>1. /\ slot[p].wasWritten
        /\ slot'[p].invokeId \in {slot[p].invokeId, 0}
        /\ slot'[p].request = slot[p].request
        /\ slot'[p].errorCode = slot[p].errorCode
    BY <1>1
  <2>2. slot[p].invokeId = 0
    BY <2>1 DEF Collected
  <2>3. PICK c \in Callers :
          /\ slot[p].request = c
          /\ pc[c] \in {"wait", "collect", "release"}
          /\ Fits(slot[p].errorCode, answered[c], buffer[c])
    BY <2>1 DEF Collected
  <2>4. /\ pc'[c] \in {"wait", "collect", "release"}
        /\ \A code : Fits(code, answered[c], buffer[c])
                       => Fits(code, answered'[c], buffer'[c])
    BY <1>1, <2>3
  <2> QED BY <2>1, <2>2, <2>3, <2>4
<1> QED BY <1>1 DEF Collected

(* A step of a caller keeps Collected. *)
LEMMA CollectedCallerStep ==
  ASSUME TypeOK, SlotHasOneOwner, Collected, NEW c \in Callers,
         CallerStep(c)
  PROVE  Collected'
<1>0. /\ pc \in [Callers -> Labels] /\ result \in [Callers -> Results]
      /\ buffer \in [Callers -> Contents]
      /\ answered \in [Callers -> Kinds \cup {"none"}]
      /\ port[c] \in Ports
  BY DEF TypeOK
<1>a. \A d \in Callers \ {c} :
        /\ pc'[d] = pc[d] /\ result'[d] = result[d]
        /\ answered'[d] = answered[d] /\ buffer'[d] = buffer[d]
  <2>1. /\ \E l : pc' = [pc EXCEPT ![c] = l]
        /\ result' = result \/ \E r : result' = [result EXCEPT ![c] = r]
    BY DEF CallerStep, TakeId, Reserve, PortInUse, Arm, Write, WriteFails,
       TimesOut, AwaitsReceiver, Collect, Return, Goto
  <2>2. /\ answered' = answered \/ answered' = [answered EXCEPT ![c] = "none"]
        /\ buffer' = buffer \/ buffer' = [buffer EXCEPT ![c] = "old"]
    BY DEF CallerStep, TakeId, Reserve, PortInUse, Arm, Write, WriteFails,
       TimesOut, AwaitsReceiver, Collect, Return, wireVars
  <2> QED BY <1>0, <2>1, <2>2
<1>b. \A d \in Callers \ {c} :
        pc'[d] = "release" => Fits(result'[d], answered'[d], buffer'[d])
  BY <1>a DEF Collected
<1>1. ASSUME NEW p \in Ports, TakeId(c, p) PROVE Collected'
  <2>1. pc[c] = "idle" /\ pc'[c] = "reserve" /\ slot' = slot
    BY <1>0, <1>1 DEF TakeId, Goto
  <2> QED BY <1>a, <1>b, <2>1, CollectedStays
<1>2. CASE Reserve(c)
  <2>1. /\ pc[c] = "reserve" /\ pc'[c] = "arm"
        /\ slot[port[c]].request = NoCaller
    BY <1>0, <1>2 DEF Reserve, Goto
  <2>2. ~slot[port[c]].wasWritten
    BY <1>0, <2>1, PortsAssumption DEF Collected
  <2>3. /\ slot'[port[c]].wasWritten = slot[port[c]].wasWritten
        /\ \A q \in Ports \ {port[c]} : slot'[q] = slot[q]
    BY <1>0, <1>2, ReserveEffect DEF Reserve
  <2> QED BY <1>a, <1>b, <2>1, <2>2, <2>3, CollectedStays
<1>3. CASE PortInUse(c)
  <2>1. pc[c] = "reserve" /\ pc'[c] = "idle" /\ slot' = slot
    BY <1>0, <1>3 DEF PortInUse, Goto
  <2> QED BY <1>a, <1>b, <2>1, CollectedStays
<1>4. CASE Arm(c)
  <2>1. pc[c] = "arm" /\ pc'[c] = "write"
    BY <1>0, <1>4 DEF Arm, Goto
  <2>2. slot[port[c]].request = c
    BY <1>0, <2>1 DEF SlotHasOneOwner, InSlot
  <2>3. ~slot[port[c]].wasWritten
    BY <1>0, <2>1, <2>2 DEF Collected
  <2>4. /\ slot'[port[c]].wasWritten = slot[port[c]].wasWritten
        /\ \A q \in Ports \ {port[c]} : slot'[q] = slot[q]
    BY <1>0, <1>4, ArmEffect DEF Arm
  <2> QED BY <1>a, <1>b, <2>1, <2>3, <2>4, CollectedStays
<1>5. CASE Write(c)
  <2>1. pc[c] = "write" /\ pc'[c] = "wait" /\ slot' = slot
    BY <1>0, <1>5 DEF Write, Goto
  <2> QED BY <1>a, <1>b, <2>1, CollectedStays
<1>6. CASE WriteFails(c)
  <2>1. pc[c] = "write" /\ pc'[c] = "idle"
    BY <1>0, <1>6 DEF WriteFails, Goto
  <2>2. /\ ~slot'[port[c]].wasWritten
        /\ \A q \in Ports \ {port[c]} : slot'[q] = slot[q]
    BY <1>0, <1>6, ReleaseEffect DEF WriteFails
  <2> QED BY <1>0, <1>a, <1>b, <2>1, <2>2, CollectedStays
<1>7. CASE TimesOut(c)
  <2>1. /\ pc'[c] = "release" /\ result'[c] = "timeout"
        /\ UNCHANGED <<answered, buffer>>
    BY <1>0, <1>7 DEF TimesOut, Goto, wireVars
  <2>2. Fits(result'[c], answered'[c], buffer'[c])
    BY <2>1 DEF Fits
  <2>3. slot' = [slot EXCEPT ![port[c]].invokeId = 0]
    BY <1>7 DEF TimesOut
  <2>4. \A q \in Ports : /\ slot'[q].wasWritten = slot[q].wasWritten
                         /\ slot'[q].invokeId \in {slot[q].invokeId, 0}
                         /\ slot'[q].request = slot[q].request
                         /\ slot'[q].errorCode = slot[q].errorCode
    BY <1>0, <2>3, ArmEffect
  <2> QED BY <1>a, <1>b, <2>1, <2>2, <2>4, CollectedStays
<1>8. CASE AwaitsReceiver(c)
  <2>1. pc'[c] = "collect" /\ UNCHANGED <<slot, answered, buffer>>
    BY <1>0, <1>8 DEF AwaitsReceiver, Goto, wireVars
  <2> QED BY <1>a, <1>b, <2>1, CollectedStays
<1>9. CASE Collect(c)
  <2>1. /\ pc[c] = "collect" /\ pc'[c] = "release"
        /\ UNCHANGED <<slot, answered, buffer>>
        /\ slot[port[c]].wasWritten
        /\ result'[c] = slot[port[c]].errorCode
    BY <1>0, <1>9 DEF Collect, Goto, wireVars
  <2>2. slot[port[c]].request = c
    BY <1>0, <2>1 DEF SlotHasOneOwner, InSlot
  <2>3. Fits(result'[c], answered'[c], buffer'[c])
    BY <1>0, <2>1, <2>2 DEF Collected
  <2> QED BY <1>a, <1>b, <2>1, <2>3, CollectedStays
<1>10. CASE Return(c)
  <2>1. pc[c] = "release" /\ pc'[c] = "idle"
    BY <1>0, <1>10 DEF Return, Goto
  <2>2. /\ ~slot'[port[c]].wasWritten
        /\ \A q \in Ports \ {port[c]} : slot'[q] = slot[q]
    BY <1>0, <1>10, ReleaseEffect DEF Return
  <2>3. \A q \in Ports : slot[q].request = c => q = port[c]
    BY DEF SlotHasOneOwner
  <2> QED BY <1>0, <1>a, <1>b, <2>1, <2>2, <2>3, CollectedStays
<1> QED BY <1>1, <1>2, <1>3, <1>4, <1>5, <1>6, <1>7, <1>8, <1>9, <1>10
        DEF CallerStep

(* An answer reaches only calls that have not got one. *)
LEMMA CollectedRemoteStep ==
  ASSUME TypeOK, OneAnswer, Collected, Remote
  PROVE  Collected'
<1>1. UNCHANGED <<pc, result, buffer, slot>>
  BY DEF Remote, Answer, Close, callVars
<1>2. ASSUME NEW c \in Callers, NEW code, pc[c] # "idle",
             Fits(code, answered[c], buffer[c])
      PROVE  Fits(code, answered'[c], buffer'[c])
  <2>1. CASE answered'[c] = answered[c]
    BY <1>1, <1>2, <2>1
  <2>2. CASE answered'[c] # answered[c]
    <3>1. answered[c] = "none"
      BY <1>2, <2>2 DEF Remote, Answer, Close, OneAnswer
    <3>2. code = "timeout"
      BY <1>2, <3>1 DEF Fits
    <3> QED BY <3>2 DEF Fits
  <2> QED BY <2>1, <2>2
<1>3. \A c \in Callers :
        pc'[c] = "release" => Fits(result'[c], answered'[c], buffer'[c])
  BY <1>1, <1>2 DEF Collected
<1> QED BY <1>1, <1>2, <1>3, CollectedStays

(* The receiver writes for the call that it reads for. *)
LEMMA CollectedReceiverStep ==
  ASSUME TypeOK, SlotHasOneOwner, Collected, ReadsForCaller, Receiver
  PROVE  Collected'
<1>0. /\ UNCHANGED <<pc, result, answered>>
      /\ buffer \in [Callers -> Contents]
      /\ frame.port \in Ports
  BY ReceiverTakes, PortsType DEF TypeOK
<1>1. CASE MatchFrame
  <2>1. /\ slot' = [slot EXCEPT ![Head(stream).port].invokeId = 0]
        /\ Head(stream).port \in Ports /\ buffer' = buffer
    BY <1>1, PortsType DEF MatchFrame
  <2>2. \A q \in Ports : /\ slot'[q].wasWritten = slot[q].wasWritten
                         /\ slot'[q].invokeId \in {slot[q].invokeId, 0}
                         /\ slot'[q].request = slot[q].request
                         /\ slot'[q].errorCode = slot[q].errorCode
    BY <2>1, ArmEffect
  <2> QED BY <1>0, <2>1, <2>2, CollectedStays DEF Collected
<1>2. CASE SkipFrame \/ MisreadFrame
  BY <1>0, <1>2 DEF SkipFrame, MisreadFrame, Collected
<1>3. ASSUME rpc \in {"frame", "copied"}
      PROVE  \E c \in Callers :
               /\ slot[frame.port].request = c
               /\ pc[c] \in {"wait", "collect"}
               /\ answered[c] = frame.kind
               /\ rpc = "copied" =>
                    frame.kind # "error" /\ buffer[c] = "answer"
               /\ \A q \in Ports : slot[q].request = c => q = frame.port
               /\ slot[frame.port].invokeId = 0
               /\ ~slot[frame.port].wasWritten
  BY <1>0, <1>3 DEF ReadsForCaller, SlotHasOneOwner
<1>4. ASSUME rpc = "frame", slot' = slot, NEW what,
             buffer' = [buffer EXCEPT ![Reader] = what]
      PROVE  Collected'
  <2>1. PICK c \in Callers :
          /\ slot[frame.port].request = c
          /\ pc[c] \in {"wait", "collect"}
          /\ \A q \in Ports : slot[q].request = c => q = frame.port
          /\ ~slot[frame.port].wasWritten
    BY <1>3, <1>4
  <2>2. \A d \in Callers \ {c} : buffer'[d] = buffer[d]
    BY <1>0, <1>4, <2>1 DEF Reader
  <2>3. \A d \in Callers :
          pc'[d] = "release" => Fits(result'[d], answered'[d], buffer'[d])
    BY <1>0, <2>1, <2>2 DEF Collected
  <2>4. \A p \in Ports : slot'[p].wasWritten => slot[p].request # c
    BY <1>4, <2>1
  <2> QED BY <1>0, <1>4, <2>2, <2>3, <2>4, CollectedStays
<1>5. CASE CopyAnswer
  BY <1>4, <1>5 DEF CopyAnswer
<1>6. CASE ReceiverEnds
  <2>1. CASE buffer' = buffer
    BY <1>0, <1>6, <2>1 DEF ReceiverEnds, Collected
  <2>2. CASE buffer' # buffer
    BY <1>4, <1>6, <2>2 DEF ReceiverEnds
  <2> QED BY <2>1, <2>2
<1>7. ASSUME rpc \in {"frame", "copied"}, NEW code, Notify(frame.port, code),
             \A c \in Callers : slot[frame.port].request = c =>
               /\ Fits(code, answered[c], buffer'[c])
               /\ \A d \in Callers \ {c} : buffer'[d] = buffer[d]
      PROVE  Collected'
  <2>1. PICK c \in Callers :
          /\ slot[frame.port].request = c
          /\ pc[c] \in {"wait", "collect"}
          /\ \A q \in Ports : slot[q].request = c => q = frame.port
          /\ slot[frame.port].invokeId = 0
    BY <1>3, <1>7
  <2>2. /\ slot'[frame.port].request = c
        /\ slot'[frame.port].invokeId = 0
        /\ slot'[frame.port].errorCode = code
        /\ \A q \in Ports \ {frame.port} : slot'[q] = slot[q]
    BY <1>0, <1>7, <2>1, NotifyEffect
  <2>3. /\ Fits(code, answered'[c], buffer'[c])
        /\ \A d \in Callers \ {c} : buffer'[d] = buffer[d]
    BY <1>0, <1>7, <2>1
  <2>4. \A d \in Callers :
          pc'[d] = "release" => Fits(result'[d], answered'[d], buffer'[d])
    BY <1>0, <2>1, <2>3 DEF Collected
  <2>5. ASSUME NEW p \in Ports, p # frame.port, slot'[p].wasWritten
        PROVE  /\ slot'[p].invokeId = 0
               /\ \E d \in Callers :
                    /\ slot'[p].request = d
                    /\ pc'[d] \in {"wait", "collect", "release"}
                    /\ Fits(slot'[p].errorCode, answered'[d], buffer'[d])
    <3>1. slot'[p] = slot[p]
      BY <2>2, <2>5
    <3>2. /\ slot[p].invokeId = 0
          /\ \E d \in Callers :
               /\ slot[p].request = d
               /\ pc[d] \in {"wait", "collect", "release"}
               /\ Fits(slot[p].errorCode, answered[d], buffer[d])
      BY <2>5, <3>1 DEF Collected
    <3> QED BY <1>0, <2>1, <2>3, <2>5, <3>1, <3>2
  <2>6. /\ slot'[frame.port].invokeId = 0
        /\ \E d \in Callers :
             /\ slot'[frame.port].request = d
             /\ pc'[d] \in {"wait", "collect", "release"}
             /\ Fits(slot'[frame.port].errorCode, answered'[d], buffer'[d])
    BY <1>0, <2>1, <2>2, <2>3
  <2> QED BY <2>4, <2>5, <2>6 DEF Collected
<1>8. CASE NotifyError
  <2>1. /\ rpc = "frame" /\ frame.kind = "error" /\ buffer' = buffer
        /\ Notify(frame.port, "error")
    BY <1>8 DEF NotifyError
  <2>2. \A c \in Callers : slot[frame.port].request = c =>
          Fits("error", answered[c], buffer'[c])
    BY <1>3, <2>1 DEF Fits
  <2> QED BY <1>7, <2>1, <2>2
<1>9. CASE NotifyAnswer
  <2> DEFINE code == IF frame.kind = "data" THEN "ok" ELSE "failure"
  <2>1. rpc = "copied" /\ buffer' = buffer /\ Notify(frame.port, code)
    BY <1>9 DEF NotifyAnswer
  <2>2. \A c \in Callers : slot[frame.port].request = c =>
          Fits(code, answered[c], buffer'[c])
    <3>1. frame.kind \in {"data", "failure", "error"}
      BY DEF TypeOK, Frame, Kinds
    <3> QED BY <1>3, <2>1, <3>1 DEF Fits
  <2> QED BY <1>7, <2>1, <2>2
<1>10. CASE AnswerStalls
  <2>1. /\ rpc = "frame" /\ Notify(frame.port, "timeout")
        /\ buffer' = buffer \/ buffer' = [buffer EXCEPT ![Reader] = "partial"]
    BY <1>10 DEF AnswerStalls
  <2>2. \A c \in Callers : slot[frame.port].request = c =>
          /\ Fits("timeout", answered[c], buffer'[c])
          /\ \A d \in Callers \ {c} : buffer'[d] = buffer[d]
    BY <1>0, <2>1 DEF Fits, Reader
  <2> QED BY <1>7, <2>1, <2>2
<1> QED BY <1>1, <1>2, <1>5, <1>6, <1>8, <1>9, <1>10 DEF Receiver, ReadsFrame

-----------------------------------------------------------------------------
(* ReadsForCaller. *)

(* What leaves ReadsForCaller alone: nobody else touches the slot and the  *)
(* call that the receiver reads for.                                       *)
LEMMA ReadingStays ==
  ASSUME ReadsForCaller, UNCHANGED <<rpc, frame>>,
         rpc \in {"frame", "copied"} =>
           /\ slot'[frame.port].invokeId \in {slot[frame.port].invokeId, 0}
           /\ slot'[frame.port].wasWritten = slot[frame.port].wasWritten
           /\ slot'[frame.port].request = slot[frame.port].request
           /\ \A c \in Callers :
                /\ slot[frame.port].request = c
                /\ pc[c] \in {"wait", "collect"}
                /\ id[c] = frame.id
                => /\ pc'[c] \in {"wait", "collect"}
                   /\ id'[c] = id[c] /\ buffer'[c] = buffer[c]
                   /\ answered[c] = frame.kind
                        => answered'[c] = answered[c]
  PROVE  ReadsForCaller'
BY DEF ReadsForCaller

(* A caller that the receiver does not read for has another slot, and the  *)
(* one that it reads for waits.                                            *)
LEMMA ReadsForCallerCallerStep ==
  ASSUME TypeOK, SlotHasOneOwner, ReadsForCaller, NEW c \in Callers,
         CallerStep(c)
  PROVE  ReadsForCaller'
<1>0. /\ pc \in [Callers -> Labels] /\ id \in [Callers -> Nat]
      /\ buffer \in [Callers -> Contents]
      /\ answered \in [Callers -> Kinds \cup {"none"}]
      /\ port[c] \in Ports /\ frame.port \in Ports
  BY PortsType DEF TypeOK
<1>a. UNCHANGED <<rpc, frame>>
  BY DEF CallerStep, TakeId, Reserve, PortInUse, Arm, Write, WriteFails,
     TimesOut, AwaitsReceiver, Collect, Return, receiverVars
<1>b. /\ \A d \in Callers \ {c} :
           /\ pc'[d] = pc[d] /\ id'[d] = id[d] /\ buffer'[d] = buffer[d]
           /\ answered'[d] = answered[d]
      /\ pc[c] # "idle" => /\ id'[c] = id[c] /\ buffer'[c] = buffer[c]
                           /\ answered'[c] = answered[c]
  <2>0. \E l : pc' = [pc EXCEPT ![c] = l]
    BY DEF CallerStep, TakeId, Reserve, PortInUse, Arm, Write, WriteFails,
       TimesOut, AwaitsReceiver, Collect, Return, Goto
  <2>1. \/ id' = id
        \/ pc[c] = "idle" /\ id' = [id EXCEPT ![c] = lastId + 1]
    BY DEF CallerStep, TakeId, Reserve, PortInUse, Arm, Write, WriteFails,
       TimesOut, AwaitsReceiver, Collect, Return
  <2>2. \/ answered' = answered /\ buffer' = buffer
        \/ /\ pc[c] = "idle"
           /\ answered' = [answered EXCEPT ![c] = "none"]
           /\ buffer' = [buffer EXCEPT ![c] = "old"]
    BY DEF CallerStep, TakeId, Reserve, PortInUse, Arm, Write, WriteFails,
       TimesOut, AwaitsReceiver, Collect, Return, wireVars
  <2> QED BY <1>0, <2>0, <2>1, <2>2
<1> SUFFICES ASSUME rpc \in {"frame", "copied"} PROVE ReadsForCaller'
  BY <1>a DEF ReadsForCaller
<1>c. /\ slot[frame.port].invokeId = 0 /\ ~slot[frame.port].wasWritten
      /\ slot[frame.port].request \in Callers
      /\ slot[frame.port].request = c =>
           port[c] = frame.port /\ pc[c] \in {"wait", "collect"}
      /\ pc[c] \in InSlot /\ port[c] = frame.port =>
           slot[frame.port].request = c
  BY <1>0 DEF ReadsForCaller, SlotHasOneOwner
<1>1. CASE pc[c] = "wait" \/ pc[c] = "collect"
  <2>1. CASE TimesOut(c)
    <3>1. slot' = [slot EXCEPT ![port[c]].invokeId = 0] /\ pc[c] = "wait"
          /\ slot[port[c]].invokeId # 0
      BY <2>1 DEF TimesOut
    <3>2. port[c] # frame.port
      BY <1>c, <3>1
    <3>3. slot'[frame.port] = slot[frame.port]
      BY <1>0, <3>1, <3>2, ArmEffect
    <3> QED BY <1>a, <1>b, <1>c, <3>2, <3>3, ReadingStays
  <2>2. CASE AwaitsReceiver(c)
    <3>1. slot' = slot /\ pc'[c] = "collect"
      BY <1>0, <2>2 DEF AwaitsReceiver, Goto
    <3> QED BY <1>1, <1>a, <1>b, <3>1, ReadingStays
  <2>3. CASE Collect(c)
    <3>1. slot' = slot /\ slot[frame.port].request # c
      BY <1>c, <2>3 DEF Collect
    <3> QED BY <1>a, <1>b, <3>1, ReadingStays
  <2> QED BY <1>1, <2>1, <2>2, <2>3
          DEF CallerStep, TakeId, Reserve, PortInUse, Arm, Write, WriteFails,
              Return
<1>2. CASE pc[c] \in {"arm", "write", "release"}
  <2>1. port[c] # frame.port
    BY <1>2, <1>c DEF InSlot
  <2>2. slot'[frame.port] = slot[frame.port]
    <3>1. CASE Arm(c)
      BY <1>0, <2>1, <3>1, ArmEffect DEF Arm
    <3>2. CASE Write(c)
      BY <3>2 DEF Write
    <3>3. CASE WriteFails(c) \/ Return(c)
      BY <1>0, <2>1, <3>3, ReleaseEffect DEF WriteFails, Return
    <3> QED BY <1>2, <3>1, <3>2, <3>3
            DEF CallerStep, TakeId, Reserve, PortInUse, TimesOut,
                AwaitsReceiver, Collect
  <2> QED BY <1>a, <1>b, <1>c, <2>1, <2>2, ReadingStays
<1>3. CASE pc[c] \in {"idle", "reserve"}
  <2>1. slot[frame.port].request # c
    BY <1>3, <1>c
  <2>2. slot'[frame.port] = slot[frame.port]
    <3>1. CASE Reserve(c)
      <4>1. port[c] # frame.port
        BY <1>c, <3>1, PortsAssumption DEF Reserve
      <4> QED BY <1>0, <3>1, <4>1, ReserveEffect DEF Reserve
    <3>2. CASE ~Reserve(c)
      BY <1>3, <3>2
         DEF CallerStep, TakeId, PortInUse, Arm, Write, WriteFails, TimesOut,
             AwaitsReceiver, Collect, Return
    <3> QED BY <3>1, <3>2
  <2> QED BY <1>a, <1>b, <2>1, <2>2, ReadingStays
<1> QED BY <1>0, <1>1, <1>2, <1>3 DEF Labels

(* The call that the receiver reads for has got its answer. *)
LEMMA ReadsForCallerRemoteStep ==
  ASSUME OneAnswer, ReadsForCaller, TypeOK, Remote
  PROVE  ReadsForCaller'
<1>1. UNCHANGED <<pc, id, buffer, slot, rpc, frame>>
  BY DEF Remote, Answer, Close, callVars, receiverVars
<1>2. ASSUME NEW c \in Callers, pc[c] # "idle", answered[c] = frame.kind
      PROVE  answered'[c] = answered[c]
  <2>1. answered[c] # "none"
    BY <1>2 DEF TypeOK, Frame, Kinds
  <2> QED BY <1>2, <2>1 DEF Remote, Answer, Close, OneAnswer
<1> QED BY <1>1, <1>2, ReadingStays

(* A frame is taken for the call that waits for it. *)
LEMMA ReadsForCallerReceiverStep ==
  ASSUME TypeOK, Inv, Receiver
  PROVE  ReadsForCaller'
<1> USE DEF Inv
<1>0. UNCHANGED <<pc, id, answered>>
  BY ReceiverTakes
<1>1. CASE MatchFrame
  <2> DEFINE h == Head(stream)
  <2>1. /\ slot[h.port].invokeId = h.id
        /\ slot' = [slot EXCEPT ![h.port].invokeId = 0]
        /\ frame' = h /\ rpc' = "frame" /\ stream # <<>>
        /\ stream' = Tail(stream)
    BY <1>1 DEF MatchFrame
  <2>2. h \in Frames /\ h.port \in Ports
    BY <2>1, TakeHead, PortsType
  <2>3. h.id # 0
    BY <2>2, OnTheWay
  <2>4. PICK c \in Callers : id[c] = h.id /\ pc[c] = "wait"
    BY <2>1, <2>2 DEF Armed
  <2>5. port[c] = h.port /\ answered[c] = h.kind
    BY <2>2, <2>4 DEF OneAnswer, Written
  <2>6. slot[h.port].request = c
    BY <2>2, <2>4, <2>5 DEF SlotHasOneOwner, InSlot
  <2>7. ~slot[h.port].wasWritten
    BY <2>1, <2>2, <2>3 DEF Collected
  <2> HIDE DEF h
  <2>8. /\ slot'[h.port].invokeId = 0 /\ slot'[h.port].request = c
        /\ ~slot'[h.port].wasWritten
    BY <2>1, <2>2, <2>6, <2>7, ArmEffect
  <2> QED BY <1>0, <2>1, <2>4, <2>5, <2>8 DEF ReadsForCaller
<1>2. CASE CopyAnswer
  <2>1. /\ rpc = "frame" /\ frame.kind # "error" /\ rpc' = "copied"
        /\ buffer' = [buffer EXCEPT ![Reader] = "answer"]
        /\ UNCHANGED <<slot, frame>>
    BY <1>2 DEF CopyAnswer
  <2>2. Reader \in Callers
    BY <2>1 DEF ReadsForCaller, Reader
  <2>3. buffer'[Reader] = "answer"
    BY <2>1, <2>2 DEF TypeOK
  <2> QED BY <1>0, <2>1, <2>3 DEF ReadsForCaller, Reader
<1>3. CASE ~MatchFrame /\ ~CopyAnswer
  <2>1. \/ rpc' \notin {"frame", "copied"}
        \/ UNCHANGED <<rpc, frame, slot, buffer>>
    BY <1>3 DEF Receiver, ReadsFrame, SkipFrame, MisreadFrame, ReceiverEnds,
       NotifyError, NotifyAnswer, AnswerStalls, receiverVars
  <2> QED BY <1>0, <2>1 DEF ReadsForCaller
<1> QED BY <1>1, <1>2, <1>3

-----------------------------------------------------------------------------
(* The theorems. *)

(* The invariant holds at the start. *)
LEMMA InitInv == Init => Inv
<1> SUFFICES ASSUME Init PROVE Inv
  OBVIOUS
<1>1. Frames = {}
  BY DEF Init, Frames
<1>2. SlotHasOneOwner
  BY PortsAssumption DEF Init, SlotHasOneOwner, InSlot
<1>3. IdsAreFresh
  BY DEF Init, IdsAreFresh
<1>4. OneAnswer
  BY <1>1 DEF Init, OneAnswer
<1>5. Armed
  BY <1>1 DEF Init, Armed
<1>6. Collected
  BY DEF Init, Collected
<1> QED BY <1>2, <1>3, <1>4, <1>5, <1>6 DEF Init, Inv, ReadsForCaller

(* The invariant holds. *)
LEMMA InvCorrect == Spec => []Inv
<1>1. TypeOK /\ Inv /\ [Next]_vars => Inv'
  <2> SUFFICES ASSUME TypeOK, Inv, [Next]_vars PROVE Inv'
    OBVIOUS
  <2>1. ASSUME NEW c \in Callers, CallerStep(c) PROVE Inv'
    <3>1. SlotHasOneOwner'
      BY <2>1, OwnerCallerStep DEF Inv
    <3>2. IdsAreFresh'
      BY <2>1, IdsStep DEF Inv, Next
    <3>3. OneAnswer'
      BY <2>1, OneAnswerCallerStep DEF Inv
    <3>4. Armed'
      BY <2>1, ArmedCallerStep DEF Inv
    <3>5. Collected'
      BY <2>1, CollectedCallerStep DEF Inv
    <3>6. ReadsForCaller'
      BY <2>1, ReadsForCallerCallerStep DEF Inv
    <3> QED BY <3>1, <3>2, <3>3, <3>4, <3>5, <3>6 DEF Inv
  <2>2. CASE Remote
    BY <2>2, OwnerOtherStep, IdsStep, OneAnswerRemoteStep, ArmedRemoteStep,
       CollectedRemoteStep, ReadsForCallerRemoteStep DEF Inv, Next
  <2>3. CASE Receiver
    BY <2>3, OwnerOtherStep, IdsStep, OneAnswerReceiverStep,
       ArmedReceiverStep, CollectedReceiverStep, ReadsForCallerReceiverStep
       DEF Inv, Next
  <2>4. CASE UNCHANGED vars
    BY <2>4 DEF vars, callVars, wireVars, receiverVars, Inv, SlotHasOneOwner,
       IdsAreFresh, OneAnswer, Written, Frames, Armed, Collected,
       ReadsForCaller
  <2> QED BY <2>1, <2>2, <2>3, <2>4 DEF Next
<1> QED BY <1>1, InitInv, TypeCorrect, PTL DEF Spec

(***************************************************************************)
(* Of all threads that share a port, the one between Reserve and Release   *)
(* is the one that the slot points to.                                     *)
(***************************************************************************)
THEOREM SlotHasOneOwnerCorrect == Spec => []SlotHasOneOwner
BY InvCorrect, PTL DEF Inv

(***************************************************************************)
(* The receiver touches a request, and the buffer of its caller, only      *)
(* while that very call waits for that very frame.                         *)
(***************************************************************************)
THEOREM ReceiverUsesLiveRequestCorrect == Spec => []ReceiverUsesLiveRequest
<1>1. Inv => ReceiverUsesLiveRequest
  BY DEF Inv, ReadsForCaller, ReceiverUsesLiveRequest, Reader
<1> QED BY <1>1, InvCorrect, PTL

-----------------------------------------------------------------------------
(* Refinement: AdsRequest implements AdsCall. *)

Busy == {c \in Callers : pc[c] # "idle"}
Outcome == [c \in Callers |-> IF pc[c] = "idle" THEN result[c] ELSE "none"]

(* A step within a call that its caller does not see. *)
LEMMA InnerStep ==
  ASSUME TypeOK, NEW c \in Callers, pc[c] # "idle", pc'[c] # "idle",
         \A d \in Callers \ {c} : pc'[d] = pc[d] /\ result'[d] = result[d],
         UNCHANGED <<answered, buffer>>
  PROVE  UNCHANGED Abstract!vars
<1>1. Busy' = Busy
  BY DEF Busy
<1>2. Outcome' = Outcome
  BY DEF Outcome
<1> QED BY <1>1, <1>2 DEF Abstract!vars, Busy, Outcome

(* The end of a call. *)
LEMMA LastStep ==
  ASSUME TypeOK, NEW c \in Callers, pc[c] # "idle",
         pc' = [pc EXCEPT ![c] = "idle"],
         \A d \in Callers \ {c} : result'[d] = result[d],
         NEW code \in Results \ {"none"}, result'[c] = code,
         code = "unsent" \/ Fits(code, answered[c], buffer[c]),
         UNCHANGED <<answered, buffer>>
  PROVE  Abstract!Next
<1>0. pc \in [Callers -> Labels]
  BY DEF TypeOK
<1>1. Busy' = Busy \ {c} /\ c \in Busy
  BY <1>0 DEF Busy
<1>2. Outcome' = [Outcome EXCEPT ![c] = code]
  BY <1>0 DEF Outcome
<1>3. Abstract!Return(c, code)
  BY <1>1, <1>2 DEF Abstract!Return, Busy, Outcome, Fits
<1> QED BY <1>3 DEF Abstract!Next, Results

(* Each step of a caller is one of the abstract call, or is not seen. *)
LEMMA CallerRefines ==
  ASSUME TypeOK, Inv, NEW c \in Callers, CallerStep(c)
  PROVE  [Abstract!Next]_(Abstract!vars)
<1>0. pc \in [Callers -> Labels] /\ result \in [Callers -> Results]
  BY DEF TypeOK
<1>1. ASSUME NEW p \in Ports, TakeId(c, p)
      PROVE  Abstract!Next
  <2>1. /\ pc[c] = "idle" /\ pc' = [pc EXCEPT ![c] = "reserve"]
        /\ result' = [result EXCEPT ![c] = "none"]
        /\ answered' = [answered EXCEPT ![c] = "none"]
        /\ buffer' = [buffer EXCEPT ![c] = "old"]
    BY <1>1 DEF TakeId, Goto
  <2>2. Busy' = Busy \cup {c} /\ c \notin Busy
    BY <1>0, <2>1 DEF Busy
  <2>3. Outcome' = [Outcome EXCEPT ![c] = "none"]
    BY <1>0, <2>1 DEF Outcome
  <2>4. Abstract!Call(c)
    BY <2>1, <2>2, <2>3 DEF Abstract!Call, Busy, Outcome
  <2> QED BY <2>4 DEF Abstract!Next
<1>2. CASE PortInUse(c) \/ WriteFails(c)
  <2>1. /\ pc[c] # "idle" /\ pc' = [pc EXCEPT ![c] = "idle"]
        /\ result' = [result EXCEPT ![c] = "unsent"]
        /\ UNCHANGED <<answered, buffer>>
    BY <1>2 DEF PortInUse, WriteFails, Goto, wireVars
  <2>2. /\ result'[c] = "unsent" /\ "unsent" \in Results \ {"none"}
        /\ \A d \in Callers \ {c} : result'[d] = result[d]
    BY <1>0, <2>1 DEF Results
  <2> QED BY <2>1, <2>2, LastStep
<1>3. CASE Return(c)
  <2>1. /\ pc[c] = "release" /\ pc' = [pc EXCEPT ![c] = "idle"]
        /\ UNCHANGED <<result, answered, buffer>>
    BY <1>3 DEF Return, Goto, wireVars
  <2>2. Fits(result[c], answered[c], buffer[c])
    BY <2>1 DEF Inv, Collected
  <2>3. result[c] \in Results \ {"none"}
    BY <1>0, <2>2 DEF Fits
  <2> QED BY <2>1, <2>2, <2>3, LastStep
<1>4. ASSUME ~PortInUse(c), ~WriteFails(c), ~Return(c),
             \A p \in Ports : ~TakeId(c, p)
      PROVE  UNCHANGED Abstract!vars
  <2>1. /\ pc[c] # "idle" /\ UNCHANGED <<answered, buffer>>
        /\ \E l \in Labels \ {"idle"} : pc' = [pc EXCEPT ![c] = l]
    BY <1>4 DEF CallerStep, Reserve, Arm, Write, TimesOut, AwaitsReceiver,
       Collect, Goto, Labels, wireVars
  <2>2. result' = result \/ \E r : result' = [result EXCEPT ![c] = r]
    BY <1>4 DEF CallerStep, Reserve, Arm, Write, TimesOut, AwaitsReceiver,
       Collect
  <2> QED BY <1>0, <2>1, <2>2, InnerStep
<1> QED BY <1>1, <1>2, <1>3, <1>4

(* An answer is one to the call that it belongs to, if that is going on. *)
LEMMA RemoteRefines ==
  ASSUME TypeOK, Inv, Remote
  PROVE  [Abstract!Next]_(Abstract!vars)
<1>0. answered \in [Callers -> Kinds \cup {"none"}]
  BY DEF TypeOK
<1>1. Busy' = Busy /\ Outcome' = Outcome /\ buffer' = buffer
  BY DEF Remote, Answer, Close, callVars, Busy, Outcome
<1>2. CASE answered' = answered
  BY <1>1, <1>2 DEF Abstract!vars, Busy, Outcome
<1>3. CASE answered' # answered
  <2>1. PICK r \in wire, kind \in Kinds : Answer(r, kind)
    BY <1>3 DEF Remote, Close
  <2>2. answered' = [d \in Callers |->
                       IF id[d] = r.id /\ pc[d] # "idle" THEN kind
                       ELSE answered[d]]
    BY <2>1 DEF Answer
  <2>3. PICK c \in Callers : id[c] = r.id /\ pc[c] # "idle"
    BY <1>0, <1>3, <2>2
  <2>4. \A d \in Callers : id[d] = r.id /\ pc[d] # "idle" => d = c
    BY <2>3 DEF Inv, IdsAreFresh
  <2>5. answered[c] = "none"
    BY <2>3 DEF Inv, OneAnswer
  <2>6. answered' = [answered EXCEPT ![c] = kind]
    BY <1>0, <2>2, <2>3, <2>4
  <2>7. Abstract!Answer(c, kind)
    BY <1>1, <2>3, <2>5, <2>6 DEF Abstract!Answer, Busy, Outcome
  <2> QED BY <2>7 DEF Abstract!Next, Kinds
<1> QED BY <1>2, <1>3

(* What the receiver writes fills the buffer of a call with its answer. *)
LEMMA ReceiverRefines ==
  ASSUME TypeOK, Inv, Receiver
  PROVE  [Abstract!Next]_(Abstract!vars)
<1>1. Busy' = Busy /\ Outcome' = Outcome /\ answered' = answered
  BY ReceiverTakes DEF Busy, Outcome
<1>2. CASE buffer' = buffer
  BY <1>1, <1>2 DEF Abstract!vars, Busy, Outcome
<1>3. CASE buffer' # buffer
  <2>1. /\ rpc = "frame" /\ frame.kind # "error"
        /\ \E how \in {"answer", "partial"} :
             buffer' = [buffer EXCEPT ![Reader] = how]
    BY <1>3 DEF Receiver, ReadsFrame, MatchFrame, SkipFrame, MisreadFrame,
       ReceiverEnds, NotifyError, CopyAnswer, NotifyAnswer, AnswerStalls
  <2>2. PICK c \in Callers :
          /\ Reader = c /\ pc[c] # "idle"
          /\ answered[c] \in {"data", "failure"}
    BY <2>1 DEF Inv, ReadsForCaller, Reader, TypeOK, Frame, Kinds
  <2>3. PICK how \in {"answer", "partial"} :
          buffer' = [buffer EXCEPT ![c] = how]
    BY <2>1, <2>2
  <2>4. Abstract!Fill(c, how)
    BY <1>1, <2>2, <2>3 DEF Abstract!Fill, Busy, Outcome
  <2> QED BY <2>4 DEF Abstract!Next
<1> QED BY <1>2, <1>3

(***************************************************************************)
(* AdsRequest implements AdsCall: whatever the threads, the remote side    *)
(* and the receiver do, and in whichever order, a call returns what its    *)
(* own answer said, and "ok" only with all of the data.                    *)
(***************************************************************************)
THEOREM AdsCallImplemented == Spec => ImplementsAdsCall
<1>1. Init => Abstract!Init
  BY DEF Init, Abstract!Init
<1>2. TypeOK /\ Inv /\ [Next]_vars => [Abstract!Next]_(Abstract!vars)
  <2> SUFFICES ASSUME TypeOK, Inv, [Next]_vars
               PROVE  [Abstract!Next]_(Abstract!vars)
    OBVIOUS
  <2>1. CASE UNCHANGED vars
    <3>1. Busy' = Busy /\ Outcome' = Outcome
      BY <2>1 DEF vars, callVars, Busy, Outcome
    <3> QED BY <2>1, <3>1
            DEF vars, wireVars, Abstract!vars, Busy, Outcome
  <2> QED BY <2>1, CallerRefines, RemoteRefines, ReceiverRefines DEF Next
<1> QED BY <1>1, <1>2, InvCorrect, TypeCorrect, PTL
        DEF Spec, ImplementsAdsCall, Abstract!Spec

=============================================================================
