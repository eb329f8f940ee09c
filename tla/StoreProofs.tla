----------------------------- MODULE StoreProofs -----------------------------
(***************************************************************************)
(* Proof about LocalServer that no setting changes but on a request to its *)
(* endpoint, with the token of that body or of the one left behind it, for *)
(* every set of bodies and every list of keys.  What the buffer of a       *)
(* handler holds behind a part of a body is followed from the body that    *)
(* left it there to the setting that is stored from it.                    *)
(***************************************************************************)
EXTENDS LocalServerProofs

(* One of the bodies that are read has brought the right token.            *)
Authorised ==
  \E b \in Sources : b.kind = "good" \/ (b.kind = "incomplete" /\ request.shape # "whole")

AllAsked == \A j \in 1..Len(todo) : Asked(request.endpoint, todo[j][1], todo[j][2])

(* What is still to be stored has been asked for by an authorised body.    *)
StoreInv == httpd = "store" => Authorised /\ AllAsked

-----------------------------------------------------------------------------
LEMMA TokenRightAsks == ASSUME ServerInv, StoreInv, TokenRight PROVE StoreInv'
<1> DEFINE e == request.endpoint
<1>1. httpd = "parse" /\ request \in Bodies /\ RequestTypeOK /\ Readable
  BY DEF ServerInv, TokenRight, Active
<1>2. e \in Endpoints /\ request.value \in Value /\ "none" \notin Endpoints
  BY <1>1, BodiesAssumption, EndpointsAssumption DEF Body
<1>3. UNCHANGED <<request, stale>> /\ Sources' = Sources /\ httpd' = "store"
  BY DEF TokenRight, Sources
<1>4. (request.shape = "whole" /\ piece = "body") \/ (request.shape # "whole" /\ piece = "head")
  BY <1>1 DEF ServerInv, WholeFlow, CutFlow, Readable
<1>6. Sources = ReadFrom
  BY <1>4 DEF Sources, ReadFrom
<1>8. Authorised'
  <2>1. \E b \in Sources : b.kind = "good" \/ (b.kind = "incomplete" /\ request.shape # "whole")
    BY <1>4, <1>6 DEF TokenRight
  <2> QED
    BY <1>3, <2>1 DEF Authorised
<1>9. AllAsked'
  <2> DEFINE S == Settings(e)
             also == Handler(e).also
  <2>1. PICK cut : todo' = ToStore(cut) \o also
    BY DEF TokenRight
  <2>2. /\ ToStore(cut) \in Seq(Setting \X Value) /\ Len(ToStore(cut)) = Len(S)
    BY <1>1, ToStoreTyped
  <2>3. Len(S) \in Nat /\ also \in Seq(Setting \X Value)
    BY <1>2, SettingTyped
  <2>4. ASSUME NEW i \in 1..Len(S)
        PROVE  /\ ToStore(cut)[i][1] = S[i]
               /\ \E b \in Sources : b.value = ToStore(cut)[i][2] /\ SameMembers(b)
    <3>1. ToStore(cut)[i] =
            <<S[i], IF piece = "body" \/ i <= cut \/ ~SameMembers(stale) THEN request.value
                                                                        ELSE stale.value>>
      BY <2>4 DEF ToStore
    <3>2. request \in Sources /\ (piece # "body" => stale \in Sources)
      BY <1>4 DEF Sources
    <3>3. SameMembers(request)
      BY DEF SameMembers
    <3>4. CASE piece = "body" \/ i <= cut \/ ~SameMembers(stale)
      BY <3>1, <3>2, <3>3, <3>4
    <3>5. CASE ~ (piece = "body" \/ i <= cut \/ ~SameMembers(stale))
      BY <3>1, <3>2, <3>5
    <3> QED
      BY <3>4, <3>5
  <2> HIDE DEF S, also
  <2> DEFINE stored == ToStore(cut)
  <2>5. /\ stored \in Seq(Setting \X Value) /\ Len(stored) = Len(S) /\ todo' = stored \o also
    BY <2>1, <2>2
  <2>6. \A i \in 1..Len(S) : /\ stored[i][1] = S[i]
                             /\ \E b \in Sources : b.value = stored[i][2] /\ SameMembers(b)
    BY <2>4
  <2>9. \A j \in 1..Len(also) : \E n \in Setting, v \in Value : also[j] = <<n, v>>
    BY <2>3
  <2> HIDE DEF stored
  <2>7. /\ Len(todo') = Len(stored) + Len(also)
        /\ \A j \in 1..Len(todo') :
             todo'[j] = IF j <= Len(stored) THEN stored[j] ELSE also[j - Len(stored)]
    <3>1. stored \in Seq(Setting \X Value) /\ also \in Seq(Setting \X Value) /\ todo' = stored \o also
      BY <2>3, <2>5
    <3> QED
      BY <3>1, Concatenation
  <2>8. Len(also) \in Nat
    BY <2>3
  <2>10. ASSUME NEW j \in 1..Len(todo') PROVE Asked(e, todo'[j][1], todo'[j][2])
    <3>1. CASE j \in 1..Len(S)
      <4>1. todo'[j] = stored[j]
        BY <2>3, <2>5, <2>7, <3>1
      <4> QED
        BY <2>6, <3>1, <4>1 DEF Asked, S
    <3>2. CASE j - Len(S) \in 1..Len(also)
      <4>1. todo'[j] = also[j - Len(S)]
        BY <2>3, <2>5, <2>7, <3>2
      <4>2. also[j - Len(S)] = <<todo'[j][1], todo'[j][2]>>
        BY <2>9, <3>2, <4>1
      <4> QED
        BY <3>2, <4>2 DEF Asked, also
    <3> QED
      BY <2>3, <2>5, <2>7, <2>8, <3>1, <3>2
  <2> QED
    BY <1>3, <2>10 DEF AllAsked, Asked, SameMembers
<1> QED
  BY <1>3, <1>8, <1>9 DEF StoreInv

LEMMA StoreAsks == ASSUME ServerInv, StoreInv, Store PROVE StoreInv'
<1>1. /\ httpd = "store" /\ UNCHANGED <<httpd, request, stale>> /\ todo' = Tail(todo)
      /\ todo # <<>> /\ todo \in Seq(Setting \X Value)
  BY DEF Store, ServerInv, RequestTypeOK
<1>2. Authorised'
  BY <1>1 DEF StoreInv, Authorised, Sources
<1>3. \A j \in 1..Len(todo') : j + 1 \in 1..Len(todo) /\ todo'[j] = todo[j + 1]
  BY <1>1, HeadAndTail
<1>4. AllAsked'
  <2>1. \A j \in 1..Len(todo') : Asked(request.endpoint, todo'[j][1], todo'[j][2])
    BY <1>1, <1>3 DEF StoreInv, AllAsked
  <2>2. request' = request /\ Sources' = Sources
    BY <1>1 DEF Sources
  <2> QED
    BY <2>1, <2>2 DEF AllAsked, Asked, SameMembers
<1> QED
  BY <1>1, <1>2, <1>4 DEF StoreInv

LEMMA RequestAsks == ASSUME ServerInv, StoreInv, RequestNext PROVE StoreInv'
<1>1. ASSUME NEW r \in Bodies, Accept(r) PROVE StoreInv'
  BY <1>1 DEF Accept, StoreInv
<1>2. CASE Receive
  BY <1>2 DEF Receive, StoreInv
<1>3. CASE PeerLeaves
  BY <1>3 DEF PeerLeaves, StoreInv
<1>4. CASE ReceiveFails \/ Answer \/ MemberMissing \/ NotParsed \/ ParsedBare
  <2>1. httpd' \in {"idle", "fault", "answer"}
    BY <1>4 DEF ReceiveFails, Answer, MemberMissing, NotParsed, ParsedBare
  <2> QED
    BY <2>1 DEF StoreInv
<1>5. CASE TokenWrong \/ Stored \/ Command
  <2>1. /\ httpd \in {"parse", "store"} /\ httpd' \in {"receive", "answer", "restart"}
        /\ UNCHANGED <<request, stale>>
    BY <1>5 DEF TokenWrong, Stored, Command, NextRound
  <2> QED
    BY <2>1 DEF StoreInv
<1> QED
  BY <1>1, <1>2, <1>3, <1>4, <1>5, TokenRightAsks, StoreAsks DEF RequestNext, Serve, Peer

LEMMA StoreInvHolds == Spec => []StoreInv
<1>1. Init => StoreInv
  BY DEF Init, RequestInit, StoreInv
<1>2. ServerStepInv /\ StoreInv /\ [Next]_vars => StoreInv'
  <2> SUFFICES ASSUME ServerInv, StoreInv, [Next]_vars PROVE StoreInv'
    BY DEF ServerStepInv
  <2>1. CASE RequestNext
    BY <2>1, RequestAsks
  <2>2. CASE httpd' \in {"idle", "sensor"}
    BY <2>2 DEF StoreInv
  <2>3. CASE UNCHANGED <<httpd, request, stale, todo>>
    <3>1. AllAsked' <=> AllAsked
      BY <2>3 DEF AllAsked, Asked, Sources, SameMembers
    <3>2. Authorised' <=> Authorised
      BY <2>3 DEF Authorised, Sources
    <3> QED
      BY <2>3, <3>1, <3>2 DEF StoreInv
  <2> QED
    BY <2>1, <2>2, <2>3 DEF Next, ConfigStep, TransmitStep, Read, Copy, SensorRequest, OtherRead,
       SensorRequestTooEarly, CopyStep, CopyUsed, CopyFaults, Reset, RequestReset, requestVars, vars
<1> QED
  BY <1>1, <1>2, ServerStepInvHolds, PTL DEF Spec

(* Only the loop over the list of a handler stores settings, and what it   *)
(* stores has been asked for with the right token.                         *)
LEMMA ChangesAsked ==
  ASSUME ServerInv, StoreInv, [Next]_vars, NEW s \in Setting, nvs'[s] # nvs[s]
  PROVE  httpd = "store" /\ Authorised /\ Asked(request.endpoint, s, nvs'[s])
<1>1. Store
  BY DEF Next, ConfigStep, TransmitStep, Read, Copy, SensorRequest, OtherRead,
     SensorRequestTooEarly, CopyStep, CopyUsed, CopyFaults, Reset, RequestReset, requestVars, vars,
     RequestNext, Serve, Peer, Accept, Receive, PeerLeaves, ReceiveFails, MemberMissing, TokenWrong,
     TokenRight, NotParsed, ParsedBare, Stored, Command, Answer
<1>2. /\ httpd = "store" /\ todo # <<>> /\ todo \in Seq(Setting \X Value)
      /\ nvs \in [Setting -> Value]
      /\ nvs' = nvs \/ nvs' = [nvs EXCEPT ![Head(todo)[1]] = Head(todo)[2]]
  BY <1>1 DEF Store, ServerInv, RequestTypeOK
<1>3. Head(todo) = todo[1] /\ 1 \in 1..Len(todo)
  BY <1>2, HeadAndTail
<1>4. s = todo[1][1] /\ nvs'[s] = todo[1][2]
  BY <1>2, <1>3
<1> QED
  BY <1>2, <1>3, <1>4 DEF StoreInv, AllAsked

(* The handlers store no setting that was not asked for: it belongs to the *)
(* endpoint, the value is that of the body or of an earlier one left in    *)
(* the buffer by an endpoint with the same members (TRAMA and SERVER), and *)
(* the token that was compared, of one of the two, was right.              *)
THEOREM StoredOnlyOnRequest == Spec => StoresOnlyWhatIsAsked
<1>1. ServerStepInv /\ StoreInv /\ [Next]_vars
        => [\A s \in Setting : nvs'[s] # nvs[s] =>
              /\ \E b \in Sources : b.kind = "good" \/ (b.kind = "incomplete" /\ request.shape # "whole")
              /\ Asked(request.endpoint, s, nvs'[s])]_vars
  BY ChangesAsked DEF ServerStepInv, Authorised
<1> QED
  BY <1>1, ServerStepInvHolds, StoreInvHolds, PTL DEF Spec, StoresOnlyWhatIsAsked
=============================================================================
