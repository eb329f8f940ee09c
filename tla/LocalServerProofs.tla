-------------------------- MODULE LocalServerProofs --------------------------
(***************************************************************************)
(* Proofs about LocalServer, for every list of keys, every division of     *)
(* them among the endpoints, every set of request bodies and every set of  *)
(* tasks that copy texts.                                                  *)
(***************************************************************************)
EXTENDS LocalServer, TLAPS, FiniteSetTheorems

-----------------------------------------------------------------------------
(* The table of handlers.                                                  *)
Name == {"1_TRAMA-TIME", "4_SERVERTIME", "2_WIFI-AP-SSID", "2_WIFI-AP-PASS", "2_WIFI-AP-IP",
         "2_WIFI-ST-SSID", "2_WIFI-ST-PASS", "2_WIFI-ST-INTE", "4_URL-TRAMA", "4_URL-LOGIN",
         "4_TIMEOUT-HTTP", "4_TOKEN-TIME", "5_TOK-HTTPSER", "4_SERVER-TIME"}
        \cup {PortNames[i] : i \in 1..Len(PortNames)}

LEMMA Tuples ==
  ASSUME NEW S, NEW a \in S, NEW b \in S, NEW c \in S, NEW d \in S, NEW e \in S, NEW f \in S
  PROVE  /\ <<>> \in Seq(S) /\ <<a>> \in Seq(S) /\ <<a, b, c>> \in Seq(S)
         /\ <<a, b, c, d, e, f>> \in Seq(S)
  OBVIOUS

LEMMA HandlerTyped ==
  ASSUME NEW e \in Endpoints
  PROVE  /\ Settings(e) \in Seq(Name) /\ "7_STATUS-MATR" \notin Name
         /\ Handler(e).also \in {<<>>, << <<"7_STATUS-MATR", 1>> >>}
         /\ Handler(e).does \in {"store", "restart", "clear"}
<1>1. /\ "1_TRAMA-TIME" \in Name /\ "4_SERVERTIME" \in Name
      /\ "2_WIFI-AP-SSID" \in Name /\ "2_WIFI-AP-PASS" \in Name /\ "2_WIFI-AP-IP" \in Name
      /\ "2_WIFI-ST-SSID" \in Name /\ "2_WIFI-ST-PASS" \in Name /\ "2_WIFI-ST-INTE" \in Name
      /\ "4_URL-TRAMA" \in Name /\ "4_URL-LOGIN" \in Name /\ "4_TIMEOUT-HTTP" \in Name
      /\ "4_TOKEN-TIME" \in Name /\ "5_TOK-HTTPSER" \in Name /\ "4_SERVER-TIME" \in Name
  BY DEF Name
<1>2. PortNames \in Seq(Name)
  BY PortNamesAssumption DEF Name
<1>3. /\ TRAMA.settings \in Seq(Name)    /\ SERVER.settings \in Seq(Name)
      /\ WIFIAP.settings \in Seq(Name)   /\ WIFIST.settings \in Seq(Name)
      /\ SETHTTP.settings \in Seq(Name)  /\ SETPORTS.settings \in Seq(Name)
      /\ RESETESP.settings \in Seq(Name) /\ LOG.settings \in Seq(Name)
  <2>1. TRAMA.settings \in Seq(Name) /\ SERVER.settings \in Seq(Name)
    BY <1>1, Tuples DEF TRAMA, SERVER, Stores
  <2>2. WIFIAP.settings \in Seq(Name) /\ WIFIST.settings \in Seq(Name)
    BY <1>1, Tuples DEF WIFIAP, WIFIST, Stores
  <2>3. SETHTTP.settings \in Seq(Name)
    BY <1>1, Tuples DEF SETHTTP, Stores
  <2>4. SETPORTS.settings \in Seq(Name) /\ RESETESP.settings \in Seq(Name) /\ LOG.settings \in Seq(Name)
    BY <1>1, <1>2, Tuples DEF SETPORTS, RESETESP, LOG, Stores
  <2> QED
    BY <2>1, <2>2, <2>3, <2>4
<1>4. /\ TRAMA.also = <<>> /\ SERVER.also = <<>> /\ WIFIAP.also = <<>> /\ WIFIST.also = <<>>
      /\ SETHTTP.also = <<>> /\ RESETESP.also = <<>> /\ LOG.also = <<>>
      /\ SETPORTS.also = << <<"7_STATUS-MATR", 1>> >>
      /\ TRAMA.does = "store" /\ SERVER.does = "store" /\ WIFIAP.does = "store"
      /\ WIFIST.does = "store" /\ SETHTTP.does = "store" /\ SETPORTS.does = "store"
      /\ RESETESP.does = "restart" /\ LOG.does = "clear"
  BY DEF TRAMA, SERVER, WIFIAP, WIFIST, SETHTTP, SETPORTS, RESETESP, LOG, Stores
<1>6. "7_STATUS-MATR" \notin Name
  BY PortNamesAssumption DEF Name
<1> HIDE DEF Name
<1>5. Handler(e) \in {TRAMA, SERVER, WIFIAP, WIFIST, SETHTTP, SETPORTS, RESETESP, LOG}
  BY EndpointsAssumption DEF Handler
<1> QED
  BY <1>3, <1>4, <1>5, <1>6 DEF Settings

LEMMA SettingTyped ==
  ASSUME NEW e \in Endpoints
  PROVE  /\ Len(Settings(e)) \in Nat
         /\ \A i \in 1..Len(Settings(e)) : Settings(e)[i] \in Setting \ {"7_STATUS-MATR"}
         /\ Handler(e).also \in Seq(Setting \X Value)
         /\ Len(Handler(e).also) \in 0..1
         /\ Len(Handler(e).also) = 1 => Handler(e).also[1] = <<"7_STATUS-MATR", 1>>
<1>1. Settings(e) \in Seq(Name) /\ "7_STATUS-MATR" \notin Name
  BY HandlerTyped
<1>2. Handler(e).also \in {<<>>, << <<"7_STATUS-MATR", 1>> >>}
  BY HandlerTyped
<1>3. Len(Settings(e)) \in Nat
  BY <1>1
<1>4. ASSUME NEW i \in 1..Len(Settings(e))
      PROVE  Settings(e)[i] \in Setting \ {"7_STATUS-MATR"}
  <2>1. Settings(e)[i] \in Name
    BY <1>1
  <2>2. Settings(e)[i] \in {Settings(e)[j] : j \in 1..Len(Settings(e))}
    OBVIOUS
  <2>3. Settings(e)[i] \in Setting
    BY <2>2, Zenon DEF Setting
  <2> QED
    BY <1>1, <2>1, <2>3
<1>5. <<"7_STATUS-MATR", 1>> \in Setting \X Value
  BY OneAssumption DEF Setting
<1>6. \A x \in Setting \X Value : <<>> \in Seq(Setting \X Value) /\ <<x>> \in Seq(Setting \X Value)
                                /\ Len(<<x>>) = 1 /\ <<x>>[1] = x
  OBVIOUS
<1> QED
  <2> DEFINE pair == <<"7_STATUS-MATR", 1>>
  <2>1. pair \in Setting \X Value /\ Handler(e).also \in {<<>>, <<pair>>}
    BY <1>2, <1>5
  <2>2. \A i \in 1..Len(Settings(e)) : Settings(e)[i] \in Setting \ {"7_STATUS-MATR"}
    BY <1>4
  <2> HIDE DEF pair
  <2>3. Handler(e).also \in Seq(Setting \X Value)
    BY <1>6, <2>1
  <2>4. Len(Handler(e).also) \in 0..1
    BY <1>6, <2>1
  <2>5. Len(Handler(e).also) = 1 => Handler(e).also[1] = pair
    BY <1>6, <2>1
  <2> QED
    BY <1>3, <2>2, <2>3, <2>4, <2>5 DEF pair

(* What is stored for a body: every setting of the handler and, for        *)
(* SETPORTS, the mark of a registered board.                               *)
LEMMA ToStoreTyped ==
  ASSUME RequestTypeOK, request \in Bodies, Readable, NEW cut
  PROVE  /\ ToStore(cut) \in Seq(Setting \X Value)
         /\ Len(ToStore(cut)) = Len(Settings(request.endpoint))
         /\ piece = "body" => \A i \in 1..Len(Settings(request.endpoint)) :
              ToStore(cut)[i] = <<Settings(request.endpoint)[i], request.value>>
<1> DEFINE names == Settings(request.endpoint)
           own(i) == piece = "body" \/ i <= cut \/ ~SameMembers(stale)
           read(i) == IF own(i) THEN request.value ELSE stale.value
<1>1. request \in Body
  BY BodiesAssumption
<1>2. request.endpoint \in Endpoints /\ request.value \in Value
  BY <1>1 DEF Body
<1>3. Len(names) \in Nat /\ \A i \in 1..Len(names) : names[i] \in Setting
  BY <1>2, SettingTyped
<1>4. piece # "body" => stale.value \in Value
  BY BodiesAssumption DEF RequestTypeOK, Readable, Body
<1>5. \A i \in 1..Len(names) : read(i) \in Value
  BY <1>2, <1>4
<1>6. ToStore(cut) = [i \in 1..Len(names) |-> <<names[i], read(i)>>]
  BY DEF ToStore
<1> HIDE DEF names
<1>7. \A i \in 1..Len(names) : <<names[i], read(i)>> \in Setting \X Value
  BY <1>3, <1>5
<1> HIDE DEF read
<1>8. ToStore(cut) \in Seq(Setting \X Value) /\ Len(ToStore(cut)) = Len(names)
  BY <1>3, <1>6, <1>7
<1>9. piece = "body" => \A i \in 1..Len(names) : ToStore(cut)[i] = <<names[i], request.value>>
  BY <1>6 DEF read
<1> QED
  BY <1>8, <1>9 DEF names

-----------------------------------------------------------------------------
(* The invariant of the server's task: how far a body that comes whole, or *)
(* one that does not, has come at every place, and that what is not in the *)
(* settings yet is still in the list.                                      *)
Active == {"receive", "parse", "store", "answer", "fault", "restart"}

WholeFlow ==
  request.shape = "whole" =>
    /\ httpd = "receive" => coming = 1 /\ answer = "none"
    /\ httpd = "parse" => coming = 0 /\ answer = "none" /\ piece = "body"
    /\ httpd = "store" => coming = 0 /\ answer = "none" /\ request.kind = "good"
    /\ httpd = "fault" => request.kind = "incomplete"
    /\ answer \in {"none", "saved", "command", "token"}
    /\ answer \in {"saved", "command"} => request.kind = "good"
    /\ answer = "token" => request.kind = "wrong_token"

CutFlow ==
  request.shape # "whole" =>
    /\ httpd = "receive" => coming \in 1..2
    /\ httpd = "parse" => (coming = 1 /\ piece = "head") \/ (coming = 0 /\ piece = "rest")
    /\ httpd = "store" => coming = 1
    /\ httpd = "answer" => answer # "saved"

Holds(i) == Settings(request.endpoint)[i] \in refused \/ nvs[Settings(request.endpoint)[i]] = request.value
Waits(i) == \E j \in 1..Len(todo) : todo[j] = <<Settings(request.endpoint)[i], request.value>>

NothingLost ==
  (httpd = "store" /\ request.shape = "whole") =>
    \A i \in 1..Len(Settings(request.endpoint)) :
      /\ Holds(i) \/ Waits(i)
      /\ \A j \in 1..Len(todo) :
           todo[j][1] = Settings(request.endpoint)[i] => todo[j][2] = request.value

AllHeld ==
  (httpd = "answer" /\ answer = "saved") =>
    \A i \in 1..Len(Settings(request.endpoint)) : Holds(i)

ServerInv ==
  /\ RequestTypeOK
  /\ httpd \in Active => request \in Bodies
  /\ WholeFlow
  /\ CutFlow
  /\ NothingLost
  /\ AllHeld

LEMMA ServerInvInit == RequestInit => ServerInv
<1> SUFFICES ASSUME RequestInit PROVE ServerInv
  OBVIOUS
<1>1. <<>> \in Seq(Setting \X Value)
  OBVIOUS
<1>2. RequestTypeOK
  <2>1. /\ nvs \in [Setting -> Value] /\ todo \in Seq(Setting \X Value)
        /\ httpd \in HttpdPlace /\ answer \in AnswerText
    BY <1>1, FoundAssumption, Zenon DEF RequestInit, HttpdPlace, AnswerText
  <2>2. request \in Bodies \cup {NoBody} /\ stale \in Bodies \cup {Junk}
    BY Zenon DEF RequestInit
  <2>3. coming \in 0..2
    BY DEF RequestInit
  <2>4. gone \in BOOLEAN /\ piece \in {"none", "body", "head", "rest"}
    BY Zenon DEF RequestInit
  <2>5. refused \subseteq Setting
    BY DEF RequestInit
  <2> QED
    BY <2>1, <2>2, <2>3, <2>4, <2>5, Zenon DEF RequestTypeOK
<1> QED
  BY <1>2 DEF RequestInit, ServerInv, Active, WholeFlow, CutFlow, NothingLost, AllHeld, NoBody

LEMMA AcceptKeeps ==
  ASSUME ServerInv, NEW r \in Bodies, Accept(r)
  PROVE  ServerInv'
<1>1. r \in Body /\ r.endpoint \in Endpoints /\ r.value \in Value
  BY BodiesAssumption DEF Body
<1>2. RequestTypeOK'
  <2>1. coming' \in 0..2 /\ httpd' \in HttpdPlace /\ answer' \in AnswerText
    BY DEF Accept, HttpdPlace, AnswerText
  <2>2. stale' \in Bodies \cup {Junk}
    BY DEF Accept, ServerInv, RequestTypeOK
  <2> QED
    BY <2>1, <2>2 DEF Accept, ServerInv, RequestTypeOK
<1>3. (httpd \in Active => request \in Bodies)'
  BY DEF Accept
<1>4. WholeFlow'
  BY DEF Accept, WholeFlow
<1>5. CutFlow'
  BY DEF Accept, CutFlow
<1>6. NothingLost' /\ AllHeld'
  BY DEF Accept, NothingLost, AllHeld
<1> QED
  BY <1>2, <1>3, <1>4, <1>5, <1>6 DEF ServerInv

LEMMA ReceiveKeeps ==
  ASSUME ServerInv, Receive
  PROVE  ServerInv'
<1>1. request \in Bodies /\ request \in Body
  BY BodiesAssumption DEF ServerInv, Receive, Active
<1>2. request.endpoint \in Endpoints /\ request.value \in Value
  BY <1>1 DEF Body
<1>3. RequestTypeOK'
  <2>1. coming' \in 0..2 /\ piece' \in {"body", "head", "rest"} /\ httpd' \in HttpdPlace
    BY DEF Receive, ServerInv, RequestTypeOK, HttpdPlace
  <2>2. stale' \in Bodies \cup {Junk}
    BY <1>1 DEF Receive, ServerInv, RequestTypeOK
  <2> QED
    BY <2>1, <2>2 DEF Receive, ServerInv, RequestTypeOK
<1>4. (httpd \in Active => request \in Bodies)'
  BY <1>1 DEF Receive
<1>5. WholeFlow'
  BY DEF Receive, ServerInv, WholeFlow
<1>6. CutFlow'
  BY DEF Receive, ServerInv, CutFlow
<1>7. NothingLost' /\ AllHeld'
  BY DEF Receive, NothingLost, AllHeld
<1> QED
  BY <1>3, <1>4, <1>5, <1>6, <1>7 DEF ServerInv

LEMMA IdleKeeps ==
  ASSUME ServerInv, request' \in Bodies \cup {NoBody}, request' = NoBody \/ UNCHANGED request,
         httpd' \in {"idle", "sensor"}, coming' \in 0..2, gone' \in BOOLEAN,
         answer' \in {"none", answer}, refused' \in {refused, {}},
         UNCHANGED <<nvs, piece, stale, todo>>
  PROVE  ServerInv'
<1>1. RequestTypeOK'
  BY DEF ServerInv, RequestTypeOK, HttpdPlace, AnswerText
<1>2. WholeFlow'
  <2>1. CASE request' = NoBody
    BY <2>1 DEF WholeFlow, NoBody
  <2>2. CASE UNCHANGED request
    BY <2>2 DEF ServerInv, WholeFlow
  <2> QED
    BY <2>1, <2>2
<1>3. CutFlow' /\ NothingLost' /\ AllHeld'
  BY DEF CutFlow, NothingLost, AllHeld
<1>4. (httpd \in Active => request \in Bodies)'
  BY DEF Active
<1> QED
  BY <1>1, <1>2, <1>3, <1>4 DEF ServerInv

LEMMA FlowKeeps ==
  ASSUME ServerInv, httpd \in {"receive", "parse"}, RequestTypeOK', UNCHANGED request,
         httpd' \in {"receive", "parse", "answer", "fault"},
         httpd' = "answer" => answer' # "saved", WholeFlow', CutFlow'
  PROVE  ServerInv'
  BY DEF ServerInv, Active, NothingLost, AllHeld

LEMMA ParseKeeps ==
  ASSUME ServerInv, MemberMissing \/ TokenWrong \/ NotParsed \/ ParsedBare
  PROVE  ServerInv'
<1>1. RequestTypeOK /\ httpd = "parse" /\ request \in Bodies
  BY DEF ServerInv, MemberMissing, TokenWrong, NotParsed, ParsedBare, Active
<1>2. request.kind \in Kind
  BY <1>1, BodiesAssumption DEF Body
<1>7. piece # "head" => \A b \in ReadFrom : b = request
  BY DEF ReadFrom
<1>8. request.shape = "whole" => piece = "body"
  BY <1>1 DEF ServerInv, WholeFlow
<1>3. CASE MemberMissing
  <2>1. RequestTypeOK'
    BY <1>3 DEF ServerInv, RequestTypeOK, MemberMissing, HttpdPlace
  <2>2. WholeFlow' /\ CutFlow'
    BY <1>3, <1>8 DEF ServerInv, MemberMissing, WholeFlow, CutFlow
  <2> QED
    BY <1>1, <1>3, <2>1, <2>2, FlowKeeps DEF MemberMissing, ServerInv, WholeFlow, CutFlow
<1>4. CASE TokenWrong
  <2>1. RequestTypeOK'
    BY <1>4 DEF ServerInv, RequestTypeOK, TokenWrong, NextRound, HttpdPlace, AnswerText
  <2>2. WholeFlow' /\ CutFlow'
    BY <1>4, <1>7, <1>8 DEF ServerInv, TokenWrong, NextRound, WholeFlow, CutFlow
  <2> QED
    BY <1>1, <1>4, <2>1, <2>2, FlowKeeps DEF TokenWrong, NextRound
<1>5. CASE NotParsed
  <2>1. RequestTypeOK'
    BY <1>5 DEF ServerInv, RequestTypeOK, NotParsed, HttpdPlace, AnswerText
  <2>2. WholeFlow' /\ CutFlow'
    BY <1>5 DEF ServerInv, NotParsed, WholeFlow, CutFlow
  <2> QED
    BY <1>1, <1>5, <2>1, <2>2, FlowKeeps DEF NotParsed
<1>6. CASE ParsedBare
  <2>1. RequestTypeOK'
    BY <1>6 DEF ServerInv, RequestTypeOK, ParsedBare, HttpdPlace
  <2>2. WholeFlow' /\ CutFlow'
    BY <1>6 DEF ServerInv, ParsedBare, WholeFlow, CutFlow
  <2> QED
    BY <1>1, <1>6, <2>1, <2>2, FlowKeeps DEF ParsedBare
<1> QED
  BY <1>3, <1>4, <1>5, <1>6

(* The two parts of a sequence made of two.                                *)
LEMMA Concatenation ==
  ASSUME NEW S, NEW s \in Seq(S), NEW t \in Seq(S), NEW c, c = s \o t
  PROVE  /\ c \in Seq(S) /\ Len(c) = Len(s) + Len(t)
         /\ \A j \in 1..Len(c) : c[j] = IF j <= Len(s) THEN s[j] ELSE t[j - Len(s)]
  OBVIOUS

LEMMA TokenRightKeeps ==
  ASSUME ServerInv, TokenRight
  PROVE  ServerInv'
<1> DEFINE S == Settings(request.endpoint)
           also == Handler(request.endpoint).also
<1>1. httpd = "parse" /\ request \in Bodies /\ RequestTypeOK /\ Readable
  BY DEF ServerInv, TokenRight, Active
<1>2. request.endpoint \in Endpoints /\ request.value \in Value
  BY <1>1, BodiesAssumption DEF Body
<1>3. PICK cut : todo' = ToStore(cut) \o also
  BY DEF TokenRight
<1>4. /\ ToStore(cut) \in Seq(Setting \X Value)
      /\ Len(ToStore(cut)) = Len(S)
      /\ piece = "body" => \A i \in 1..Len(S) : ToStore(cut)[i] = <<S[i], request.value>>
  BY <1>1, ToStoreTyped
<1>5. /\ Len(S) \in Nat /\ \A i \in 1..Len(S) : S[i] \in Setting \ {"7_STATUS-MATR"}
      /\ also \in Seq(Setting \X Value) /\ Len(also) \in 0..1
      /\ Len(also) = 1 => also[1] = <<"7_STATUS-MATR", 1>>
  BY <1>2, SettingTyped
<1> HIDE DEF S, also
<1>6. /\ todo' \in Seq(Setting \X Value)
      /\ Len(todo') = Len(S) + Len(also)
      /\ \A j \in 1..Len(todo') :
           todo'[j] = IF j <= Len(S) THEN ToStore(cut)[j] ELSE also[j - Len(S)]
  <2>1. /\ todo' \in Seq(Setting \X Value)
        /\ Len(todo') = Len(ToStore(cut)) + Len(also)
        /\ \A j \in 1..Len(todo') :
             todo'[j] = IF j <= Len(ToStore(cut)) THEN ToStore(cut)[j] ELSE also[j - Len(ToStore(cut))]
    <3> DEFINE stored == ToStore(cut)
    <3>1. stored \in Seq(Setting \X Value) /\ also \in Seq(Setting \X Value) /\ todo' = stored \o also
      BY <1>3, <1>4, <1>5
    <3> HIDE DEF stored
    <3>2. /\ todo' \in Seq(Setting \X Value)
          /\ Len(todo') = Len(stored) + Len(also)
          /\ \A j \in 1..Len(todo') :
               todo'[j] = IF j <= Len(stored) THEN stored[j] ELSE also[j - Len(stored)]
      BY <3>1, Concatenation
    <3> QED
      BY <3>2 DEF stored
  <2> QED
    BY <1>4, <2>1
<1>7. RequestTypeOK'
  BY <1>1, <1>6 DEF TokenRight, RequestTypeOK, HttpdPlace
<1>8. WholeFlow' /\ CutFlow'
  BY DEF ServerInv, TokenRight, ReadFrom, WholeFlow, CutFlow, Readable
<1>9. NothingLost'
  <2>1. SUFFICES ASSUME request.shape = "whole"
                 PROVE  \A i \in 1..Len(S) :
                          /\ \E j \in 1..Len(todo') : todo'[j] = <<S[i], request.value>>
                          /\ \A j \in 1..Len(todo') : todo'[j][1] = S[i] => todo'[j][2] = request.value
    BY DEF NothingLost, Waits, TokenRight, S
  <2>2. piece = "body"
    BY <1>1, <2>1 DEF ServerInv, WholeFlow
  <2>3. TAKE i \in 1..Len(S)
  <2>4. \A j \in 1..Len(S) : todo'[j] = <<S[j], request.value>>
    BY <1>4, <1>5, <1>6, <2>2
  <2>5. Len(todo') = Len(S) + Len(also)
    BY <1>6
  <2>6. \A j \in 1..Len(todo') : j \notin 1..Len(S) => todo'[j] = <<"7_STATUS-MATR", 1>>
    BY <1>5, <1>6
  <2>7. \E j \in 1..Len(todo') : todo'[j] = <<S[i], request.value>>
    BY <1>5, <2>4, <2>5
  <2>8. ASSUME NEW j \in 1..Len(todo'), todo'[j][1] = S[i]
        PROVE  todo'[j][2] = request.value
    <3>1. CASE j \in 1..Len(S)
      BY <2>4, <3>1
    <3>2. CASE j \notin 1..Len(S)
      BY <1>5, <2>6, <2>8, <3>2
    <3> QED
      BY <3>1, <3>2
  <2> QED
    BY <2>7, <2>8
<1>10. AllHeld' /\ (httpd \in Active => request \in Bodies)'
  BY <1>1 DEF TokenRight, AllHeld
<1> QED
  BY <1>7, <1>8, <1>9, <1>10 DEF ServerInv

(* The first of a list and the others.                                     *)
LEMMA HeadAndTail ==
  ASSUME NEW S, NEW s \in Seq(S), s # <<>>
  PROVE  /\ Len(s) \in Nat \ {0} /\ Head(s) = s[1] /\ s[1] \in S
         /\ Tail(s) \in Seq(S) /\ Len(Tail(s)) = Len(s) - 1
         /\ \A j \in 1..(Len(s) - 1) : Tail(s)[j] = s[j + 1]
  OBVIOUS

LEMMA StoreKeeps ==
  ASSUME ServerInv, Store
  PROVE  ServerInv'
<1> DEFINE S == Settings(request.endpoint)
<1>1. /\ httpd = "store" /\ request \in Bodies /\ RequestTypeOK /\ todo # <<>>
      /\ UNCHANGED <<httpd, coming, request, gone, piece, stale, answer>>
      /\ \/ nvs' = [nvs EXCEPT ![Head(todo)[1]] = Head(todo)[2]] /\ refused' = refused
         \/ nvs' = nvs /\ refused' = refused \cup {Head(todo)[1]}
      /\ todo' = Tail(todo)
  BY DEF ServerInv, Store, Active
<1>2. /\ Len(todo) \in Nat \ {0} /\ Head(todo) = todo[1] /\ todo[1] \in Setting \X Value
      /\ todo' \in Seq(Setting \X Value) /\ Len(todo') = Len(todo) - 1
      /\ \A j \in 1..(Len(todo) - 1) : todo'[j] = todo[j + 1]
  BY <1>1, HeadAndTail, Zenon DEF RequestTypeOK
<1>3. PICK n \in Setting, v \in Value : todo[1] = <<n, v>>
  BY <1>2
<1>4. todo[1][1] = n /\ todo[1][2] = v
  BY <1>3
<1>5. /\ nvs \in [Setting -> Value] /\ refused \subseteq Setting
      /\ \/ nvs' = [nvs EXCEPT ![n] = v] /\ refused' = refused
         \/ nvs' = nvs /\ refused' = refused \cup {n}
  BY <1>1, <1>2, <1>4 DEF RequestTypeOK
<1>6. nvs' \in [Setting -> Value] /\ refused' \subseteq Setting
  BY <1>5
<1>7. RequestTypeOK'
  BY <1>1, <1>2, <1>6 DEF RequestTypeOK
<1>8. WholeFlow' /\ CutFlow' /\ (httpd \in Active => request \in Bodies)'
  BY <1>1 DEF ServerInv, WholeFlow, CutFlow
<1>9. AllHeld'
  BY <1>1 DEF AllHeld
<1>10. NothingLost'
  <2>1. SUFFICES ASSUME request.shape = "whole", NEW i \in 1..Len(S)
                 PROVE  /\ \/ S[i] \in refused' \/ nvs'[S[i]] = request.value
                           \/ \E j \in 1..Len(todo') : todo'[j] = <<S[i], request.value>>
                        /\ \A j \in 1..Len(todo') : todo'[j][1] = S[i] => todo'[j][2] = request.value
    BY <1>1 DEF NothingLost, Holds, Waits
  <2>2. request.endpoint \in Endpoints
    BY <1>1, BodiesAssumption DEF Body
  <2>3. S[i] \in Setting
    BY <2>2, SettingTyped
  <2>4. /\ \/ S[i] \in refused \/ nvs[S[i]] = request.value
           \/ \E j \in 1..Len(todo) : todo[j] = <<S[i], request.value>>
        /\ \A j \in 1..Len(todo) : todo[j][1] = S[i] => todo[j][2] = request.value
    BY <1>1, <2>1, Zenon DEF ServerInv, NothingLost, Holds, Waits
  <2> HIDE DEF S
  <2>5. \A j \in 1..Len(todo') : todo'[j] = todo[j + 1] /\ j + 1 \in 1..Len(todo)
    BY <1>2
  <2>6. \A j \in 1..Len(todo') : todo'[j][1] = S[i] => todo'[j][2] = request.value
    BY <2>4, <2>5
  <2>7. CASE n = S[i]
    <3>1. v = request.value
      BY <1>2, <1>4, <2>4, <2>7
    <3>2. S[i] \in refused' \/ nvs'[S[i]] = request.value
      BY <1>5, <2>3, <2>7, <3>1
    <3> QED
      BY <2>6, <3>2
  <2>8. CASE n # S[i]
    <3>1. nvs'[S[i]] = nvs[S[i]] /\ (S[i] \in refused' <=> S[i] \in refused)
      BY <1>5, <2>3, <2>8
    <3>2. ASSUME NEW j \in 1..Len(todo), todo[j] = <<S[i], request.value>>
          PROVE  \E k \in 1..Len(todo') : todo'[k] = <<S[i], request.value>>
      <4>1. todo[j][1] = S[i]
        BY <3>2
      <4>2. j # 1
        BY <1>4, <2>8, <4>1
      <4>3. j - 1 \in 1..Len(todo') /\ todo'[j - 1] = todo[j]
        BY <1>2, <4>2
      <4> QED
        BY <3>2, <4>3
    <3> QED
      BY <2>4, <2>6, <3>1, <3>2
  <2> QED
    BY <2>7, <2>8
<1> QED
  BY <1>7, <1>8, <1>9, <1>10 DEF ServerInv

LEMMA StoredKeeps ==
  ASSUME ServerInv, Stored
  PROVE  ServerInv'
<1>1. /\ httpd = "store" /\ request \in Bodies /\ RequestTypeOK /\ todo = <<>>
      /\ answer' = "saved" /\ NextRound
      /\ UNCHANGED <<nvs, refused, request, coming, gone, piece, stale, todo>>
  BY DEF ServerInv, Stored, Active
<1>2. RequestTypeOK'
  BY <1>1 DEF RequestTypeOK, NextRound, HttpdPlace, AnswerText
<1>3. WholeFlow' /\ CutFlow'
  BY <1>1 DEF ServerInv, WholeFlow, CutFlow, NextRound
<1>4. AllHeld'
  <2>1. SUFFICES ASSUME httpd' = "answer" PROVE \A i \in 1..Len(Settings(request.endpoint)) : Holds(i)
    BY <1>1 DEF AllHeld, Holds
  <2>2. request.shape = "whole"
    BY <1>1, <2>1 DEF ServerInv, CutFlow, NextRound
  <2>3. Len(todo) = 0
    BY <1>1
  <2>4. \A i \in 1..Len(Settings(request.endpoint)) : ~ Waits(i)
    BY <2>3 DEF Waits
  <2> QED
    BY <1>1, <2>2, <2>4 DEF ServerInv, NothingLost
<1>5. NothingLost' /\ (httpd \in Active => request \in Bodies)'
  BY <1>1 DEF NothingLost, NextRound
<1> QED
  BY <1>2, <1>3, <1>4, <1>5 DEF ServerInv

LEMMA CommandKeeps ==
  ASSUME ServerInv, Command
  PROVE  ServerInv'
<1>1. /\ httpd = "store" /\ request \in Bodies /\ RequestTypeOK
      /\ \/ httpd' = "restart" /\ answer' = answer
         \/ answer' = "command" /\ NextRound
      /\ UNCHANGED <<nvs, refused, request, coming, gone, piece, stale, todo>>
  BY DEF ServerInv, Command, Active
<1>2. RequestTypeOK'
  BY <1>1 DEF RequestTypeOK, NextRound, HttpdPlace, AnswerText
<1>3. WholeFlow' /\ CutFlow'
  BY <1>1 DEF ServerInv, WholeFlow, CutFlow, NextRound
<1>4. AllHeld' /\ NothingLost' /\ (httpd \in Active => request \in Bodies)'
  BY <1>1 DEF AllHeld, NothingLost, NextRound
<1> QED
  BY <1>2, <1>3, <1>4 DEF ServerInv

(* Every step of the server's task keeps its invariant, and so does a      *)
(* reset.                                                                  *)
LEMMA RequestKeeps ==
  ASSUME ServerInv, RequestNext
  PROVE  ServerInv'
<1>1. CASE \E r \in Bodies : Accept(r)
  BY <1>1, AcceptKeeps
<1>2. CASE Receive
  BY <1>2, ReceiveKeeps
<1>3. CASE PeerLeaves
  <2>1. RequestTypeOK'
    BY <1>3 DEF ServerInv, PeerLeaves, RequestTypeOK
  <2>2. WholeFlow' /\ CutFlow' /\ NothingLost' /\ AllHeld' /\ (httpd \in Active => request \in Bodies)'
    BY <1>3 DEF ServerInv, PeerLeaves, WholeFlow, CutFlow, NothingLost, AllHeld
  <2> QED
    BY <2>1, <2>2 DEF ServerInv
<1>4. CASE ReceiveFails
  <2>1. gone' \in BOOLEAN
    BY <1>4, Zenon DEF ReceiveFails
  <2>2. coming' \in 0..2
    BY <1>4 DEF ReceiveFails
  <2> QED
    BY <1>4, <2>1, <2>2, IdleKeeps DEF ReceiveFails
<1>5. CASE Answer
  <2>1. gone' \in BOOLEAN
    BY <1>5 DEF Answer, ServerInv, RequestTypeOK
  <2> QED
    BY <1>5, <2>1, IdleKeeps DEF Answer
<1> QED
  BY <1>1, <1>2, <1>3, <1>4, <1>5, ParseKeeps, TokenRightKeeps, StoreKeeps, StoredKeeps, CommandKeeps
     DEF RequestNext, Serve, Peer

LEMMA ResetKeeps ==
  ASSUME ServerInv, RequestReset
  PROVE  ServerInv'
<1>1. <<>> \in Seq(Setting \X Value)
  OBVIOUS
<1>2. RequestTypeOK'
  <2>1. nvs' \in [Setting -> Value] /\ todo' \in Seq(Setting \X Value) /\ refused' \subseteq Setting
    BY <1>1 DEF ServerInv, RequestReset, RequestTypeOK
  <2>2. /\ httpd' \in HttpdPlace /\ answer' \in AnswerText /\ gone' \in BOOLEAN
        /\ request' \in Bodies \cup {NoBody} /\ piece' \in {"none", "body", "head", "rest"}
        /\ stale' \in Bodies \cup {Junk}
    BY Zenon DEF RequestReset, HttpdPlace, AnswerText
  <2>3. coming' \in 0..2
    BY DEF RequestReset
  <2> QED
    BY <2>1, <2>2, <2>3 DEF RequestTypeOK
<1>3. WholeFlow' /\ CutFlow' /\ NothingLost' /\ AllHeld' /\ (httpd \in Active => request \in Bodies)'
  BY DEF RequestReset, WholeFlow, CutFlow, NothingLost, AllHeld, Active, NoBody
<1> QED
  BY <1>2, <1>3 DEF ServerInv

LEMMA UnchangedKeeps ==
  ASSUME ServerInv, UNCHANGED requestVars
  PROVE  ServerInv'
<1>1. RequestTypeOK'
  BY DEF ServerInv, requestVars, RequestTypeOK
<1>2. WholeFlow' /\ CutFlow' /\ (httpd \in Active => request \in Bodies)'
  BY DEF ServerInv, requestVars, WholeFlow, CutFlow
<1>3. \A i : (Holds(i)' <=> Holds(i)) /\ (Waits(i)' <=> Waits(i))
  BY DEF requestVars, Holds, Waits
<1>4. NothingLost' /\ AllHeld'
  BY <1>3 DEF ServerInv, requestVars, NothingLost, AllHeld
<1> QED
  BY <1>1, <1>2, <1>4 DEF ServerInv

-----------------------------------------------------------------------------
(* The same in the composition.                                            *)
FaultOfRequest == fault = "request" => httpd = "fault"

ServerStepInv == ServerInv /\ FaultOfRequest

LEMMA OtherTaskKeeps ==
  ASSUME ServerInv, fault = "none", TransmitStep \/ Read \/ Copy
  PROVE  ServerStepInv'
<1>1. CASE \E b \in {web_buffer} \cup Strings : SensorRequest(b)
  <2>1. /\ httpd' = "sensor" /\ UNCHANGED <<nvs, refused, request, coming, gone, piece, stale, todo, answer, fault>>
    BY <1>1 DEF SensorRequest
  <2>2. RequestTypeOK
    BY DEF ServerInv
  <2>3. ServerInv'
    BY <2>1, <2>2, IdleKeeps DEF RequestTypeOK
  <2> QED
    BY <2>1, <2>3 DEF ServerStepInv, FaultOfRequest
<1>2. CASE CopyUsed /\ reader.who = "httpd"
  <2>1. /\ httpd' = "idle" /\ UNCHANGED <<nvs, refused, request, coming, gone, piece, stale, todo, answer, fault>>
    BY <1>2 DEF CopyUsed
  <2>2. RequestTypeOK
    BY DEF ServerInv
  <2>3. ServerInv'
    BY <2>1, <2>2, IdleKeeps DEF RequestTypeOK
  <2> QED
    BY <2>1, <2>3 DEF ServerStepInv, FaultOfRequest
<1>3. CASE UNCHANGED requestVars /\ fault' \in {"none", "copy"}
  BY <1>3, UnchangedKeeps DEF ServerStepInv, FaultOfRequest
<1>4. TransmitStep => UNCHANGED requestVars /\ fault' \in {"none", "copy"}
  BY DEF TransmitStep
<1>5. (\E who \in {"client", "button"} : OtherRead(who)) \/ SensorRequestTooEarly
        => UNCHANGED requestVars /\ fault' \in {"none", "copy"}
  BY DEF OtherRead, SensorRequestTooEarly
<1>6. CopyStep \/ CopyFaults \/ (CopyUsed /\ reader.who # "httpd")
        => UNCHANGED requestVars /\ fault' \in {"none", "copy"}
  BY DEF CopyStep, CopyFaults, CopyUsed, requestVars
<1> QED
  BY <1>1, <1>2, <1>3, <1>4, <1>5, <1>6 DEF Read, Copy

LEMMA ServerStepInvHolds == Spec => []ServerStepInv
<1>1. Init => ServerStepInv
  BY ServerInvInit DEF Init, ServerStepInv, FaultOfRequest
<1>2. ServerStepInv /\ [Next]_vars => ServerStepInv'
  <2> SUFFICES ASSUME ServerStepInv, [Next]_vars PROVE ServerStepInv'
    OBVIOUS
  <2>1. ServerInv
    BY DEF ServerStepInv
  <2>2. CASE fault = "none" /\ ConfigStep
    <3>1. RequestNext /\ fault' = IF httpd' = "fault" THEN "request" ELSE "none"
      BY <2>2 DEF ConfigStep
    <3> QED
      BY <2>1, <3>1, RequestKeeps DEF ServerStepInv, FaultOfRequest
  <2>3. CASE fault = "none" /\ (TransmitStep \/ Read \/ Copy)
    BY <2>1, <2>3, OtherTaskKeeps
  <2>4. CASE Reset
    <3>1. RequestReset /\ fault' = "none"
      BY <2>4 DEF Reset
    <3> QED
      BY <2>1, <3>1, ResetKeeps DEF ServerStepInv, FaultOfRequest
  <2>5. CASE UNCHANGED vars
    <3>1. UNCHANGED requestVars /\ UNCHANGED fault /\ UNCHANGED httpd
      BY <2>5 DEF vars, requestVars
    <3> QED
      BY <2>1, <3>1, UnchangedKeeps DEF ServerStepInv, FaultOfRequest
  <2> QED
    BY <2>2, <2>3, <2>4, <2>5 DEF Next
<1> QED
  BY <1>1, <1>2, PTL DEF Spec

(* "Data saved.." is only answered when every setting of the body that the *)
(* storage has not refused holds the value that the body gives it: for     *)
(* every list of keys, every set of bodies, every choice of endpoints and  *)
(* whatever the storage refuses (the loops of the configuration handlers). *)
THEOREM SavedAlwaysStored == Spec => []SavedMeansStored
<1>1. ServerStepInv => SavedMeansStored
  <2> SUFFICES ASSUME ServerStepInv, httpd = "answer", answer = "saved"
               PROVE  /\ request.kind = "good"
                      /\ \A i \in 1..Len(Settings(request.endpoint)) :
                           \/ Settings(request.endpoint)[i] \in refused
                           \/ nvs[Settings(request.endpoint)[i]] = request.value
    BY DEF SavedMeansStored
  <2>1. request.shape = "whole" /\ request.kind = "good"
    BY DEF ServerStepInv, ServerInv, CutFlow, WholeFlow
  <2> QED
    BY <2>1 DEF ServerStepInv, ServerInv, AllHeld, Holds
<1> QED
  BY <1>1, ServerStepInvHolds, PTL

(* A complete body that comes in one piece never resets the board and gets *)
(* the answer its token deserves, whatever stands behind it in the buffer. *)
THEOREM WholeAlwaysServed == Spec => []WholeIsServed
<1>1. ServerStepInv => WholeIsServed
  BY DEF ServerStepInv, ServerInv, FaultOfRequest, WholeFlow, WholeIsServed
<1> QED
  BY <1>1, ServerStepInvHolds, PTL

-----------------------------------------------------------------------------
(* The places of the entries in a text.                                    *)
LEMMA PlaceStep ==
  ASSUME NEW b, NEW k \in 1..KeyCount
  PROVE  /\ Place(b, 1) = 0
         /\ Place(b, k) \in Nat
         /\ Place(b, k + 1) = Place(b, k) + IF Shows(b, k) THEN 2 ELSE 0
<1>1. KeyCount \in Nat
  BY KeyCountAssumption
<1>2. Before(b, 1) = {}
  BY DEF Before
<1>3. IsFiniteSet(1..(k - 1))
  BY FS_Interval
<1>4. Before(b, k) \subseteq 1..(k - 1)
  BY DEF Before
<1>5. IsFiniteSet(Before(b, k)) /\ Cardinality(Before(b, k)) \in Nat
  BY <1>3, <1>4, FS_Subset, FS_CardinalityType
<1>6. Cardinality(Before(b, k + 1)) = Cardinality(Before(b, k)) + IF Shows(b, k) THEN 1 ELSE 0
  <2>1. CASE Shows(b, k)
    <3>1. Before(b, k + 1) = Before(b, k) \cup {k}
      BY <2>1 DEF Before
    <3>2. k \notin Before(b, k)
      BY <1>4
    <3> QED
      BY <1>5, <2>1, <3>1, <3>2, FS_AddElement
  <2>2. CASE ~ Shows(b, k)
    <3>1. Before(b, k + 1) = Before(b, k)
      BY <2>2 DEF Before
    <3> QED
      BY <1>5, <2>2, <3>1
  <2> QED
    BY <2>1, <2>2
<1>7. Place(b, 1) = 0
  BY <1>2, FS_EmptySet DEF Place
<1>8. Place(b, k) \in Nat
  BY <1>5 DEF Place
<1>9. Place(b, k + 1) = Place(b, k) + IF Shows(b, k) THEN 2 ELSE 0
  <2> DEFINE m == Cardinality(Before(b, k))
             n == Cardinality(Before(b, k + 1))
  <2>1. m \in Nat /\ n = m + IF Shows(b, k) THEN 1 ELSE 0
    BY <1>5, <1>6
  <2>2. Place(b, k) = 2 * m /\ Place(b, k + 1) = 2 * n
    BY DEF Place
  <2> HIDE DEF m, n
  <2> QED
    BY <2>1, <2>2
<1> QED
  BY <1>7, <1>8, <1>9

LEMMA PlaceRange ==
  ASSUME NEW b, NEW k \in 1..(KeyCount + 1)
  PROVE  /\ Place(b, k) \in 0..(2 * (k - 1))
         /\ b = "web" => Place(b, k) = 2 * (k - 1)
         /\ FullLength(b) \in 0..(2 * KeyCount)
         /\ Place(b, k) <= FullLength(b)
<1>1. KeyCount \in Nat
  BY KeyCountAssumption
<1>2. \A j \in 1..(KeyCount + 1) :
        /\ IsFiniteSet(1..(j - 1)) /\ Cardinality(1..(j - 1)) = j - 1
        /\ IsFiniteSet(Before(b, j)) /\ Cardinality(Before(b, j)) \in 0..(j - 1)
  <2> SUFFICES ASSUME NEW j \in 1..(KeyCount + 1)
               PROVE  /\ IsFiniteSet(1..(j - 1)) /\ Cardinality(1..(j - 1)) = j - 1
                      /\ IsFiniteSet(Before(b, j)) /\ Cardinality(Before(b, j)) \in 0..(j - 1)
    OBVIOUS
  <2>1. IsFiniteSet(1..(j - 1)) /\ Cardinality(1..(j - 1)) = j - 1
    BY <1>1, FS_Interval
  <2>2. Before(b, j) \subseteq 1..(j - 1)
    BY DEF Before
  <2>3. /\ IsFiniteSet(Before(b, j)) /\ Cardinality(Before(b, j)) \in Nat
        /\ Cardinality(Before(b, j)) <= Cardinality(1..(j - 1))
    BY <2>1, <2>2, FS_Subset, FS_CardinalityType
  <2> QED
    BY <1>1, <2>1, <2>3
<1>3. Place(b, k) \in 0..(2 * (k - 1))
  BY <1>1, <1>2 DEF Place
<1>4. FullLength(b) \in 0..(2 * KeyCount)
  BY <1>1, <1>2 DEF Place, FullLength
<1>5. b = "web" => Place(b, k) = 2 * (k - 1)
  <2> HAVE b = "web"
  <2>1. Before(b, k) = 1..(k - 1)
    BY DEF Before, Shows
  <2> QED
    BY <1>2, <2>1 DEF Place
<1>6. Place(b, k) <= FullLength(b)
  <2>1. Before(b, k) \subseteq Before(b, KeyCount + 1)
    BY <1>1 DEF Before
  <2>2. KeyCount + 1 \in 1..(KeyCount + 1)
    BY <1>1
  <2>3. Cardinality(Before(b, k)) <= Cardinality(Before(b, KeyCount + 1))
    BY <1>2, <2>1, <2>2, FS_Subset
  <2> QED
    BY <1>1, <1>2, <2>2, <2>3 DEF Place, FullLength
<1> QED
  BY <1>3, <1>4, <1>5, <1>6

LEMMA PlaceOrder ==
  ASSUME NEW b, NEW k \in 1..KeyCount, NEW j \in (k + 1)..(KeyCount + 1), Shows(b, k)
  PROVE  Place(b, k) + 2 <= Place(b, j)
<1>1. KeyCount \in Nat
  BY KeyCountAssumption
<1>2. k + 1 \in 1..(KeyCount + 1) /\ j \in 1..(KeyCount + 1)
  BY <1>1
<1>3. Place(b, k + 1) = Place(b, k) + 2 /\ Place(b, k) \in Nat
  BY PlaceStep
<1>4. Before(b, k + 1) \subseteq Before(b, j)
  BY <1>1 DEF Before
<1>5. IsFiniteSet(Before(b, j)) /\ Cardinality(Before(b, j)) \in Nat
  <2>1. IsFiniteSet(1..(j - 1)) /\ Before(b, j) \subseteq 1..(j - 1)
    BY <1>1, FS_Interval DEF Before
  <2> QED
    BY <2>1, FS_Subset, FS_CardinalityType
<1>6. /\ Cardinality(Before(b, k + 1)) \in Nat
      /\ Cardinality(Before(b, k + 1)) <= Cardinality(Before(b, j))
  BY <1>4, <1>5, FS_Subset, FS_CardinalityType
<1> QED
  BY <1>3, <1>5, <1>6 DEF Place

-----------------------------------------------------------------------------
(* Texts: n cells that are written, and an end behind them.                *)
Proper(t, n) ==
  /\ n \in 0..(2 * KeyCount)
  /\ t[n + 1] = End
  /\ \A i \in 1..n : t[i] \notin {End, Wild}

LEMMA LengthIs ==
  ASSUME NEW t, NEW n, Proper(t, n)
  PROVE  Ended(t) /\ Length(t) = n
<1>1. KeyCount \in Nat
  BY KeyCountAssumption
<1>2. n \in 0..(2 * KeyCount) /\ t[n + 1] = End /\ \A i \in 1..n : t[i] # End
  BY DEF Proper
<1>3. Ended(t)
  BY <1>1, <1>2 DEF Ended, Pos
<1>4. \A m \in 0..(2 * KeyCount) : (t[m + 1] = End /\ \A i \in 1..m : t[i] # End) => m = n
  BY <1>1, <1>2
<1>5. Length(t) = n
  BY <1>2, <1>4 DEF Length
<1> QED
  BY <1>3, <1>5

LEMMA Ends ==
  /\ Cell(0, 0, 0) \in Cells /\ End \in Cells /\ Wild \in Cells /\ End # Wild
  /\ \A k \in KeyNo, p \in 1..2, d \in Data :
       Cell(k, p, d) \in Cells /\ Cell(k, p, d) \notin {End, Wild}
  BY DEF Cell, Cells, End, Wild, KeyNo, Data

LEMMA ValueTyped == \A p \in ReadPort : ValueAt(p) \in Data
  BY DEF ValueAt, Data

LEMMA AppendedIs ==
  ASSUME NEW t, NEW n, Proper(t, n), NEW c, NEW m \in Nat, Len(c) = m, n + m \in 0..(2 * KeyCount),
         NEW r, r = Appended(t, c)
  PROVE  /\ \A i \in 1..n : r[i] = t[i]
         /\ \A i \in 1..m : r[n + i] = c[i]
         /\ r[n + m + 1] = End
         /\ \A i \in Pos : i > n + m + 1 => r[i] = t[i]
         /\ (\A i \in 1..m : c[i] \notin {End, Wild}) => Proper(r, n + m)
         /\ (t \in [Pos -> Cells] /\ \A i \in 1..m : c[i] \in Cells) => r \in [Pos -> Cells]
<1>1. KeyCount \in Nat /\ n \in 0..(2 * KeyCount)
  BY KeyCountAssumption DEF Proper
<1>2. Length(t) = n
  BY LengthIs
<1>3. r = [i \in Pos |-> CASE i - n \in 1..m -> c[i - n] [] i = n + m + 1 -> End [] OTHER -> t[i]]
  BY <1>2 DEF Appended
<1>4. ASSUME NEW i \in Pos
      PROVE  /\ i - n \in 1..m => r[i] = c[i - n]
             /\ i = n + m + 1 => r[i] = End
             /\ (i - n \notin 1..m /\ i # n + m + 1) => r[i] = t[i]
  <2>1. r[i] = CASE i - n \in 1..m -> c[i - n] [] i = n + m + 1 -> End [] OTHER -> t[i]
    BY <1>3
  <2>2. ~ (i - n \in 1..m /\ i = n + m + 1)
    BY <1>1 DEF Pos
  <2> QED
    BY <2>1, <2>2
<1>5. \A i \in 1..n : r[i] = t[i]
  BY <1>1, <1>4 DEF Pos
<1>6. \A i \in 1..m : r[n + i] = c[i]
  <2> TAKE i \in 1..m
  <2>1. n + i \in Pos /\ (n + i) - n = i
    BY <1>1 DEF Pos
  <2> QED
    BY <1>4, <2>1
<1>7. r[n + m + 1] = End
  BY <1>1, <1>4 DEF Pos
<1>8. \A i \in Pos : i > n + m + 1 => r[i] = t[i]
  BY <1>1, <1>4 DEF Pos
<1>9. (\A i \in 1..m : c[i] \notin {End, Wild}) => Proper(r, n + m)
  <2> SUFFICES ASSUME \A i \in 1..m : c[i] \notin {End, Wild}
               PROVE  \A i \in 1..(n + m) : r[i] \notin {End, Wild}
    BY <1>7 DEF Proper
  <2> TAKE i \in 1..(n + m)
  <2>1. CASE i <= n
    BY <1>1, <1>5, <2>1 DEF Proper
  <2>2. CASE i > n
    <3>1. i - n \in 1..m /\ n + (i - n) = i
      BY <1>1, <2>2
    <3> QED
      BY <1>6, <3>1
  <2> QED
    BY <1>1, <2>1, <2>2
<1>10. (t \in [Pos -> Cells] /\ \A i \in 1..m : c[i] \in Cells) => r \in [Pos -> Cells]
  <2> SUFFICES ASSUME t \in [Pos -> Cells], \A i \in 1..m : c[i] \in Cells, NEW i \in Pos
               PROVE  r[i] \in Cells
    BY <1>3
  <2> QED
    BY <1>4, Ends
<1> QED
  BY <1>5, <1>6, <1>7, <1>8, <1>9, <1>10

LEMMA ClearedIs ==
  ASSUME NEW t \in [Pos -> Cells]
  PROVE  /\ Cleared(t) \in [Pos -> Cells] /\ Proper(Cleared(t), 0)
         /\ \A i \in Pos : Cleared(t)[i] \in {t[i], End}
<1>1. 1 \in Pos
  BY KeyCountAssumption DEF Pos
<1>2. Cleared(t) = [t EXCEPT ![1] = End] /\ End \in Cells
  BY Ends DEF Cleared
<1>3. Cleared(t)[1] = End
  BY <1>1, <1>2
<1>4. Proper(Cleared(t), 0)
  BY <1>3, KeyCountAssumption DEF Proper
<1> QED
  BY <1>2, <1>4

-----------------------------------------------------------------------------
(* A text whose written cells, the ones behind its end too, are where they *)
(* belong, and whose values follow their keys.                             *)
InPlace(b, t) ==
  \A i \in Pos : t[i] \notin {End, Wild} =>
    /\ t[i].key \in KeyNo /\ Shows(b, t[i].key)
    /\ t[i].part \in 1..2 /\ i = Place(b, t[i].key) + t[i].part

Paired(t, n) ==
  \A i \in 1..n : t[i].part = 2 => i > 1 /\ Belongs(t[i], t[i - 1])

(* The m cells of c may follow n cells of t.                               *)
Fits(b, t, n, c, m) ==
  /\ m \in 1..2 /\ Len(c) = m /\ n + m \in 0..(2 * KeyCount)
  /\ \A i \in 1..m : /\ c[i] \in Cells \ {End, Wild}
                     /\ c[i].key \in KeyNo /\ Shows(b, c[i].key)
                     /\ c[i].part \in 1..2 /\ n + i = Place(b, c[i].key) + c[i].part
  /\ c[1].part = 2 => n > 0 /\ Belongs(c[1], t[n])
  /\ m = 2 => Belongs(c[2], c[1])

LEMMA Extended ==
  ASSUME NEW b, NEW t \in [Pos -> Cells], NEW n, Proper(t, n), InPlace(b, t), Paired(t, n),
         NEW c, NEW m, Fits(b, t, n, c, m), NEW r, r = Appended(t, c)
  PROVE  /\ r \in [Pos -> Cells] /\ Proper(r, n + m) /\ InPlace(b, r) /\ Paired(r, n + m)
         /\ \A i \in 1..n : r[i] = t[i]
         /\ \A i \in 1..m : r[n + i] = c[i]
<1> USE DEF Fits
<1>1. KeyCount \in Nat /\ n \in 0..(2 * KeyCount) /\ m \in Nat /\ m \in 1..2
  BY KeyCountAssumption DEF Proper
<1>2. /\ \A i \in 1..n : r[i] = t[i]
      /\ \A i \in 1..m : r[n + i] = c[i]
      /\ r[n + m + 1] = End
      /\ \A i \in Pos : i > n + m + 1 => r[i] = t[i]
      /\ Proper(r, n + m) /\ r \in [Pos -> Cells]
  <2>1. \A i \in 1..m : c[i] \in Cells /\ c[i] \notin {End, Wild}
    OBVIOUS
  <2>2. m \in Nat /\ Len(c) = m /\ n + m \in 0..(2 * KeyCount)
    BY <1>1
  <2> QED
    BY <2>1, <2>2, AppendedIs
<1>3. InPlace(b, r)
  <2> SUFFICES ASSUME NEW i \in Pos, r[i] \notin {End, Wild}
               PROVE  /\ r[i].key \in KeyNo /\ Shows(b, r[i].key)
                      /\ r[i].part \in 1..2 /\ i = Place(b, r[i].key) + r[i].part
    BY DEF InPlace
  <2>1. CASE i \in 1..n \/ i > n + m + 1
    <3>1. r[i] = t[i]
      BY <1>2, <2>1
    <3> QED
      BY <3>1 DEF InPlace
  <2>2. CASE i \in (n + 1)..(n + m)
    <3>1. i - n \in 1..m /\ n + (i - n) = i
      BY <1>1, <2>2
    <3>2. r[i] = c[i - n]
      BY <1>2, <3>1
    <3> QED
      BY <3>1, <3>2
  <2>3. i # n + m + 1
    BY <1>2
  <2> QED
    BY <1>1, <2>1, <2>2, <2>3 DEF Pos
<1>4. Paired(r, n + m)
  <2> SUFFICES ASSUME NEW i \in 1..(n + m), r[i].part = 2
               PROVE  i > 1 /\ Belongs(r[i], r[i - 1])
    BY DEF Paired
  <2>1. CASE i \in 1..n
    <3>1. r[i] = t[i] /\ i > 1 /\ Belongs(t[i], t[i - 1])
      BY <1>2, <2>1 DEF Paired
    <3>2. i - 1 \in 1..n
      BY <1>1, <2>1, <3>1
    <3> QED
      BY <1>2, <3>1, <3>2
  <2>2. CASE i = n + 1
    <3>1. r[i] = c[1] /\ n > 0 /\ Belongs(c[1], t[n])
      BY <1>2, <2>2
    <3>2. i > 1 /\ i - 1 = n /\ n \in 1..n
      BY <1>1, <2>2, <3>1
    <3> QED
      BY <1>2, <3>1, <3>2
  <2>3. CASE i = n + 2
    <3>1. m = 2
      BY <1>1, <2>3
    <3>2. r[n + 1] = c[1] /\ r[n + 2] = c[2]
      BY <1>2, <3>1
    <3>3. i > 1 /\ i - 1 = n + 1
      BY <1>1, <2>3
    <3> QED
      BY <2>3, <3>1, <3>2, <3>3
  <2> QED
    BY <1>1, <2>1, <2>2, <2>3
<1> QED
  BY <1>2, <1>3, <1>4

LEMMA ClearedKeeps ==
  ASSUME NEW b, NEW t \in [Pos -> Cells], InPlace(b, t)
  PROVE  /\ Cleared(t) \in [Pos -> Cells] /\ Proper(Cleared(t), 0)
         /\ InPlace(b, Cleared(t)) /\ Paired(Cleared(t), 0)
<1>1. /\ Cleared(t) \in [Pos -> Cells] /\ Proper(Cleared(t), 0)
      /\ \A i \in Pos : Cleared(t)[i] \in {t[i], End}
  BY ClearedIs
<1>2. InPlace(b, Cleared(t))
  <2> DEFINE new == Cleared(t)
  <2>1. \A i \in Pos : new[i] \in {t[i], End}
    BY <1>1
  <2> HIDE DEF new
  <2>2. InPlace(b, new)
    BY <2>1 DEF InPlace
  <2> QED
    BY <2>2 DEF new
<1> QED
  BY <1>1, <1>2 DEF Paired

-----------------------------------------------------------------------------
(* The invariant of the texts: how long each of them is at every place of  *)
(* the transmission task.                                                  *)
FrameType ==
  /\ tx \in {"boot", "allocated", "wait", "compose", "distribute"}
  /\ entry \in 1..(KeyCount + 1)
  /\ part \in 1..2
  /\ port \in {0} \cup ReadPort
  /\ text \in [Buffer -> [Pos -> Cells]]

TextAt(b, n) == Proper(text[b], n) /\ Paired(text[b], n)

Matches(b, e) ==
  \A k \in 1..(e - 1) : Shows(b, k) =>
    \A p \in 1..2 : text[b][Place(b, k) + p] = text["web"][Place("web", k) + p]

Composing ==
  tx = "compose" =>
    /\ TextAt("web", 2 * (entry - 1) + (part - 1))
    /\ part = 2 => port \in ReadPort /\ text["web"][2 * entry - 1] = Cell(entry, 1, port)

Distributing ==
  tx = "distribute" =>
    /\ TextAt("web", 2 * KeyCount)
    /\ \A b \in Strings : TextAt(b, Place(b, entry)) /\ Matches(b, entry)

Waiting ==
  tx = "wait" =>
    \/ TextAt("web", 0)
    \/ /\ TextAt("web", 2 * KeyCount)
       /\ \A b \in Strings : TextAt(b, FullLength(b)) /\ Matches(b, KeyCount + 1)

Settled == tx # "distribute" => \A b \in Strings : TextAt(b, 0) \/ TextAt(b, FullLength(b))

Unwritten == tx \in {"boot", "allocated"} => \A i \in Pos : text["web"][i] = Wild

TextInv ==
  /\ FrameType
  /\ Unwritten
  /\ \A b \in Buffer : InPlace(b, text[b])
  /\ TextAt("literal", 0)
  /\ Composing
  /\ Distributing
  /\ Waiting
  /\ Settled

LEMMA Buffers ==
  /\ "literal" \in Buffer /\ "web" \in Buffer /\ Strings \subseteq Buffer
  /\ "literal" \notin Strings /\ "web" \notin Strings /\ "none" \notin Buffer
  /\ \A k \in KeyNo : Group[k] # "none" => Group[k] \in Strings
<1>1. \A k \in KeyNo : Group[k] # "literal" /\ Group[k] # "web"
  BY GroupAssumption DEF KeyNo
<1>2. "none" # "literal" /\ "none" # "web"
  OBVIOUS
<1>3. \A k \in KeyNo : Group[k] # "none" => Group[k] \in Strings
  BY Zenon DEF Strings
<1>4. "literal" \notin Strings /\ "web" \notin Strings /\ "none" \notin Strings
  BY <1>1 DEF Strings
<1> QED
  BY <1>2, <1>3, <1>4 DEF Buffer

LEMMA OneText ==
  ASSUME text \in [Buffer -> [Pos -> Cells]], NEW b \in Buffer, NEW r \in [Pos -> Cells],
         text' = [text EXCEPT ![b] = r]
  PROVE  /\ text' \in [Buffer -> [Pos -> Cells]] /\ text'[b] = r
         /\ \A c \in Buffer \ {b} : text'[c] = text[c]
  OBVIOUS

LEMMA BootTexts ==
  ASSUME NEW T, T = BootText
  PROVE  /\ T \in [Buffer -> [Pos -> Cells]]
         /\ \A b \in Buffer : InPlace(b, T[b])
         /\ \A i \in Pos : T["web"][i] = Wild
         /\ \A b \in Buffer \ {"web"} : Proper(T[b], 0) /\ Paired(T[b], 0)
<1>1. \A b \in Buffer : T[b] = [i \in Pos |-> IF b = "web" THEN Wild ELSE End]
  BY DEF BootText
<1>2. T \in [Buffer -> [Pos -> Cells]]
  BY Ends DEF BootText
<1>3. \A b \in Buffer : InPlace(b, T[b])
  BY <1>1 DEF InPlace
<1>4. 1 \in Pos /\ 0 \in 0..(2 * KeyCount)
  BY KeyCountAssumption DEF Pos
<1>5. \A b \in Buffer \ {"web"} : Proper(T[b], 0) /\ Paired(T[b], 0)
  <2> SUFFICES ASSUME NEW b \in Buffer \ {"web"} PROVE Proper(T[b], 0) /\ Paired(T[b], 0)
    OBVIOUS
  <2>1. T[b] = [i \in Pos |-> End]
    BY <1>1
  <2>2. T[b][0 + 1] = End
    BY <1>4, <2>1
  <2> QED
    BY <1>4, <2>2 DEF Proper, Paired
<1>6. \A i \in Pos : T["web"][i] = Wild
  BY <1>1, Buffers
<1> QED
  BY <1>2, <1>3, <1>5, <1>6

LEMMA TextInvInit == FrameInit => TextInv
<1> SUFFICES ASSUME FrameInit PROVE TextInv
  OBVIOUS
<1>1. /\ text \in [Buffer -> [Pos -> Cells]] /\ \A b \in Buffer : InPlace(b, text[b])
      /\ \A b \in Buffer \ {"web"} : TextAt(b, 0)
      /\ Unwritten
  BY BootTexts DEF FrameInit, TextAt, Unwritten
<1>2. FrameType
  BY <1>1, KeyCountAssumption DEF FrameInit, FrameType
<1> QED
  BY <1>1, <1>2, Buffers DEF FrameInit, TextInv, Composing, Distributing, Waiting, Settled

LEMMA TextInvReset ==
  ASSUME FrameReset
  PROVE  TextInv'
<1>1. /\ text' \in [Buffer -> [Pos -> Cells]] /\ \A b \in Buffer : InPlace(b, text'[b])
      /\ \A b \in Buffer \ {"web"} : TextAt(b, 0)'
      /\ Unwritten'
  BY BootTexts DEF FrameReset, TextAt, Unwritten
<1>2. FrameType'
  BY <1>1, KeyCountAssumption DEF FrameReset, FrameType
<1>3. Composing' /\ Distributing' /\ Waiting' /\ Settled'
  BY <1>1, Buffers DEF FrameReset, Composing, Distributing, Waiting, Settled
<1> QED
  BY <1>1, <1>2, <1>3, Buffers DEF TextInv

(* What a step that changes web_buffer only has to show.                   *)
LEMMA WebChanges ==
  ASSUME TextInv, NEW r \in [Pos -> Cells], text' = [text EXCEPT !["web"] = r], InPlace("web", r),
         tx # "distribute", tx' \in {"wait", "compose"}, entry' \in 1..(KeyCount + 1),
         part' \in 1..2, port' \in {0} \cup ReadPort,
         Composing', tx' = "wait" => Proper(r, 0) /\ Paired(r, 0)
  PROVE  TextInv'
<1>1. /\ text \in [Buffer -> [Pos -> Cells]]
      /\ \A b \in Buffer : InPlace(b, text[b])
  BY DEF TextInv, FrameType
<1>2. /\ text' \in [Buffer -> [Pos -> Cells]] /\ text'["web"] = r
      /\ \A c \in Buffer \ {"web"} : text'[c] = text[c]
  BY <1>1, Buffers, OneText
<1>3. FrameType'
  BY <1>2 DEF FrameType
<1>4. \A b \in Buffer : InPlace(b, text'[b])
  BY <1>1, <1>2
<1>5. TextAt("literal", 0)' /\ Settled'
  BY <1>2, Buffers DEF TextInv, TextAt, Settled
<1>6. Distributing' /\ Waiting' /\ Unwritten'
  BY <1>2 DEF Distributing, Waiting, TextAt, Unwritten
<1> QED
  BY <1>3, <1>4, <1>5, <1>6 DEF TextInv

LEMMA ClearKeeps ==
  ASSUME TextInv, FirstClear \/ NewFrame
  PROVE  TextInv'
<1> DEFINE r == Cleared(text["web"])
<1>1. text["web"] \in [Pos -> Cells] /\ InPlace("web", text["web"])
  BY Buffers DEF TextInv, FrameType
<1>2. r \in [Pos -> Cells] /\ Proper(r, 0) /\ InPlace("web", r) /\ Paired(r, 0)
  BY <1>1, ClearedKeeps
<1>3. text' = [text EXCEPT !["web"] = r]
  BY DEF FirstClear, NewFrame, Write
<1> HIDE DEF r
<1>4. text'["web"] = r
  BY <1>2, <1>3, Buffers, OneText DEF TextInv, FrameType
<1>5. CASE FirstClear
  <2>1. tx = "allocated" /\ tx' = "wait" /\ UNCHANGED <<entry, part, port>>
    BY <1>5 DEF FirstClear
  <2>2. Composing'
    BY <2>1 DEF Composing
  <2> QED
    BY <1>2, <1>3, <2>1, <2>2, WebChanges DEF TextInv, FrameType
<1>6. CASE NewFrame
  <2>1. tx = "wait" /\ tx' = "compose" /\ entry' = 1 /\ part' = 1 /\ port' = port
    BY <1>6 DEF NewFrame
  <2>2. 2 * (entry' - 1) + (part' - 1) = 0
    BY <2>1
  <2>3. Composing'
    BY <1>2, <1>4, <2>1, <2>2 DEF Composing, TextAt
  <2>4. entry' \in 1..(KeyCount + 1) /\ part' \in 1..2 /\ port' \in {0} \cup ReadPort
    BY <2>1, KeyCountAssumption DEF TextInv, FrameType
  <2> QED
    BY <1>2, <1>3, <2>1, <2>3, <2>4, WebChanges
<1> QED
  BY <1>5, <1>6

LEMMA AddKeyKeeps ==
  ASSUME TextInv, NEW portOf, \A k \in KeyNo : portOf[k] \in Port, AddKey(portOf)
  PROVE  TextInv'
<1>1. /\ tx = "compose" /\ tx' = tx /\ entry \in KeyNo /\ entry' = entry /\ part = 1 /\ part' = 2
      /\ port' \in {portOf[entry], Unread} /\ KeyCount \in Nat
  BY KeyCountAssumption DEF AddKey, KeyNo, TextInv, FrameType
<1>2. port' \in ReadPort /\ port' \in Data
  BY <1>1 DEF ReadPort, Data
<1>3. /\ text["web"] \in [Pos -> Cells] /\ InPlace("web", text["web"])
      /\ TextAt("web", 2 * (entry - 1) + (part - 1))
  BY <1>1, Buffers DEF TextInv, FrameType, Composing
<1> DEFINE n == 2 * (entry - 1)
           c == <<Cell(entry, 1, port')>>
           r == Appended(text["web"], c)
<1>4. 2 * (entry - 1) + (part - 1) = n /\ n + 1 = 2 * entry - 1 /\ n + 1 \in 0..(2 * KeyCount)
  BY <1>1 DEF KeyNo
<1>5. Proper(text["web"], n) /\ Paired(text["web"], n)
  BY <1>3, <1>4 DEF TextAt
<1>6. Len(c) = 1 /\ c[1] = Cell(entry, 1, port')
  OBVIOUS
<1>7. /\ c[1] \in Cells \ {End, Wild} /\ c[1].key = entry /\ c[1].part = 1
      /\ Shows("web", entry) /\ Place("web", entry) = n
  <2>1. c[1] \in Cells \ {End, Wild}
    BY <1>1, <1>2, <1>6, Ends
  <2>2. c[1].key = entry /\ c[1].part = 1
    BY <1>6 DEF Cell
  <2>3. entry \in 1..(KeyCount + 1)
    BY <1>1 DEF KeyNo
  <2>4. Place("web", entry) = n
    BY <2>3, PlaceRange
  <2> QED
    BY <2>1, <2>2, <2>4 DEF Shows
<1>8. text' = [text EXCEPT !["web"] = r]
  BY <1>1 DEF AddKey, Write
<1>9. r = Appended(text["web"], c)
  OBVIOUS
<1> HIDE DEF r, c, n
<1>10. /\ r \in [Pos -> Cells] /\ Proper(r, n + 1) /\ InPlace("web", r) /\ Paired(r, n + 1)
       /\ r[n + 1] = c[1]
  <2>1. 1 \in 1..2 /\ \A i \in 1..1 : i = 1
    OBVIOUS
  <2>2. \A i \in 1..1 : /\ c[i] \in Cells \ {End, Wild}
                         /\ c[i].key \in KeyNo /\ Shows("web", c[i].key)
                         /\ c[i].part \in 1..2 /\ n + i = Place("web", c[i].key) + c[i].part
    BY <1>1, <1>7, <2>1
  <2>3. 1 = 2 => Belongs(c[2], c[1])
    OBVIOUS
  <2>4. c[1].part = 2 => n > 0 /\ Belongs(c[1], text["web"][n])
    BY <1>7
  <2>5. Fits("web", text["web"], n, c, 1)
    BY <1>4, <1>6, <2>1, <2>2, <2>3, <2>4 DEF Fits
  <2> QED
    BY <1>3, <1>5, <1>9, <2>1, <2>5, Extended
<1>11. text'["web"] = r
  BY <1>8, <1>10, Buffers, OneText DEF TextInv, FrameType
<1>12. Composing'
  <2>1. 2 * (entry' - 1) + (part' - 1) = n + 1
    BY <1>1, <1>4 DEF KeyNo
  <2>2. /\ Proper(text'["web"], 2 * (entry' - 1) + (part' - 1))
        /\ Paired(text'["web"], 2 * (entry' - 1) + (part' - 1))
    BY <1>10, <1>11, <2>1
  <2>3. port' \in ReadPort /\ text'["web"][2 * entry' - 1] = Cell(entry', 1, port')
    BY <1>1, <1>2, <1>4, <1>6, <1>10, <1>11
  <2> QED
    BY <2>2, <2>3 DEF Composing, TextAt
<1>13. entry' \in 1..(KeyCount + 1) /\ part' \in 1..2
  BY <1>1 DEF KeyNo
<1> QED
  BY <1>1, <1>2, <1>8, <1>10, <1>12, <1>13, WebChanges

LEMMA AddValueKeeps ==
  ASSUME TextInv, NEW portOf, AddValue(portOf)
  PROVE  TextInv'
<1>1. /\ tx = "compose" /\ tx' = tx /\ entry \in KeyNo /\ entry' = entry + 1 /\ part = 2 /\ part' = 1
      /\ port' = 0 /\ KeyCount \in Nat
  BY KeyCountAssumption DEF AddValue, KeyNo, TextInv, FrameType
<1>2. /\ port \in ReadPort /\ text["web"][2 * entry - 1] = Cell(entry, 1, port)
      /\ ValueAt(port) \in Data
  <2>1. port \in ReadPort /\ text["web"][2 * entry - 1] = Cell(entry, 1, port)
    BY <1>1 DEF TextInv, Composing
  <2> QED
    BY <2>1, ValueTyped
<1>3. /\ text["web"] \in [Pos -> Cells] /\ InPlace("web", text["web"])
      /\ TextAt("web", 2 * (entry - 1) + (part - 1))
  BY <1>1, Buffers DEF TextInv, FrameType, Composing
<1> DEFINE n == 2 * entry - 1
           c == <<Cell(entry, 2, ValueAt(port))>>
           r == Appended(text["web"], c)
<1>4. 2 * (entry - 1) + (part - 1) = n /\ n + 1 = 2 * entry /\ n + 1 \in 0..(2 * KeyCount) /\ n > 0
  BY <1>1 DEF KeyNo
<1>5. Proper(text["web"], n) /\ Paired(text["web"], n)
  BY <1>3, <1>4 DEF TextAt
<1>6. Len(c) = 1 /\ c[1] = Cell(entry, 2, ValueAt(port))
  OBVIOUS
<1>7. /\ c[1] \in Cells \ {End, Wild} /\ c[1].key = entry /\ c[1].part = 2
      /\ Shows("web", entry) /\ Place("web", entry) + 2 = n + 1
      /\ Belongs(c[1], text["web"][n])
  <2>1. c[1] \in Cells \ {End, Wild}
    BY <1>1, <1>2, <1>6, Ends
  <2>2. c[1].key = entry /\ c[1].part = 2 /\ Belongs(c[1], Cell(entry, 1, port))
    BY <1>2, <1>6 DEF Cell, Belongs
  <2>3. entry \in 1..(KeyCount + 1)
    BY <1>1 DEF KeyNo
  <2>4. Place("web", entry) = 2 * (entry - 1)
    BY <2>3, PlaceRange
  <2>5. Place("web", entry) + 2 = n + 1
    BY <1>1, <2>4 DEF KeyNo
  <2> QED
    BY <1>2, <2>1, <2>2, <2>5 DEF Shows
<1>8. text' = [text EXCEPT !["web"] = r]
  BY <1>1 DEF AddValue, Write
<1>9. r = Appended(text["web"], c)
  OBVIOUS
<1> HIDE DEF r, c, n
<1>10. /\ r \in [Pos -> Cells] /\ Proper(r, n + 1) /\ InPlace("web", r) /\ Paired(r, n + 1)
  <2>1. 1 \in 1..2 /\ \A i \in 1..1 : i = 1
    OBVIOUS
  <2>2. \A i \in 1..1 : /\ c[i] \in Cells \ {End, Wild}
                         /\ c[i].key \in KeyNo /\ Shows("web", c[i].key)
                         /\ c[i].part \in 1..2 /\ n + i = Place("web", c[i].key) + c[i].part
    BY <1>1, <1>7, <2>1
  <2>3. 1 = 2 => Belongs(c[2], c[1])
    OBVIOUS
  <2>4. c[1].part = 2 => n > 0 /\ Belongs(c[1], text["web"][n])
    BY <1>4, <1>7
  <2>5. Fits("web", text["web"], n, c, 1)
    BY <1>4, <1>6, <2>1, <2>2, <2>3, <2>4 DEF Fits
  <2> QED
    BY <1>3, <1>5, <1>9, <2>1, <2>5, Extended
<1>11. text'["web"] = r
  BY <1>8, <1>10, Buffers, OneText DEF TextInv, FrameType
<1>12. Composing'
  <2>1. 2 * (entry' - 1) + (part' - 1) = n + 1
    BY <1>1, <1>4 DEF KeyNo
  <2>2. /\ Proper(text'["web"], 2 * (entry' - 1) + (part' - 1))
        /\ Paired(text'["web"], 2 * (entry' - 1) + (part' - 1))
    BY <1>10, <1>11, <2>1
  <2> QED
    BY <1>1, <2>2 DEF Composing, TextAt
<1>13. entry' \in 1..(KeyCount + 1) /\ part' \in 1..2 /\ port' \in {0} \cup ReadPort
  BY <1>1 DEF KeyNo
<1> QED
  BY <1>1, <1>8, <1>10, <1>12, <1>13, WebChanges

LEMMA TextUnchanged ==
  ASSUME TextInv, UNCHANGED <<tx, entry, part, port, text>>
  PROVE  TextInv'
<1>1. FrameType' /\ Unwritten' /\ (\A b \in Buffer : InPlace(b, text[b]))'
  BY DEF TextInv, FrameType, Unwritten
<1>2. TextAt("literal", 0)' /\ Composing' /\ Settled'
  BY DEF TextInv, TextAt, Composing, Settled
<1>3. Distributing' /\ Waiting'
  BY DEF TextInv, Distributing, Waiting, TextAt, Matches
<1> QED
  BY <1>1, <1>2, <1>3 DEF TextInv

LEMMA AskLengthKeeps ==
  ASSUME TextInv, NEW portOf, AskLength(portOf)
  PROVE  TextInv'
<1>1. UNCHANGED <<tx, entry, part, port, text>>
  BY DEF AskLength
<1> QED
  BY <1>1, TextUnchanged

LEMMA AllocateKeeps ==
  ASSUME TextInv, Allocate
  PROVE  TextInv'
<1>1. /\ tx = "boot" /\ tx' = "allocated" /\ entry' = entry /\ part' = part /\ port' = port
      /\ text' = text
  BY DEF Allocate
<1>2. FrameType'
  BY <1>1 DEF TextInv, FrameType
<1>3. (\A b \in Buffer : InPlace(b, text'[b])) /\ Proper(text'["literal"], 0) /\ Paired(text'["literal"], 0)
  BY <1>1 DEF TextInv, TextAt
<1>4. Composing' /\ Distributing' /\ Waiting'
  BY <1>1 DEF Composing, Distributing, Waiting
<1>5. Settled' /\ Unwritten'
  BY <1>1 DEF TextInv, Settled, TextAt, Unwritten
<1> QED
  BY <1>2, <1>3, <1>4, <1>5 DEF TextInv, TextAt

LEMMA NewStringsKeep ==
  ASSUME TextInv, NewStrings
  PROVE  TextInv'
<1>1. /\ tx = "compose" /\ tx' = "distribute" /\ entry = KeyCount + 1 /\ entry' = 1
      /\ part' = part /\ port' = port /\ KeyCount \in Nat /\ part \in 1..2
  BY KeyCountAssumption DEF NewStrings, TextInv, FrameType
<1>2. /\ text \in [Buffer -> [Pos -> Cells]] /\ \A b \in Buffer : InPlace(b, text[b])
      /\ Proper(text["literal"], 0) /\ Paired(text["literal"], 0)
  BY DEF TextInv, FrameType, TextAt
<1>3. text' = [b \in Buffer |-> IF b \in Strings THEN Cleared(text[b]) ELSE text[b]]
  BY DEF NewStrings, Write
<1>4. \A b \in Buffer : text'[b] = IF b \in Strings THEN Cleared(text[b]) ELSE text[b]
  BY <1>3
<1>5. ASSUME NEW b \in Buffer
      PROVE  /\ text'[b] \in [Pos -> Cells] /\ InPlace(b, text'[b])
             /\ b \in Strings => Proper(text'[b], 0) /\ Paired(text'[b], 0)
  <2>1. text[b] \in [Pos -> Cells] /\ InPlace(b, text[b])
    BY <1>2
  <2>2. /\ Cleared(text[b]) \in [Pos -> Cells] /\ Proper(Cleared(text[b]), 0)
        /\ InPlace(b, Cleared(text[b])) /\ Paired(Cleared(text[b]), 0)
    BY <2>1, ClearedKeeps
  <2> QED
    BY <1>4, <2>1, <2>2
<1>6. text' \in [Buffer -> [Pos -> Cells]]
  BY <1>3, <1>5
<1>7. FrameType'
  BY <1>1, <1>6 DEF TextInv, FrameType
<1>8. text'["web"] = text["web"] /\ text'["literal"] = text["literal"]
  BY <1>4, Buffers
<1>9. Proper(text["web"], 2 * KeyCount) /\ Paired(text["web"], 2 * KeyCount)
  <2>1. TextAt("web", 2 * (entry - 1) + (part - 1))
    BY <1>1 DEF TextInv, Composing
  <2>2. 2 * (entry - 1) + (part - 1) \in 0..(2 * KeyCount)
    BY <2>1 DEF TextAt, Proper
  <2>3. 2 * (entry - 1) + (part - 1) = 2 * KeyCount
    BY <1>1, <2>2
  <2> QED
    BY <2>1, <2>3 DEF TextAt
<1>10. \A b \in Strings : Place(b, 1) = 0
  <2> TAKE b \in Strings
  <2>1. 1 \in 1..(KeyCount + 1)
    BY <1>1
  <2>2. Place(b, 1) \in 0..(2 * (1 - 1))
    BY <2>1, PlaceRange
  <2> QED
    BY <2>2
<1>11. Distributing'
  <2>1. \A b \in Strings : Proper(text'[b], Place(b, entry')) /\ Paired(text'[b], Place(b, entry'))
    BY <1>1, <1>5, <1>10, Buffers
  <2>2. \A b \in Strings : Matches(b, entry)'
    BY <1>1 DEF Matches
  <2> QED
    BY <1>8, <1>9, <2>1, <2>2 DEF Distributing, TextAt
<1>12. Composing' /\ Waiting' /\ Settled' /\ Unwritten'
  BY <1>1 DEF Composing, Waiting, Settled, Unwritten
<1>13. (\A b \in Buffer : InPlace(b, text[b]))' /\ TextAt("literal", 0)'
  BY <1>2, <1>5, <1>8 DEF TextAt
<1> QED
  BY <1>7, <1>11, <1>12, <1>13 DEF TextInv

(* The two cells of an entry of the whole frame.                           *)
LEMMA EntryIs ==
  ASSUME NEW t \in [Pos -> Cells], Proper(t, 2 * KeyCount), Paired(t, 2 * KeyCount),
         InPlace("web", t), NEW e \in KeyNo
  PROVE  /\ Place("web", e) = 2 * (e - 1)
         /\ t[2 * e - 1] \in Cells \ {End, Wild} /\ t[2 * e] \in Cells \ {End, Wild}
         /\ t[2 * e - 1].key = e /\ t[2 * e - 1].part = 1
         /\ t[2 * e].key = e /\ t[2 * e].part = 2
         /\ Belongs(t[2 * e], t[2 * e - 1])
<1>1. KeyCount \in Nat /\ e \in 1..KeyCount
  BY KeyCountAssumption DEF KeyNo
<1>2. \A k \in KeyNo : Place("web", k) = 2 * (k - 1)
  <2> TAKE k \in KeyNo
  <2>1. k \in 1..(KeyCount + 1)
    BY <1>1 DEF KeyNo
  <2> QED
    BY <2>1, PlaceRange
<1> DEFINE i == 2 * e - 1
           j == 2 * e
<1>3. i \in Pos /\ j \in Pos /\ i \in 1..(2 * KeyCount) /\ j \in 1..(2 * KeyCount) /\ j - 1 = i
  BY <1>1 DEF Pos
<1>4. t[i] \in Cells \ {End, Wild} /\ t[j] \in Cells \ {End, Wild}
  BY <1>3 DEF Proper
<1>5. /\ t[i].key \in KeyNo /\ t[i].part \in 1..2 /\ i = 2 * (t[i].key - 1) + t[i].part
      /\ t[j].key \in KeyNo /\ t[j].part \in 1..2 /\ j = 2 * (t[j].key - 1) + t[j].part
  BY <1>2, <1>3, <1>4 DEF InPlace
<1> DEFINE a == t[i].key
           b == t[j].key
<1>6. \A k \in 1..KeyCount, p \in 1..2 :
        /\ 2 * e - 1 = 2 * (k - 1) + p => k = e /\ p = 1
        /\ 2 * e = 2 * (k - 1) + p => k = e /\ p = 2
  BY <1>1
<1>7. t[i].key = e /\ t[i].part = 1 /\ t[j].key = e /\ t[j].part = 2
  BY <1>5, <1>6 DEF KeyNo
<1>8. Belongs(t[j], t[i])
  BY <1>3, <1>7 DEF Paired
<1> QED
  BY <1>1, <1>2, <1>4, <1>7, <1>8

LEMMA EndCycleKeeps ==
  ASSUME TextInv, EndCycle
  PROVE  TextInv'
<1>1. /\ tx = "distribute" /\ tx' = "wait" /\ entry = KeyCount + 1 /\ entry' = entry
      /\ part' = part /\ port' = port /\ text' = text
  BY DEF EndCycle
<1>2. FrameType'
  BY <1>1 DEF TextInv, FrameType
<1>3. (\A b \in Buffer : InPlace(b, text'[b])) /\ Proper(text'["literal"], 0) /\ Paired(text'["literal"], 0)
  BY <1>1 DEF TextInv, TextAt
<1>4. /\ Proper(text'["web"], 2 * KeyCount) /\ Paired(text'["web"], 2 * KeyCount)
      /\ \A b \in Strings : /\ Proper(text'[b], FullLength(b)) /\ Paired(text'[b], FullLength(b))
                              /\ Matches(b, KeyCount + 1)
  BY <1>1 DEF TextInv, Distributing, TextAt, FullLength
<1>5. \A b \in Strings : Matches(b, KeyCount + 1)'
  BY <1>1, <1>4 DEF Matches
<1>6. Composing' /\ Distributing' /\ Waiting' /\ Settled' /\ Unwritten'
  BY <1>1, <1>4, <1>5 DEF Composing, Distributing, Waiting, Settled, TextAt, Unwritten
<1> QED
  BY <1>2, <1>3, <1>6 DEF TextInv, TextAt

LEMMA AddEntryKeeps ==
  ASSUME TextInv, AddEntry
  PROVE  TextInv'
<1> DEFINE g == Group[entry]
           c == [i \in 1..2 |-> text["web"][Place("web", entry) + i]]
           r == Appended(text[g], c)
           n == Place(g, entry)
<1>1. /\ tx = "distribute" /\ tx' = tx /\ entry \in KeyNo /\ entry' = entry + 1
      /\ part' = part /\ port' = port /\ KeyCount \in Nat
      /\ text' = [text EXCEPT ![g] = r]
  BY KeyCountAssumption DEF AddEntry, Write, KeyNo, TextInv, FrameType
<1>2. /\ text \in [Buffer -> [Pos -> Cells]] /\ \A b \in Buffer : InPlace(b, text[b])
      /\ Proper(text["literal"], 0) /\ Paired(text["literal"], 0)
      /\ Proper(text["web"], 2 * KeyCount) /\ Paired(text["web"], 2 * KeyCount)
      /\ \A b \in Strings : /\ Proper(text[b], Place(b, entry)) /\ Paired(text[b], Place(b, entry))
                              /\ Matches(b, entry)
  BY <1>1 DEF TextInv, FrameType, Distributing, TextAt
<1>3. entry \in 1..KeyCount /\ entry \in 1..(KeyCount + 1) /\ entry + 1 \in 1..(KeyCount + 1)
  BY <1>1 DEF KeyNo
<1>4. \A b \in Strings :
        /\ Shows(b, entry) <=> b = g
        /\ Place(b, entry) \in Nat
        /\ Place(b, entry + 1) = Place(b, entry) + IF b = g THEN 2 ELSE 0
        /\ \A k \in 1..(entry - 1) : Shows(b, k) =>
             Place(b, k) \in Nat /\ Place(b, k) + 2 <= Place(b, entry)
  <2> TAKE b \in Strings
  <2>1. Shows(b, entry) <=> b = g
    BY Buffers DEF Shows
  <2>2. ASSUME NEW k \in 1..(entry - 1), Shows(b, k)
        PROVE  Place(b, k) \in Nat /\ Place(b, k) + 2 <= Place(b, entry)
    <3>1. k \in 1..KeyCount /\ entry \in (k + 1)..(KeyCount + 1)
      BY <1>1, <1>3
    <3>2. Place(b, k) \in Nat
      BY <3>1, PlaceStep
    <3>3. Place(b, k) + 2 <= Place(b, entry)
      BY <2>2, <3>1, PlaceOrder
    <3> QED
      BY <3>2, <3>3
  <2> HIDE DEF g
  <2> QED
    BY <1>3, <2>1, <2>2, PlaceStep
<1>5. CASE g = "none"
  <2>1. text' = text
    BY <1>1, <1>2, <1>5, Buffers
  <2>2. FrameType' /\ (\A b \in Buffer : InPlace(b, text[b]))' /\ TextAt("literal", 0)'
    BY <1>1, <1>2, <1>3, <2>1 DEF TextInv, FrameType, TextAt
  <2>3. ASSUME NEW b \in Strings
        PROVE  /\ Place(b, entry + 1) = Place(b, entry)
               /\ Matches(b, entry + 1)
    <3>1. b # g
      BY <1>5, Buffers
    <3>2. ~ Shows(b, entry) /\ Place(b, entry + 1) = Place(b, entry)
      BY <1>4, <3>1
    <3>3. \A k \in 1..((entry + 1) - 1) : k \in 1..(entry - 1) \/ k = entry
      BY <1>3
    <3> QED
      BY <1>2, <3>2, <3>3 DEF Matches
  <2>4. \A b \in Strings : Matches(b, entry)'
    <3> TAKE b \in Strings
    <3>1. Matches(b, entry + 1)
      BY <2>3
    <3> QED
      BY <1>1, <2>1, <3>1 DEF Matches
  <2>5. \A b \in Strings : Proper(text'[b], Place(b, entry')) /\ Paired(text'[b], Place(b, entry'))
    BY <1>1, <1>2, <2>1, <2>3
  <2>6. Distributing' /\ Composing' /\ Waiting' /\ Settled' /\ Unwritten'
    BY <1>1, <1>2, <2>1, <2>4, <2>5
       DEF Distributing, Composing, Waiting, Settled, Unwritten, TextAt
  <2> QED
    BY <2>2, <2>6 DEF TextInv
<1>6. CASE g # "none"
  <2>1. g \in Strings /\ g \in Buffer /\ g # "web" /\ g # "literal"
    BY <1>1, <1>6, Buffers
  <2>2. /\ text[g] \in [Pos -> Cells] /\ InPlace(g, text[g])
        /\ Proper(text[g], n) /\ Paired(text[g], n)
    BY <1>2, <2>1
  <2>3. /\ Place("web", entry) = 2 * (entry - 1)
        /\ c[1] = text["web"][2 * entry - 1] /\ c[2] = text["web"][2 * entry] /\ Len(c) = 2
    <3>1. Place("web", entry) = 2 * (entry - 1)
      BY <1>3, PlaceRange
    <3>2. Place("web", entry) + 1 = 2 * entry - 1 /\ Place("web", entry) + 2 = 2 * entry
      BY <1>3, <3>1
    <3> QED
      BY <3>1, <3>2
  <2>4. text["web"] \in [Pos -> Cells] /\ InPlace("web", text["web"])
    BY <1>2, Buffers
  <2>5. /\ c[1] \in Cells \ {End, Wild} /\ c[1].key = entry /\ c[1].part = 1
        /\ c[2] \in Cells \ {End, Wild} /\ c[2].key = entry /\ c[2].part = 2
        /\ Belongs(c[2], c[1])
    BY <1>1, <1>2, <2>3, <2>4, EntryIs
  <2>6. Shows(g, entry) /\ n \in Nat /\ Place(g, entry + 1) = n + 2
    BY <1>4, <2>1
  <2>7. n + 2 \in 0..(2 * KeyCount)
    <3>1. Place(g, entry + 1) <= FullLength(g) /\ FullLength(g) \in 0..(2 * KeyCount)
      BY <1>3, PlaceRange
    <3> QED
      BY <1>1, <2>6, <3>1
  <2>8. r = Appended(text[g], c)
    OBVIOUS
  <2>9. c[1] = text["web"][Place("web", entry) + 1] /\ c[2] = text["web"][Place("web", entry) + 2]
    OBVIOUS
  <2>10. n = Place(g, entry)
    OBVIOUS
  <2> HIDE DEF g, c, r, n
  <2>11. Fits(g, text[g], n, c, 2)
    <3>1. \A i \in 1..2 : i = 1 \/ i = 2
      OBVIOUS
    <3>2. \A i \in 1..2 : /\ c[i] \in Cells \ {End, Wild}
                           /\ c[i].key \in KeyNo /\ Shows(g, c[i].key)
                           /\ c[i].part \in 1..2 /\ n + i = Place(g, c[i].key) + c[i].part
      BY <1>1, <2>5, <2>6, <2>10, <3>1
    <3> QED
      BY <2>3, <2>5, <2>7, <3>2 DEF Fits
  <2>12. /\ r \in [Pos -> Cells] /\ Proper(r, n + 2) /\ InPlace(g, r) /\ Paired(r, n + 2)
         /\ \A i \in 1..n : r[i] = text[g][i]
         /\ r[n + 1] = c[1] /\ r[n + 2] = c[2]
    <3>1. 1 \in 1..2 /\ 2 \in 1..2
      OBVIOUS
    <3> QED
      BY <2>2, <2>8, <2>11, <3>1, Extended
  <2>13. /\ text' \in [Buffer -> [Pos -> Cells]] /\ text'[g] = r
         /\ \A b \in Buffer \ {g} : text'[b] = text[b]
    BY <1>1, <1>2, <2>1, <2>12, OneText
  <2>14. text'["web"] = text["web"] /\ text'["literal"] = text["literal"]
    BY <2>1, <2>13, Buffers
  <2>15. FrameType'
    BY <1>1, <1>3, <2>13 DEF TextInv, FrameType
  <2>16. \A b \in Buffer : InPlace(b, text'[b])
    BY <1>2, <2>12, <2>13
  <2>17. ASSUME NEW b \in Strings
         PROVE  /\ Proper(text'[b], Place(b, entry + 1)) /\ Paired(text'[b], Place(b, entry + 1))
                /\ \A k \in 1..entry : Shows(b, k) =>
                     \A p \in 1..2 : text'[b][Place(b, k) + p] = text["web"][Place("web", k) + p]
    <3>1. \A k \in 1..entry : k \in 1..(entry - 1) \/ k = entry
      BY <1>3
    <3>2. CASE b = g
      <4>1. ASSUME NEW k \in 1..(entry - 1), Shows(b, k), NEW p \in 1..2
            PROVE  text'[b][Place(b, k) + p] = text["web"][Place("web", k) + p]
        <5>1. Place(b, k) \in Nat /\ Place(b, k) + 2 <= n
          BY <1>4, <2>10, <3>2, <4>1
        <5>2. Place(b, k) + p \in 1..n
          BY <2>6, <5>1
        <5>3. text[b][Place(b, k) + p] = text["web"][Place("web", k) + p]
          BY <1>2, <4>1 DEF Matches
        <5> QED
          BY <2>12, <2>13, <3>2, <5>2, <5>3
      <4>2. ASSUME NEW p \in 1..2
            PROVE  text'[b][Place(b, entry) + p] = text["web"][Place("web", entry) + p]
        <5>1. p = 1 \/ p = 2
          OBVIOUS
        <5> QED
          BY <2>9, <2>10, <2>12, <2>13, <3>2, <5>1
      <4> QED
        BY <2>6, <2>12, <2>13, <3>1, <3>2, <4>1, <4>2
    <3>3. CASE b # g
      <4>1. text'[b] = text[b]
        BY <2>13, <3>3, Buffers
      <4>2. ~ Shows(b, entry) /\ Place(b, entry + 1) = Place(b, entry)
        BY <1>4, <3>3
      <4> QED
        BY <1>2, <3>1, <4>1, <4>2 DEF Matches
    <3> QED
      BY <3>2, <3>3
  <2>18. \A b \in Strings : Matches(b, entry)'
    <3>1. entry' - 1 = entry
      BY <1>1, <1>3
    <3> QED
      BY <2>14, <2>17, <3>1 DEF Matches
  <2>19. Distributing' /\ Composing' /\ Waiting' /\ Settled' /\ Unwritten'
    <3>1. Proper(text'["web"], 2 * KeyCount) /\ Paired(text'["web"], 2 * KeyCount)
      BY <1>2, <2>14
    <3>2. \A b \in Strings : Proper(text'[b], Place(b, entry')) /\ Paired(text'[b], Place(b, entry'))
      BY <1>1, <2>17
    <3> QED
      BY <1>1, <2>18, <3>1, <3>2
         DEF Distributing, Composing, Waiting, Settled, Unwritten, TextAt
  <2> QED
    BY <1>2, <2>14, <2>15, <2>16, <2>19 DEF TextInv, TextAt
<1> QED
  BY <1>5, <1>6

LEMMA TransmitKeeps ==
  ASSUME TextInv, NEW portOf, \A k \in KeyNo : portOf[k] \in Port, Transmit(portOf)
  PROVE  TextInv'
BY AllocateKeeps, ClearKeeps, AskLengthKeeps, AddKeyKeeps, AddValueKeeps, NewStringsKeep, AddEntryKeeps,
   EndCycleKeeps DEF Transmit

(* Whoever finds the end of a text finds a number of written cells before. *)
LEMMA TextIs ==
  ASSUME TextInv, NEW b \in Buffer
  PROVE  \/ b = "web" /\ tx \in {"boot", "allocated"} /\ ~ Ended(text[b])
         \/ \E n \in 0..(2 * KeyCount) : TextAt(b, n)
<1>1. CASE b = "literal"
  BY <1>1, KeyCountAssumption DEF TextInv
<1>2. CASE b = "web"
  <2>1. tx \in {"boot", "allocated", "wait", "compose", "distribute"}
    BY DEF TextInv, FrameType
  <2>2. CASE tx \in {"boot", "allocated"}
    <3>1. \A i \in Pos : text[b][i] # End
      BY <1>2, <2>2, Ends DEF TextInv, Unwritten
    <3> QED
      BY <1>2, <2>2, <3>1 DEF Ended
  <2>3. CASE tx \in {"wait", "compose", "distribute"}
    <3>1. \E n : TextAt(b, n)
      BY <1>2, <2>3 DEF TextInv, Waiting, Composing, Distributing
    <3> QED
      BY <3>1 DEF TextAt, Proper
  <2> QED
    BY <2>1, <2>2, <2>3
<1>3. CASE b \in Strings
  <2>1. \E n : TextAt(b, n)
    BY <1>3 DEF TextInv, Settled, Distributing
  <2> QED
    BY <2>1 DEF TextAt, Proper
<1> QED
  BY <1>1, <1>2, <1>3 DEF Buffer

-----------------------------------------------------------------------------
(* The copy: its cells are at their places, and while the transmission     *)
(* task does not fall into it it agrees with the text it is made of.       *)
ReaderType ==
  reader \in [who : {"nobody", "httpd", "client", "button"}, of : Buffer,
              length : 0..(2 * KeyCount), copy : Seq(Cells), disturbed : BOOLEAN]

Ordered(b, i, c) ==
  c \notin {End, Wild} => /\ c.key \in KeyNo /\ Shows(b, c.key)
                          /\ i = Place(b, c.key) + c.part

Quiet ==
  (reader.who # "nobody" /\ ~reader.disturbed) =>
    /\ Proper(text[reader.of], reader.length)
    /\ reader.length \in {0, FullLength(reader.of)}
    /\ Len(reader.copy) <= reader.length + 1
    /\ \A i \in 1..Len(reader.copy) : reader.copy[i] = text[reader.of][i]

CopyInv ==
  /\ ReaderType
  /\ reader.who = "nobody" => reader.copy = <<>>
  /\ \A i \in 1..Len(reader.copy) : Ordered(reader.of, i, reader.copy[i])
  /\ Quiet

LEMMA NobodyIs ==
  ASSUME NEW r, r = Nobody
  PROVE  /\ r \in [who : {"nobody", "httpd", "client", "button"}, of : Buffer,
                   length : 0..(2 * KeyCount), copy : Seq(Cells), disturbed : BOOLEAN]
         /\ r.who = "nobody" /\ r.copy = <<>>
BY Buffers, KeyCountAssumption DEF Nobody

LEMMA CopyInvNobody ==
  ASSUME reader' = Nobody
  PROVE  CopyInv'
BY NobodyIs DEF CopyInv, ReaderType, Quiet

LEMMA CopyUnchanged ==
  ASSUME CopyInv, reader' = reader, text' = text
  PROVE  CopyInv'
BY DEF CopyInv, ReaderType, Quiet

LEMMA WriteKeepsCopy ==
  ASSUME CopyInv, Write(text')
  PROVE  CopyInv'
<1>1. /\ reader' = [reader EXCEPT !.disturbed = @ \/ text'[reader.of] # text[reader.of]]
      /\ ReaderType
  BY DEF Write, CopyInv
<1>2. /\ reader'.who = reader.who /\ reader'.of = reader.of /\ reader'.length = reader.length
      /\ reader'.copy = reader.copy
      /\ reader'.disturbed = (reader.disturbed \/ text'[reader.of] # text[reader.of])
  BY <1>1 DEF ReaderType
<1>3. ReaderType'
  BY <1>1 DEF ReaderType
<1>4. Quiet'
  <2> SUFFICES ASSUME reader.who # "nobody", ~ reader'.disturbed
               PROVE  /\ Proper(text'[reader.of], reader.length)
                      /\ reader.length \in {0, FullLength(reader.of)}
                      /\ Len(reader.copy) <= reader.length + 1
                      /\ \A i \in 1..Len(reader.copy) : reader.copy[i] = text'[reader.of][i]
    BY <1>2 DEF Quiet
  <2>1. ~ reader.disturbed /\ text'[reader.of] = text[reader.of]
    BY <1>2, Zenon
  <2> QED
    BY <2>1 DEF CopyInv, Quiet
<1> QED
  BY <1>2, <1>3, <1>4 DEF CopyInv

LEMMA TransmitKeepsCopy ==
  ASSUME CopyInv, NEW portOf, Transmit(portOf)
  PROVE  CopyInv'
<1>1. (text' = text /\ reader' = reader) \/ Write(text')
  <2>1. Allocate \/ AskLength(portOf) \/ EndCycle => text' = text /\ reader' = reader
    BY DEF Allocate, AskLength, EndCycle
  <2>2. ASSUME NEW new, Write(new) PROVE Write(text')
    BY <2>2 DEF Write
  <2>3. CASE FirstClear \/ NewFrame
    BY <2>2, <2>3 DEF FirstClear, NewFrame
  <2>4. CASE AddKey(portOf) \/ AddValue(portOf)
    BY <2>2, <2>4 DEF AddKey, AddValue
  <2>5. CASE NewStrings \/ AddEntry
    BY <2>2, <2>5 DEF NewStrings, AddEntry
  <2> QED
    BY <2>1, <2>3, <2>4, <2>5 DEF Transmit
<1> QED
  BY <1>1, CopyUnchanged, WriteKeepsCopy

LEMMA MeasureKeeps ==
  ASSUME TextInv, CopyInv, NEW who \in {"httpd", "client", "button"},
         NEW b \in Buffer, b = "web" => tx # "boot", Measure(who, b)
  PROVE  CopyInv'
<1>1. /\ Ended(text[b]) /\ text' = text
      /\ reader' = [who |-> who, of |-> b, length |-> Length(text[b]), copy |-> <<>>,
                    disturbed |-> Unsettled(b)]
  BY DEF Measure
<1>2. \E n \in 0..(2 * KeyCount) : TextAt(b, n)
  BY <1>1, TextIs
<1>3. /\ Length(text[b]) \in 0..(2 * KeyCount)
      /\ \A n : TextAt(b, n) => Proper(text[b], n) /\ Length(text[b]) = n
  BY <1>2, LengthIs DEF TextAt
<1>4. Unsettled(b) \in BOOLEAN
  BY Zenon DEF Unsettled
<1>5. /\ reader'.who = who /\ reader'.of = b /\ reader'.length = Length(text[b])
      /\ reader'.copy = <<>> /\ reader'.disturbed = Unsettled(b)
  BY <1>1
<1>6. ReaderType'
  BY <1>1, <1>3, <1>4 DEF ReaderType
<1>7. ~ Unsettled(b) => TextAt(b, 0) \/ TextAt(b, FullLength(b))
  <2> SUFFICES ASSUME ~ Unsettled(b) PROVE TextAt(b, 0) \/ TextAt(b, FullLength(b))
    OBVIOUS
  <2>1. CASE b = "literal"
    BY <2>1 DEF TextInv
  <2>2. CASE b = "web"
    <3>1. tx \in {"wait", "distribute"}
      BY <2>2 DEF Unsettled, TextInv, FrameType
    <3>2. TextAt(b, 0) \/ TextAt(b, 2 * KeyCount)
      BY <2>2, <3>1 DEF TextInv, Waiting, Distributing
    <3>3. KeyCount + 1 \in 1..(KeyCount + 1) /\ (KeyCount + 1) - 1 = KeyCount
      BY KeyCountAssumption
    <3>4. FullLength(b) = 2 * KeyCount
      BY <2>2, <3>3, PlaceRange DEF FullLength
    <3> QED
      BY <3>2, <3>4
  <2>3. CASE b \in Strings
    <3>1. tx # "distribute"
      BY <2>3 DEF Unsettled
    <3> QED
      BY <2>3, <3>1 DEF TextInv, Settled
  <2> QED
    BY <2>1, <2>2, <2>3 DEF Buffer
<1>8. Quiet'
  <2> SUFFICES ASSUME ~ Unsettled(b)
               PROVE  /\ Proper(text[b], Length(text[b])) /\ Length(text[b]) \in {0, FullLength(b)}
    BY <1>1, <1>3, <1>5 DEF Quiet
  <2> QED
    BY <1>3, <1>7
<1> QED
  BY <1>5, <1>6, <1>8 DEF CopyInv

LEMMA CopyCellKeeps ==
  ASSUME TextInv, CopyInv, CopyCell
  PROVE  CopyInv'
<1> DEFINE old == reader.copy
           c == text[reader.of][Len(old) + 1]
<1>1. /\ reader.who # "nobody" /\ ~ Copied /\ Len(old) + 1 \in Pos /\ text' = text
      /\ reader' = [reader EXCEPT !.copy = Append(old, c)]
  BY DEF CopyCell
<1>2. /\ reader.of \in Buffer /\ reader.length \in 0..(2 * KeyCount) /\ old \in Seq(Cells)
      /\ Len(old) \in Nat
  BY DEF CopyInv, ReaderType
<1>3. c \in Cells
  BY <1>1, <1>2 DEF TextInv, FrameType
<1>4. Ordered(reader.of, Len(old) + 1, c)
  BY <1>1, <1>2 DEF TextInv, InPlace, Ordered
<1>5. /\ reader'.who = reader.who /\ reader'.of = reader.of /\ reader'.length = reader.length
      /\ reader'.copy = Append(old, c) /\ reader'.disturbed = reader.disturbed
  BY <1>1 DEF CopyInv, ReaderType
<1>6. c = text[reader.of][Len(old) + 1] /\ old = reader.copy
  OBVIOUS
<1> HIDE DEF c, old
<1>7. /\ Append(old, c) \in Seq(Cells) /\ Len(Append(old, c)) = Len(old) + 1
      /\ \A i \in 1..Len(old) : Append(old, c)[i] = old[i]
      /\ Append(old, c)[Len(old) + 1] = c
  BY <1>2, <1>3
<1>8. ReaderType'
  BY <1>1, <1>7 DEF CopyInv, ReaderType
<1>9. \A i \in 1..(Len(old) + 1) : i \in 1..Len(old) \/ i = Len(old) + 1
  BY <1>2
<1>10. \A i \in 1..Len(reader'.copy) : Ordered(reader'.of, i, reader'.copy[i])
  BY <1>4, <1>5, <1>6, <1>7, <1>9 DEF CopyInv
<1>11. Quiet'
  <2> SUFFICES ASSUME ~ reader.disturbed
               PROVE  /\ Proper(text[reader.of], reader.length)
                      /\ reader.length \in {0, FullLength(reader.of)}
                      /\ Len(old) + 1 <= reader.length + 1
                      /\ \A i \in 1..(Len(old) + 1) : Append(old, c)[i] = text[reader.of][i]
    BY <1>1, <1>5, <1>7 DEF Quiet
  <2>1. /\ Proper(text[reader.of], reader.length)
        /\ reader.length \in {0, FullLength(reader.of)}
        /\ Len(old) <= reader.length + 1
        /\ \A i \in 1..Len(old) : old[i] = text[reader.of][i]
    BY <1>1, <1>6 DEF CopyInv, Quiet
  <2>2. Len(old) # reader.length + 1
    <3>1. CASE reader.who = "button"
      <4>1. \A i \in 1..Len(old) : old[i] # End
        BY <1>1, <1>6, <3>1 DEF Copied
      <4>2. text[reader.of][reader.length + 1] = End
        BY <2>1 DEF Proper
      <4> QED
        BY <1>2, <2>1, <4>1, <4>2
    <3>2. CASE reader.who # "button"
      BY <1>1, <1>6, <3>2 DEF Copied
    <3> QED
      BY <3>1, <3>2
  <2> QED
    BY <1>2, <1>6, <1>7, <1>9, <2>1, <2>2
<1> QED
  BY <1>1, <1>5, <1>8, <1>10, <1>11 DEF CopyInv

-----------------------------------------------------------------------------
(* The composition.                                                        *)
FaultOfCopy ==
  /\ fault \in {"none", "request", "copy"}
  /\ fault = "copy" => reader.disturbed

FrameInv == ServerStepInv /\ TextInv /\ CopyInv /\ FaultOfCopy

LEMMA KeysAreSettings ==
  ASSUME NEW k \in KeyNo PROVE Keys[k] \in Setting
<1>1. Keys[k] \in {Keys[i] : i \in 1..Len(Keys)}
  BY KeysAssumption DEF KeyNo
<1> QED
  BY <1>1 DEF Setting

LEMMA PortsTyped ==
  ASSUME RequestTypeOK
  PROVE  \A k \in KeyNo : [j \in KeyNo |-> nvs[Keys[j]]][k] \in Port
<1> TAKE k \in KeyNo
<1>1. Keys[k] \in Setting
  BY KeysAreSettings
<1> QED
  BY <1>1, ValueAssumption DEF RequestTypeOK

LEMMA ConfigKeepsFrame ==
  ASSUME FrameInv, fault = "none", ConfigStep
  PROVE  (TextInv /\ CopyInv /\ FaultOfCopy)'
<1>1. UNCHANGED frameVars /\ fault' \in {"none", "request"}
  BY DEF ConfigStep
<1>2. UNCHANGED <<tx, entry, part, port, text>> /\ reader' = reader /\ text' = text
  BY <1>1 DEF frameVars
<1>3. TextInv' /\ CopyInv'
  BY <1>2, TextUnchanged, CopyUnchanged DEF FrameInv
<1> QED
  BY <1>1, <1>3 DEF FaultOfCopy

LEMMA TransmitKeepsFrame ==
  ASSUME FrameInv, fault = "none", TransmitStep
  PROVE  (TextInv /\ CopyInv /\ FaultOfCopy)'
<1> DEFINE portOf == [k \in KeyNo |-> nvs[Keys[k]]]
<1>1. Transmit(portOf) /\ fault' = "none"
  BY DEF TransmitStep
<1>2. \A k \in KeyNo : portOf[k] \in Port
  BY PortsTyped DEF FrameInv, ServerStepInv, ServerInv
<1> HIDE DEF portOf
<1>3. TextInv' /\ CopyInv'
  BY <1>1, <1>2, TransmitKeeps, TransmitKeepsCopy DEF FrameInv
<1> QED
  BY <1>1, <1>3 DEF FaultOfCopy

LEMMA ReadKeepsFrame ==
  ASSUME FrameInv, fault = "none", Read
  PROVE  (TextInv /\ CopyInv /\ FaultOfCopy)'
<1>1. UNCHANGED <<tx, entry, part, port, text>>
  BY DEF Read, SensorRequest, OtherRead, SensorRequestTooEarly, Measure
<1>2. TextInv'
  BY <1>1, TextUnchanged DEF FrameInv
<1>3. web_buffer \in Buffer /\ (web_buffer = "web" => tx # "boot")
  BY Buffers DEF web_buffer
<1>4. CASE \E b \in {web_buffer} \cup Strings : SensorRequest(b)
  <2>1. PICK b \in {web_buffer} \cup Strings : SensorRequest(b)
    BY <1>4
  <2>2. Measure("httpd", b) /\ fault' = "none"
    BY <2>1 DEF SensorRequest
  <2>3. b \in Buffer /\ (b = "web" => tx # "boot")
    BY <1>3, Buffers
  <2>4. CopyInv'
    BY <2>2, <2>3, MeasureKeeps DEF FrameInv
  <2> QED
    BY <1>2, <2>2, <2>4 DEF FaultOfCopy
<1>5. CASE \E who \in {"client", "button"} : OtherRead(who)
  <2>1. PICK who \in {"client", "button"} : OtherRead(who)
    BY <1>5
  <2>2. fault' = "none"
    BY <2>1 DEF OtherRead, requestVars
  <2>3. CASE Measure(who, web_buffer)
    <3>1. CopyInv'
      BY <1>3, <2>3, MeasureKeeps DEF FrameInv
    <3> QED
      BY <1>2, <2>2, <3>1 DEF FaultOfCopy
  <2>4. CASE "GNSS" \in Strings /\ Measure(who, "GNSS")
    <3>1. "GNSS" \in Buffer /\ "GNSS" # "web"
      BY <2>4, Buffers
    <3>2. CopyInv'
      BY <2>4, <3>1, MeasureKeeps DEF FrameInv
    <3> QED
      BY <1>2, <2>2, <3>2 DEF FaultOfCopy
  <2> QED
    BY <2>1, <2>3, <2>4 DEF OtherRead
<1>6. CASE SensorRequestTooEarly
  <2>1. /\ fault' = "copy" /\ reader.who = "nobody"
        /\ reader' = [reader EXCEPT !.who = "httpd", !.of = "web", !.disturbed = TRUE]
    BY <1>6 DEF SensorRequestTooEarly
  <2>2. ReaderType /\ reader.copy = <<>>
    BY <2>1 DEF FrameInv, CopyInv
  <2>3. reader'.who = "httpd" /\ reader'.copy = <<>> /\ reader'.disturbed
    BY <2>1, <2>2 DEF ReaderType
  <2>4. ReaderType'
    BY <2>1, <2>2, Buffers DEF ReaderType
  <2> QED
    BY <1>2, <2>1, <2>3, <2>4 DEF FaultOfCopy, CopyInv, Quiet
<1> QED
  BY <1>4, <1>5, <1>6 DEF Read

(* A quiet copy ends in the end of the text.                               *)
LEMMA QuietStays ==
  ASSUME TextInv, CopyInv, Done, ~ reader.disturbed
  PROVE  /\ ~ Overrun
         /\ reader.length \in {0, FullLength(reader.of)}
         /\ \A i \in 1..reader.length : reader.copy[i] = text[reader.of][i]
<1>1. /\ reader.who # "nobody" /\ (Copied \/ Len(reader.copy) + 1 \notin Pos)
      /\ reader.length \in 0..(2 * KeyCount) /\ Len(reader.copy) \in Nat /\ KeyCount \in Nat
  BY KeyCountAssumption DEF Done, CopyInv, ReaderType
<1>2. /\ Proper(text[reader.of], reader.length)
      /\ reader.length \in {0, FullLength(reader.of)}
      /\ Len(reader.copy) <= reader.length + 1
      /\ \A i \in 1..Len(reader.copy) : reader.copy[i] = text[reader.of][i]
  BY <1>1 DEF CopyInv, Quiet
<1>3. Len(reader.copy) = reader.length + 1
  <2>1. CASE Len(reader.copy) + 1 \notin Pos
    <3>1. \A m \in Nat, l \in 0..(2 * KeyCount) :
            (m + 1 \notin 1..(2 * KeyCount + 1) /\ m <= l + 1) => m = l + 1
      BY <1>1
    <3> QED
      BY <1>1, <1>2, <2>1, <3>1 DEF Pos
  <2>2. CASE Copied /\ reader.who # "button"
    BY <2>2 DEF Copied
  <2>3. CASE Copied /\ reader.who = "button"
    <3>1. PICK i \in 1..Len(reader.copy) : reader.copy[i] = End
      BY <2>3 DEF Copied
    <3>2. text[reader.of][i] = End
      BY <1>2, <3>1
    <3>3. i \notin 1..reader.length
      BY <1>2, <3>2 DEF Proper
    <3> QED
      BY <1>1, <1>2, <3>1, <3>3
  <2> QED
    BY <1>1, <2>1, <2>2, <2>3
<1>4. reader.copy[reader.length + 1] = End
  BY <1>1, <1>2, <1>3 DEF Proper
<1>5. ~ Overrun
  BY <1>1, <1>3, <1>4 DEF Overrun
<1> QED
  BY <1>1, <1>2, <1>3, <1>5

LEMMA CopyKeepsFrame ==
  ASSUME FrameInv, fault = "none", Copy
  PROVE  (TextInv /\ CopyInv /\ FaultOfCopy)'
<1>1. UNCHANGED <<tx, entry, part, port, text>>
  BY DEF Copy, CopyStep, CopyCell, CopyUsed, CopyFaults, frameVars
<1>2. TextInv'
  BY <1>1, TextUnchanged DEF FrameInv
<1>3. CASE CopyStep
  <2>1. CopyInv'
    BY <1>3, CopyCellKeeps DEF FrameInv, CopyStep
  <2> QED
    BY <1>2, <1>3, <2>1 DEF FaultOfCopy, CopyStep
<1>4. CASE CopyUsed
  <2>1. CopyInv'
    BY <1>4, CopyInvNobody DEF CopyUsed
  <2> QED
    BY <1>2, <1>4, <2>1 DEF FaultOfCopy, CopyUsed
<1>5. CASE CopyFaults
  <2>1. Done /\ Overrun /\ fault' = "copy" /\ reader' = reader /\ text' = text
    BY <1>5 DEF CopyFaults, frameVars
  <2>2. reader.disturbed
    BY <2>1, QuietStays DEF FrameInv
  <2>3. CopyInv'
    BY <2>1, CopyUnchanged DEF FrameInv
  <2> QED
    BY <1>2, <2>1, <2>2, <2>3 DEF FaultOfCopy
<1> QED
  BY <1>3, <1>4, <1>5 DEF Copy

LEMMA FrameInvHolds == Spec => []FrameInv
<1>1. Init => TextInv /\ CopyInv /\ FaultOfCopy
  <2> SUFFICES ASSUME Init PROVE TextInv /\ CopyInv /\ FaultOfCopy
    OBVIOUS
  <2>1. TextInv
    BY TextInvInit DEF Init
  <2>2. reader = Nobody /\ fault = "none"
    BY DEF Init, FrameInit
  <2>3. CopyInv
    BY <2>2, NobodyIs DEF CopyInv, ReaderType, Quiet
  <2> QED
    BY <2>1, <2>2, <2>3 DEF FaultOfCopy
<1>2. FrameInv /\ [Next]_vars => (TextInv /\ CopyInv /\ FaultOfCopy)'
  <2> SUFFICES ASSUME FrameInv, [Next]_vars PROVE (TextInv /\ CopyInv /\ FaultOfCopy)'
    OBVIOUS
  <2>1. CASE fault = "none" /\ (ConfigStep \/ TransmitStep \/ Read \/ Copy)
    BY <2>1, ConfigKeepsFrame, TransmitKeepsFrame, ReadKeepsFrame, CopyKeepsFrame
  <2>2. CASE Reset
    <3>1. FrameReset /\ fault' = "none" /\ reader' = Nobody
      BY <2>2 DEF Reset, FrameReset
    <3> QED
      BY <3>1, TextInvReset, CopyInvNobody DEF FaultOfCopy
  <2>3. CASE UNCHANGED vars
    <3>1. UNCHANGED <<tx, entry, part, port, text>> /\ reader' = reader /\ text' = text /\ fault' = fault
      BY <2>3 DEF vars, frameVars
    <3>2. TextInv' /\ CopyInv'
      BY <3>1, TextUnchanged, CopyUnchanged DEF FrameInv
    <3> QED
      BY <3>1, <3>2 DEF FrameInv, FaultOfCopy
  <2> QED
    BY <2>1, <2>2, <2>3 DEF Next
<1>3. FrameInv <=> ServerStepInv /\ (TextInv /\ CopyInv /\ FaultOfCopy)
  BY DEF FrameInv
<1> QED
  BY <1>1, <1>2, <1>3, ServerStepInvHolds, PTL DEF Spec

(* The length that a port is read with is that of a port.                  *)
SizeType == required_size \in 0..3

LEMMA SizeTypeHolds == Spec => []SizeType
<1>1. Init => SizeType
  BY DEF Init, FrameInit, SizeType
<1>2. SizeType /\ [Next]_vars => SizeType'
  <2> SUFFICES ASSUME SizeType, [Next]_vars PROVE SizeType'
    OBVIOUS
  <2>1. CASE TransmitStep
    <3>1. PICK portOf : Transmit(portOf)
      BY <2>1 DEF TransmitStep
    <3>2. CASE AskLength(portOf)
      BY <3>2 DEF AskLength, Digits, SizeType
    <3>3. CASE AddKey(portOf)
      BY <3>3 DEF AddKey, SizeType
    <3>4. Allocate \/ FirstClear \/ NewFrame \/ AddValue(portOf) \/ NewStrings \/ AddEntry \/ EndCycle
            => required_size' = required_size
      BY DEF Allocate, FirstClear, NewFrame, AddValue, NewStrings, AddEntry, EndCycle
    <3> QED
      BY <3>1, <3>2, <3>3, <3>4 DEF Transmit, SizeType
  <2>2. ConfigStep \/ Read \/ Copy \/ UNCHANGED vars => required_size' = required_size
    BY DEF ConfigStep, Read, SensorRequest, OtherRead, SensorRequestTooEarly, Measure,
           Copy, CopyStep, CopyCell, CopyUsed, CopyFaults, vars, frameVars
  <2>3. Reset => required_size' = 0
    BY DEF Reset, FrameReset
  <2> QED
    BY <2>1, <2>2, <2>3 DEF Next, SizeType
<1> QED
  BY <1>1, <1>2, PTL DEF Spec

(* Every variable of the server, of the texts and of the copies keeps its  *)
(* type, in particular every text its room and every cell a key, a port or *)
(* the end (web_buffer_constructor and endpoint_discriminator).            *)
THEOREM TypeCorrect == Spec => []TypeOK
<1>1. FrameInv /\ SizeType => TypeOK
  <2> SUFFICES ASSUME FrameInv, SizeType PROVE TypeOK
    OBVIOUS
  <2>1. RequestTypeOK
    BY DEF FrameInv, ServerStepInv, ServerInv
  <2>2. FrameType /\ ReaderType /\ fault \in {"none", "request", "copy"}
    BY DEF FrameInv, TextInv, CopyInv, FaultOfCopy
  <2>3. /\ reader.who \in {"nobody", "httpd", "client", "button"} /\ reader.of \in Buffer
        /\ reader.length \in 0..(2 * KeyCount) /\ reader.copy \in Seq(Cells)
        /\ reader.disturbed \in BOOLEAN
    BY <2>2 DEF ReaderType
  <2> QED
    BY <2>1, <2>2, <2>3 DEF TypeOK, FrameType, SizeType
<1> QED
  BY <1>1, FrameInvHolds, SizeTypeHolds, PTL

(* However many frames are composed, and whatever the division of the keys *)
(* among the endpoints, every text has an end within its room, except      *)
(* web_buffer between its allocation and its first clearing.               *)
THEOREM TextsAlwaysEnd == Spec => []TextsEnd
<1>1. FrameInv => TextsEnd
  <2> SUFFICES ASSUME FrameInv, NEW b \in Buffer
               PROVE  Ended(text[b]) \/ (b = "web" /\ tx \in {"boot", "allocated"})
    BY DEF TextsEnd
  <2>1. CASE b = "web" /\ tx \in {"boot", "allocated"}
    BY <2>1
  <2>2. CASE \E n \in 0..(2 * KeyCount) : TextAt(b, n)
    <3>1. PICK n : Proper(text[b], n)
      BY <2>2 DEF TextAt
    <3> QED
      BY <3>1, LengthIs
  <2> QED
    BY <2>1, <2>2, TextIs DEF FrameInv
<1> QED
  BY <1>1, FrameInvHolds, PTL

(* What stands behind a port in an entry belongs to that port, whenever a  *)
(* request stores another one, between the reading of its length and of    *)
(* its text too: its value, nothing, or for port 4 what lies behind        *)
(* digital_input (web_buffer_constructor, readx_nvs and setports).         *)
THEOREM ValueAlwaysOfItsPort == Spec => []ValueIsOfItsPort
<1>1. FrameInv => ValueIsOfItsPort
  <2> SUFFICES ASSUME FrameInv, NEW b \in Buffer, Ended(text[b]),
                      NEW i \in 1..Length(text[b]), text[b][i].part = 2
               PROVE  i > 1 /\ Belongs(text[b][i], text[b][i - 1])
    BY DEF ValueIsOfItsPort
  <2>1. PICK n \in 0..(2 * KeyCount) : TextAt(b, n)
    BY TextIs DEF FrameInv
  <2>2. Length(text[b]) = n /\ Paired(text[b], n)
    BY <2>1, LengthIs DEF TextAt
  <2> QED
    BY <2>2 DEF Paired
<1> QED
  BY <1>1, FrameInvHolds, PTL

(* Between two frames the strings of the endpoints show the entries of the *)
(* frame, each those of its group (endpoint_discriminator).                *)
THEOREM EndpointsAlwaysMatchFrame == Spec => []EndpointsMatchFrame
<1>1. FrameInv => EndpointsMatchFrame
  <2> SUFFICES ASSUME FrameInv, tx = "wait", text["web"][1] # End, NEW b \in Strings
               PROVE  /\ Length(text[b]) = FullLength(b)
                      /\ \A k \in KeyNo : Shows(b, k) =>
                           \A p \in 1..2 :
                             text[b][Place(b, k) + p] = text["web"][Place("web", k) + p]
    BY DEF EndpointsMatchFrame
  <2>1. ~ TextAt("web", 0)
    BY DEF TextAt, Proper
  <2>2. TextAt(b, FullLength(b)) /\ Matches(b, KeyCount + 1)
    BY <2>1 DEF FrameInv, TextInv, Waiting
  <2>3. Length(text[b]) = FullLength(b)
    BY <2>2, LengthIs DEF TextAt
  <2>4. (KeyCount + 1) - 1 = KeyCount
    BY KeyCountAssumption
  <2> QED
    BY <2>2, <2>3, <2>4 DEF Matches, KeyNo
<1> QED
  BY <1>1, FrameInvHolds, PTL

(* Even a copy that the transmission task writes into has the entries that *)
(* it shows at their places (trama_endp, trama_sensors, concat).           *)
THEOREM CopiesAlwaysInOrder == Spec => []CopiesInOrder
<1>1. FrameInv => CopiesInOrder
  BY DEF FrameInv, CopyInv, Ordered, CopiesInOrder
<1> QED
  BY <1>1, FrameInvHolds, PTL

(* A copy that no step of the transmission task falls into is that of a    *)
(* whole frame, stays in its room and cannot fault.                        *)
THEOREM QuietCopyAlwaysWhole == Spec => []QuietCopyIsWhole
<1>1. FrameInv => QuietCopyIsWhole
  BY QuietStays DEF FrameInv, FaultOfCopy, QuietCopyIsWhole
<1> QED
  BY <1>1, FrameInvHolds, PTL
=============================================================================
