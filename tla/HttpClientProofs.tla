-------------------------- MODULE HttpClientProofs --------------------------
(***************************************************************************)
(* Proofs about HttpClient, for any number of button tasks, of pieces of a *)
(* response and any bound of the offset: the types, that a login lets one  *)
(* frame out, that a request which no other overlapped finds the offset    *)
(* counting its own pieces, and that the answer to such a login is whole.  *)
(***************************************************************************)
EXTENDS HttpClient, TLAPS

USE ButtonsAssumption, ChunksAssumption, MaxLenAssumption

(* A piece of the current answer at its place.                             *)
Own(i) == [answer |-> answer, part |-> i, fresh |-> TRUE]

(* A task that has no request has no history and is not in the handler.    *)
Quiet ==
  /\ \A t \in Client : ~Active(t) => got[t] = 0 /\ ~clash[t]
  /\ \A t \in Client : handling[t] => pc[t] \in {"login", "trama"}

(* A request that did not overlap with another is the only one.            *)
Alone ==
  \A t, o \in Client : Active(t) /\ ~clash[t] /\ o # t => ~Active(o)

(* While no request is in progress the offset is 0; as long as one runs    *)
(* alone, the offset is what it has been given and what it has read last,  *)
(* and the buffer holds the pieces of a login.                             *)
Counted ==
  /\ (\A t \in Client : ~Active(t)) => outputLen = 0
  /\ OffsetIsOwn
  /\ \A t \in Client : Performing(t) /\ ~clash[t] /\ handling[t] => loaded[t] = outputLen

InPlace ==
  /\ ~clash["main"] /\ pc["main"] = "login"
       => \A i \in 1..got["main"] : response[i] = Own(i)
  /\ AnswerIntact

Solo == Quiet /\ Alone /\ Counted /\ InPlace

(* The variables have their types for ever.                                *)
LEMMA InitType == Init => TypeOK
<1> SUFFICES ASSUME Init PROVE TypeOK
  OBVIOUS
<1>1. pc \in [Client -> MainPc] /\ \A b \in Buttons : pc[b] \in ButtonPc
  BY DEF Init, Client, MainPc, ButtonPc
<1>2. got \in [Client -> 0..Chunks]
  BY DEF Init
<1>3. response \in [Place -> Piece \cup {Empty}]
  BY DEF Init
<1>4. /\ estado = 0 /\ outputLen = 0
      /\ handling = [t \in Client |-> FALSE] /\ loaded = [t \in Client |-> 0]
  BY DEF Init
<1>5. answer \in Answer
  BY DEF Init, Answer
<1>6. clash = [t \in Client |-> FALSE]
  BY DEF Init
<1> QED
  BY <1>1, <1>2, <1>3, <1>4, <1>5, <1>6 DEF TypeOK

(* Marking a place as old, or leaving it empty, leaves it a place.         *)
LEMMA StaleType ==
  ASSUME NEW p \in Piece \cup {Empty}
  PROVE  Stale(p) \in Piece \cup {Empty}
<1>1. CASE p \in Piece
  BY <1>1 DEF Piece, Stale
<1>2. CASE p = Empty
  BY <1>2 DEF Empty, Stale
<1> QED
  BY <1>1, <1>2

(* The history of the overlaps stays one.                                  *)
LEMMA BeginType ==
  ASSUME TypeOK, NEW t, NEW place, Begin(t, place)
  PROVE  clash' \in [Client -> BOOLEAN]
<1> SUFFICES ASSUME NEW c \in Client PROVE clash'[c] \in BOOLEAN
  BY DEF Begin
<1>1. CASE c = t
  BY <1>1 DEF Begin
<1>2. CASE c # t
  BY <1>2 DEF Begin
<1> QED
  BY <1>1, <1>2

LEMMA StepType == TypeOK /\ [Next]_vars => TypeOK'
<1> SUFFICES ASSUME TypeOK, [Next]_vars PROVE TypeOK'
  OBVIOUS
<1> USE DEF TypeOK, Client, MainPc, ButtonPc, Go, offset
<1>1. CASE Login
  <2>2. clash' \in [Client -> BOOLEAN]
    BY <1>1, BeginType DEF Login
  <2>1. response' \in [Place -> Piece \cup {Empty}]
    <3>1. \A i \in Place : Stale(response[i]) \in Piece \cup {Empty}
      BY StaleType
    <3> QED
      BY <1>1, <3>1 DEF Login
  <2>3. pc' \in [Client -> MainPc] /\ \A b \in Buttons : pc'[b] \in ButtonPc
    BY <1>1 DEF Login, Begin
  <2>4. answer' \in Answer /\ UNCHANGED <<estado, got, outputLen, handling, loaded>>
    BY <1>1 DEF Login, Begin
  <2>5. /\ estado' \in 0..1 /\ outputLen' \in 0..MaxLen /\ got' \in [Client -> 0..Chunks]
        /\ handling' \in [Client -> BOOLEAN] /\ loaded' \in [Client -> 0..MaxLen]
        /\ \A t \in Client : handling'[t] => loaded'[t] < MaxLen
    BY <2>4
  <2> HIDE DEF Client, MainPc, ButtonPc
  <2> QED
    BY <2>1, <2>2, <2>3, <2>4, <2>5
<1>2. CASE Post
  <2>1. clash' \in [Client -> BOOLEAN]
    BY <1>2, BeginType DEF Post, Trama
  <2>2. pc' \in [Client -> MainPc] /\ \A c \in Buttons : pc'[c] \in ButtonPc
    BY <1>2 DEF Post, Trama, Begin
  <2>3. estado' = 0 /\ UNCHANGED <<got, answer, response, outputLen, handling, loaded>>
    BY <1>2 DEF Post, Trama, Begin
  <2> QED
    BY <2>1, <2>2, <2>3
<1>3. CASE SkipPost
  BY <1>3 DEF SkipPost
<1>4. CASE Parse
  <2>1. PICK place \in {"cleanup", "crash"} : pc' = [pc EXCEPT !["main"] = place]
    BY <1>4 DEF Parse
  <2>2. pc' \in [Client -> MainPc] /\ \A b \in Buttons : pc'[b] \in ButtonPc
    BY <2>1
  <2>3. estado' \in 0..1
    BY <1>4 DEF Parse
  <2> QED
    BY <1>4, <2>2, <2>3 DEF Parse
<1>5. CASE Reboot
  <2>1. pc' \in [Client -> MainPc] /\ \A b \in Buttons : pc'[b] \in ButtonPc
    BY <1>5 DEF Reboot
  <2>2. got' \in [Client -> 0..Chunks]
    BY <1>5 DEF Reboot
  <2>3. response' \in [Place -> Piece \cup {Empty}]
    BY <1>5 DEF Reboot
  <2>4. /\ estado' = 0 /\ outputLen' = 0 /\ answer' \in Answer
        /\ handling' = [t \in Client |-> FALSE] /\ loaded' = [t \in Client |-> 0]
    BY <1>5 DEF Reboot
  <2>5. clash' = [t \in Client |-> FALSE]
    BY <1>5 DEF Reboot
  <2> QED
    BY <2>1, <2>2, <2>3, <2>4, <2>5
<1>6. ASSUME NEW b \in Buttons, Press(b) PROVE TypeOK'
  <2>1. clash' \in [Client -> BOOLEAN]
    BY <1>6, BeginType DEF Press, Trama
  <2>2. pc' \in [Client -> MainPc] /\ \A c \in Buttons : pc'[c] \in ButtonPc
    BY <1>6 DEF Press, Trama, Begin
  <2>3. estado' = 0 /\ UNCHANGED <<got, answer, response, outputLen, handling, loaded>>
    BY <1>6 DEF Press, Trama, Begin
  <2> QED
    BY <2>1, <2>2, <2>3
<1>7. ASSUME NEW t \in Client, OnData(t) PROVE TypeOK'
  <2>1. response' \in [Place -> Piece \cup {Empty}]
    <3>1. got[t] + 1 \in Place /\ answer \in Answer
      BY <1>7 DEF OnData, Place
    <3>2. [answer |-> answer, part |-> got[t] + 1, fresh |-> TRUE] \in Piece
      BY <3>1 DEF Piece
    <3> QED
      BY <1>7, <3>2 DEF OnData
  <2> QED
    BY <1>7, <2>1 DEF OnData
<1>12. ASSUME NEW t \in Client, Reload(t) PROVE TypeOK'
  BY <1>12 DEF Reload
<1>13. ASSUME NEW t \in Client, Count(t) PROVE TypeOK'
  BY <1>13 DEF Count
<1>8. ASSUME NEW t \in Client, OnFinish(t) PROVE TypeOK'
  BY <1>8 DEF OnFinish, Returned, Performing
<1>9. ASSUME NEW t \in Client, Fail(t) PROVE TypeOK'
  BY <1>9 DEF Fail, Returned, Performing
<1>10. ASSUME NEW t \in Client, Cleanup(t) PROVE TypeOK'
  <2>1. pc' \in [Client -> MainPc] /\ \A c \in Buttons : pc'[c] \in ButtonPc
    BY <1>10 DEF Cleanup, End
  <2>2. got' \in [Client -> 0..Chunks] /\ clash' \in [Client -> BOOLEAN]
    BY <1>10 DEF Cleanup, End
  <2>3. outputLen' = 0 /\ UNCHANGED <<estado, answer, response, handling, loaded>>
    BY <1>10 DEF Cleanup
  <2> QED
    BY <2>1, <2>2, <2>3
<1>11. CASE UNCHANGED vars
  BY <1>11 DEF vars
<1> QED
  BY <1>1, <1>2, <1>3, <1>4, <1>5, <1>6, <1>7, <1>8, <1>9, <1>10, <1>11, <1>12, <1>13
  DEF Next, Step

(* The variables have their types for ever.                                *)
THEOREM TypeCorrect == Spec => []TypeOK
BY InitType, StepType, PTL DEF Spec

-----------------------------------------------------------------------------
(* A login lets one frame out at most, whatever the buttons do.            *)
THEOREM OneFrame == Spec => []OneFramePerLogin
<1>1. Init => OneFramePerLogin
  BY DEF Init, OneFramePerLogin
<1>2. TypeOK /\ OneFramePerLogin /\ [Next]_vars => OneFramePerLogin'
  <2> SUFFICES ASSUME TypeOK, OneFramePerLogin, [Next]_vars PROVE OneFramePerLogin'
    OBVIOUS
  <2> USE DEF TypeOK, OneFramePerLogin, Client, Go
  <2>1. CASE Login
    <3>1. estado' = estado /\ pc["main"] = "idle"
      BY <2>1 DEF Login
    <3> QED
      BY <3>1
  <2>9. CASE SkipPost
    BY <2>9 DEF SkipPost
  <2>2. CASE Post \/ \E b \in Buttons : Press(b)
    BY <2>2 DEF Post, Press, Trama, Begin
  <2>3. CASE Parse
    BY <2>3 DEF Parse
  <2>4. CASE Reboot
    BY <2>4 DEF Reboot
  <2>5. ASSUME NEW t \in Client, OnData(t) \/ Reload(t) \/ Count(t) PROVE OneFramePerLogin'
    BY <2>5 DEF OnData, Reload, Count
  <2>6. ASSUME NEW t \in Client, OnFinish(t) \/ Fail(t) PROVE OneFramePerLogin'
    BY <2>6 DEF OnFinish, Fail, Returned, Performing
  <2>7. ASSUME NEW t \in Client, Cleanup(t) PROVE OneFramePerLogin'
    BY <2>7 DEF Cleanup, End
  <2>8. CASE UNCHANGED vars
    BY <2>8 DEF vars
  <2> QED
    BY <2>1, <2>2, <2>3, <2>4, <2>5, <2>6, <2>7, <2>8, <2>9 DEF Next, Step
<1> QED
  BY <1>1, <1>2, TypeCorrect, PTL DEF Spec

-----------------------------------------------------------------------------
(* A request that begins alone finds the offset at 0; one that does not    *)
(* marks the others.                                                       *)
LEMMA BeginStep ==
  ASSUME TypeOK, Quiet, Alone, Counted, NEW t \in Client, ~Active(t),
         NEW place \in {"login", "trama"}, Begin(t, place), UNCHANGED offset
  PROVE  Quiet' /\ Alone' /\ Counted'
<1> USE DEF TypeOK, Go, Begin, offset
<1>1. /\ \A c \in Client : Active(c)' <=> (Active(c) \/ c = t)
      /\ clash'[t] <=> \E o \in Client \ {t} : Active(o)
      /\ \A c \in Client \ {t} : clash'[c] <=> clash[c] \/ Active(c)
  BY DEF Active
<1>2. Quiet'
  BY <1>1 DEF Quiet
<1>3. Alone'
  BY <1>1 DEF Alone
<1>4. ASSUME NEW c \in Client, Performing(c)', ~clash'[c]
      PROVE  c = t /\ outputLen = 0 /\ got'[c] = 0 /\ ~handling'[c]
  <2>1. c = t
    BY <1>1, <1>4 DEF Performing, Active
  <2>2. \A o \in Client : ~Active(o)
    BY <1>1, <1>4, <2>1
  <2>3. ~handling[t]
    BY DEF Quiet, Active
  <2> QED
    BY <2>1, <2>2, <2>3 DEF Quiet, Counted
<1>5. Counted'
  BY <1>1, <1>4 DEF Counted, OffsetIsOwn
<1> QED
  BY <1>2, <1>3, <1>5

(* A step of task t within its request, which leaves the requests and      *)
(* their overlaps as they are: the other tasks can only be in the way of   *)
(* one that overlapped with them.                                          *)
LEMMA Others ==
  ASSUME TypeOK, Alone, NEW t \in Client, Active(t), UNCHANGED clash,
         \A c \in Client : Active(c)' <=> Active(c)
  PROVE  /\ Alone'
         /\ \A c \in Client : Active(c)' /\ ~clash'[c] => c = t
BY DEF Alone

LEMMA InitSolo == Init => Solo
<1> SUFFICES ASSUME Init PROVE Solo
  OBVIOUS
<1>1. \A c \in Client : ~Active(c) /\ ~Performing(c) /\ got[c] = 0 /\ ~clash[c] /\ ~handling[c]
  BY DEF Init, Active, Performing
<1>2. outputLen = 0 /\ pc["main"] = "idle"
  BY DEF Init, Client
<1> QED
  BY <1>1, <1>2 DEF Solo, Quiet, Alone, Counted, OffsetIsOwn, InPlace, AnswerIntact

(* A piece is put where the offset of a lone request points.               *)
LEMMA DataStep == ASSUME TypeOK, Solo, NEW t \in Client, OnData(t) PROVE Solo'
<1> USE DEF Client
<1>0. /\ Active(t) /\ pc[t] \in {"login", "trama"} /\ ~handling[t] /\ Performing(t)
      /\ UNCHANGED <<pc, outputLen, answer, clash>>
      /\ got' = [got EXCEPT ![t] = got[t] + 1] /\ got[t] < Chunks
      /\ handling' = [handling EXCEPT ![t] = TRUE]
      /\ loaded' = [loaded EXCEPT ![t] = outputLen]
  BY DEF OnData, Performing, Active
<1>1. \A c \in Client : (Active(c)' <=> Active(c)) /\ (Performing(c)' <=> Performing(c))
  BY <1>0 DEF Active, Performing, Running
<1>2. Alone' /\ \A c \in Client : Active(c)' /\ ~clash'[c] => c = t
  BY <1>0, <1>1, Others DEF Solo
<1>3. Quiet'
  BY <1>0, <1>1 DEF Solo, Quiet, TypeOK
<1>4. Counted'
  <2>1. ASSUME NEW c \in Client, Performing(c)', ~clash'[c]
        PROVE  c = t /\ got'[c] = outputLen + 1 /\ handling'[c] /\ loaded'[c] = outputLen
    <3>1. c = t
      BY <2>1, <1>1, <1>2 DEF Performing, Active
    <3>2. got[t] = outputLen
      BY <1>0, <2>1, <3>1 DEF Solo, Counted, OffsetIsOwn, TypeOK
    <3> QED
      BY <1>0, <3>1, <3>2 DEF TypeOK
  <2> QED
    BY <1>0, <1>1, <2>1 DEF Counted, OffsetIsOwn
<1>5. InPlace'
  <2>1. CASE t = "main" /\ pc["main"] = "login" /\ ~clash["main"]
    <3>1. outputLen = got["main"] /\ got["main"] \in 0..Chunks /\ got["main"] + 1 \in Place
      BY <1>0, <2>1 DEF Solo, Counted, OffsetIsOwn, TypeOK, Place
    <3>2. /\ response' = [response EXCEPT ![got["main"] + 1] = Own(got["main"] + 1)]
          /\ got'["main"] = got["main"] + 1
      BY <1>0, <2>1, <3>1 DEF OnData, Own, TypeOK
    <3>4. \A i \in 1..got["main"] + 1 : response'[i] = Own(i)
      <4> TAKE i \in 1..got["main"] + 1
      <4>1. CASE i = got["main"] + 1
        BY <3>1, <3>2, <4>1 DEF TypeOK
      <4>2. CASE i \in 1..got["main"]
        BY <2>1, <3>1, <3>2, <4>2 DEF Solo, InPlace, TypeOK
      <4> QED
        BY <3>1, <4>1, <4>2
    <3> QED
      BY <1>0, <2>1, <3>2, <3>4 DEF InPlace, AnswerIntact, Own
  <2>2. CASE ~(t = "main" /\ pc["main"] = "login" /\ ~clash["main"])
    <3>1. ~clash["main"] => pc["main"] \notin {"login", "loggedIn"}
      BY <1>0, <1>1, <1>2, <2>2 DEF Active
    <3> QED
      BY <1>0, <3>1 DEF InPlace, AnswerIntact
  <2> QED
    BY <2>1, <2>2
<1> QED
  BY <1>2, <1>3, <1>4, <1>5 DEF Solo

(* A lone request stores the sum of what it has read last.                 *)
LEMMA CountStep ==
  ASSUME TypeOK, Solo, NEW t \in Client, Reload(t) \/ Count(t)
  PROVE  Solo'
<1> USE DEF Client
<1>0. /\ handling[t] /\ pc[t] \in {"login", "trama"} /\ Active(t) /\ Performing(t)
      /\ UNCHANGED <<pc, got, answer, response, clash>>
  BY DEF Reload, Count, Solo, Quiet, Active, Performing
<1>1. \A c \in Client : (Active(c)' <=> Active(c)) /\ (Performing(c)' <=> Performing(c))
  BY <1>0 DEF Active, Performing, Running
<1>2. Alone' /\ \A c \in Client : Active(c)' /\ ~clash'[c] => c = t
  BY <1>0, <1>1, Others DEF Solo
<1>3. Quiet'
  BY <1>0, <1>1 DEF Solo, Quiet, TypeOK, Reload, Count
<1>4. Counted'
  <2>1. ASSUME NEW c \in Client, Performing(c)', ~clash'[c]
        PROVE  /\ c = t /\ got'[c] = outputLen' + (IF handling'[c] THEN 1 ELSE 0)
               /\ handling'[c] => loaded'[c] = outputLen'
    <3>1. c = t
      BY <2>1, <1>1, <1>2 DEF Performing, Active
    <3>2. got[t] = outputLen + 1 /\ loaded[t] = outputLen
      BY <1>0, <2>1, <3>1 DEF Solo, Counted, OffsetIsOwn, TypeOK
    <3>3. CASE Reload(t)
      BY <1>0, <3>1, <3>2, <3>3 DEF Reload, TypeOK
    <3>4. CASE Count(t)
      BY <1>0, <3>1, <3>2, <3>4 DEF Count, TypeOK
    <3> QED
      BY <3>3, <3>4
  <2> QED
    BY <1>0, <1>1, <2>1 DEF Counted, OffsetIsOwn
<1>5. InPlace'
  BY <1>0 DEF Solo, InPlace, AnswerIntact, Own
<1> QED
  BY <1>2, <1>3, <1>4, <1>5 DEF Solo

(* The end of a request, however it comes.                                 *)
LEMMA EndStep ==
  ASSUME TypeOK, Solo, NEW t \in Client, OnFinish(t) \/ Fail(t) \/ Cleanup(t)
  PROVE  Solo'
<1> USE DEF Client
<1>1. CASE OnFinish(t) \/ Fail(t)
  <2> DEFINE place == IF pc[t] = "login" THEN "loggedIn" ELSE "posted"
  <2>0. /\ Active(t) /\ pc[t] \in {"login", "trama"} /\ ~handling[t] /\ Performing(t)
        /\ pc' = [pc EXCEPT ![t] = place]
        /\ UNCHANGED <<handling, loaded, got, answer, response, clash>>
    BY <1>1 DEF OnFinish, Fail, Returned, Go, Performing, Active, offset
  <2>1. \A c \in Client : /\ Active(c)' <=> Active(c)
                          /\ Performing(c)' => Performing(c) /\ c # t
    BY <2>0 DEF Active, Performing, Running, TypeOK
  <2>2. Alone' /\ \A c \in Client : Active(c)' /\ ~clash'[c] => c = t
    BY <2>0, <2>1, Others DEF Solo
  <2>3. Quiet'
    BY <2>0, <2>1 DEF Solo, Quiet, TypeOK
  <2>4. Counted'
    BY <2>0, <2>1, <2>2 DEF Counted, OffsetIsOwn, Performing, Active
  <2>5. InPlace'
    <3>1. CASE t = "main" /\ pc["main"] = "login"
      <4>1. ~clash["main"] => \A i \in 1..got["main"] : response[i] = Own(i)
        BY <3>1 DEF Solo, InPlace
      <4> QED
        BY <2>0, <3>1, <4>1 DEF InPlace, AnswerIntact, Own, Place, TypeOK
    <3>2. CASE t # "main" \/ pc["main"] # "login"
      BY <2>0, <3>2 DEF Solo, InPlace, AnswerIntact, Own, TypeOK
    <3> QED
      BY <3>1, <3>2
  <2> QED
    BY <2>2, <2>3, <2>4, <2>5 DEF Solo
<1>2. CASE Cleanup(t)
  <2>0. /\ pc[t] \in {"cleanup", "posted"} /\ outputLen' = 0
        /\ \/ pc' = [pc EXCEPT ![t] = "delay"]
           \/ pc' = [pc EXCEPT ![t] = "idle"]
        /\ got' = [got EXCEPT ![t] = 0]
        /\ clash' = [clash EXCEPT ![t] = FALSE]
        /\ UNCHANGED <<handling, loaded, answer, response>>
    BY <1>2 DEF Cleanup, End, Go
  <2>1. /\ ~Active(t)' /\ Active(t) /\ ~handling[t]
        /\ \A c \in Client : c # t => (Active(c)' <=> Active(c))
        /\ \A c \in Client : Performing(c)' => Active(c) /\ c # t
    BY <2>0 DEF Active, Performing, Running, TypeOK, Solo, Quiet
  <2>2. \A c \in Client : c # t /\ Active(c) => clash[c]
    BY <2>1 DEF Solo, Alone
  <2>3. Quiet'
    BY <2>0, <2>1 DEF Solo, Quiet, TypeOK
  <2>4. Alone'
    BY <2>0, <2>1, <2>2 DEF Alone, TypeOK
  <2>5. Counted'
    BY <2>0, <2>1, <2>2 DEF Counted, OffsetIsOwn, TypeOK
  <2>6. InPlace'
    <3>1. CASE t = "main"
      BY <2>0, <3>1 DEF InPlace, AnswerIntact, TypeOK
    <3>2. CASE t # "main"
      BY <2>0, <3>2 DEF Solo, InPlace, AnswerIntact, Own, TypeOK
    <3> QED
      BY <3>1, <3>2
  <2> QED
    BY <2>3, <2>4, <2>5, <2>6 DEF Solo
<1> QED
  BY <1>1, <1>2

(* Each step keeps the offset and the pieces of a lone request in step.    *)
LEMMA SoloStep == ASSUME TypeOK, Solo, [Next]_vars PROVE Solo'
<1> USE DEF Client
<1>1. CASE Login
  <2>1. ~Active("main") /\ Begin("main", "login") /\ UNCHANGED offset
    BY <1>1 DEF Login, Active
  <2>2. Quiet' /\ Alone' /\ Counted'
    BY <2>1, BeginStep DEF Solo
  <2>3. got'["main"] = 0 /\ pc'["main"] = "login"
    BY <2>1 DEF Begin, Go, Solo, Quiet, TypeOK
  <2>4. InPlace'
    BY <2>3 DEF InPlace, AnswerIntact
  <2> QED
    BY <2>2, <2>4 DEF Solo
<1>2. CASE Post
  <2>1. ~Active("main") /\ Begin("main", "trama") /\ UNCHANGED offset
    BY <1>2 DEF Post, Trama, Active
  <2>2. Quiet' /\ Alone' /\ Counted'
    BY <2>1, BeginStep DEF Solo
  <2>3. pc'["main"] = "trama"
    BY <2>1 DEF Begin, Go, TypeOK
  <2> QED
    BY <2>2, <2>3 DEF Solo, InPlace, AnswerIntact
<1>3. CASE SkipPost
  <2>1. /\ pc["main"] = "delay" /\ pc' = [pc EXCEPT !["main"] = "idle"]
        /\ UNCHANGED <<offset, got, clash, response, answer>>
    BY <1>3 DEF SkipPost, Go
  <2>2. \A c \in Client : Active(c)' <=> Active(c)
    BY <2>1 DEF Active, TypeOK
  <2>3. \A c \in Client : Performing(c)' => Performing(c)
    BY <2>1 DEF Performing, Running, TypeOK
  <2>4. Quiet' /\ Alone'
    BY <2>1, <2>2 DEF Solo, Quiet, Alone, offset, TypeOK
  <2>5. Counted'
    BY <2>1, <2>2, <2>3 DEF Solo, Counted, OffsetIsOwn, offset
  <2>6. InPlace'
    BY <2>1 DEF InPlace, AnswerIntact, TypeOK
  <2> QED
    BY <2>4, <2>5, <2>6 DEF Solo
<1>4. CASE Parse
  <2>1. PICK place \in {"cleanup", "crash"} : pc' = [pc EXCEPT !["main"] = place]
    BY <1>4 DEF Parse, Go
  <2>2. pc["main"] = "loggedIn" /\ UNCHANGED <<offset, got, clash, response, answer>>
    BY <1>4 DEF Parse
  <2>3. \A c \in Client : Active(c)' <=> Active(c)
    BY <2>1, <2>2 DEF Active, TypeOK
  <2>4. \A c \in Client : Performing(c)' => Performing(c)
    BY <2>1, <2>2 DEF Performing, Running, TypeOK
  <2>5. Quiet' /\ Alone'
    BY <2>1, <2>2, <2>3 DEF Solo, Quiet, Alone, offset, TypeOK
  <2>6. Counted'
    BY <2>2, <2>3, <2>4 DEF Solo, Counted, OffsetIsOwn, offset
  <2>7. InPlace'
    BY <2>1 DEF InPlace, AnswerIntact, TypeOK
  <2> QED
    BY <2>5, <2>6, <2>7 DEF Solo
<1>5. CASE Reboot
  <2>1. \A c \in Client : ~Active(c)' /\ ~Performing(c)' /\ got'[c] = 0 /\ ~clash'[c] /\ ~handling'[c]
    BY <1>5 DEF Reboot, Active, Performing
  <2>2. outputLen' = 0 /\ pc'["main"] = "idle"
    BY <1>5 DEF Reboot
  <2> QED
    BY <2>1, <2>2 DEF Solo, Quiet, Alone, Counted, OffsetIsOwn, InPlace, AnswerIntact
<1>6. ASSUME NEW b \in Buttons, Press(b) PROVE Solo'
  <2>1. b \in Client /\ ~Active(b) /\ Begin(b, "trama") /\ UNCHANGED offset
    BY <1>6 DEF Press, Trama, Active
  <2>2. Quiet' /\ Alone' /\ Counted'
    BY <2>1, BeginStep DEF Solo
  <2>3. pc'["main"] = pc["main"] /\ got' = got /\ b # "main" /\ UNCHANGED <<response, answer>>
    BY <1>6 DEF Press, Trama, Begin, Go, TypeOK
  <2>4. clash["main"] => clash'["main"]
    BY <2>1, <2>3 DEF Begin
  <2>5. InPlace'
    BY <2>3, <2>4 DEF Solo, InPlace, AnswerIntact, Own
  <2> QED
    BY <2>2, <2>5 DEF Solo
<1>7. ASSUME NEW t \in Client, OnData(t) PROVE Solo'
  BY <1>7, DataStep
<1>8. ASSUME NEW t \in Client, Reload(t) \/ Count(t) PROVE Solo'
  BY <1>8, CountStep
<1>9. ASSUME NEW t \in Client, OnFinish(t) \/ Fail(t) \/ Cleanup(t) PROVE Solo'
  BY <1>9, EndStep
<1>11. CASE UNCHANGED vars
  BY <1>11 DEF vars, offset, Solo, Quiet, Alone, Counted, OffsetIsOwn, InPlace, AnswerIntact,
     Active, Performing, Running, Own
<1> QED
  BY <1>1, <1>2, <1>3, <1>4, <1>5, <1>6, <1>7, <1>8, <1>9, <1>11 DEF Next, Step

(* The answer to a login that ran alone is in the buffer, whole and from   *)
(* the beginning, however the requests before it ended.                    *)
THEOREM LoneLoginIntact == Spec => []AnswerIntact
<1>3. Solo => AnswerIntact
  BY DEF Solo, InPlace
<1> QED
  BY <1>3, InitSolo, SoloStep, TypeCorrect, PTL DEF Spec

(* Whichever task runs it, a request that no other overlapped finds the    *)
(* offset counting its own pieces, however the requests before it ended.   *)
THEOREM LoneOffsetIsOwn == Spec => []OffsetIsOwn
<1>3. Solo => OffsetIsOwn
  BY DEF Solo, Counted
<1> QED
  BY <1>3, InitSolo, SoloStep, TypeCorrect, PTL DEF Spec
=============================================================================
