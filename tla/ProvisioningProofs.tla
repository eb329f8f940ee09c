------------------------- MODULE ProvisioningProofs -------------------------
(***************************************************************************)
(* Proofs about Provisioning, for any list of port keys, any table of the  *)
(* names they are read under, any set of names that are too long and any   *)
(* choice of endpoints: the types, that the mark of a matriculated         *)
(* board stands for a complete storage wherever power was lost, that a     *)
(* server started by app_main has its token, that the keys with a port are *)
(* found at boot, and that no setting is lost but to a reset.              *)
(***************************************************************************)
EXTENDS Provisioning, TLAPS

(* What app_main and the settings of a user must have stored.              *)
Own == Range(Identity) \cup Range(Settings)

(* The writes of app_main, and those of the HTTP server by their kind.     *)
BootWrite    == (Range(Identity) \X {"id"}) \cup (Range(Settings) \X {"factory"})
SettingWrite == (Range(Settings) \cup Unread) \X {"user"}
SetWrite     == (Ports \X {"user"}) \cup {<<Status, "1">>}
ResetWrite   == ((Range(Settings) \cup Unread) \X {"factory"})
                  \cup {<<Status, "0">>} \cup (Ports \X {"255"})

-----------------------------------------------------------------------------
(* The names of the constants, as sets.                                    *)
LEMMA Names ==
  /\ Range(Identity) = {"7_SERIAL_ID", "7_USER_ID", "7_AHSN_BASE64"}
  /\ Range(Settings) = {"4_SERVER-TIME", "1_TRAMA-TIME", "2_WIFI-AP-PASS",
                        "2_WIFI-ST-PASS", "4_URL-LOGIN", "5_TOK-HTTPSER"}
<1>1. DOMAIN Identity = {1, 2, 3}
  BY DEF Identity
<1>2. DOMAIN Settings = {1, 2, 3, 4, 5, 6}
  BY DEF Settings
<1>3. Range(Identity) = {"7_SERIAL_ID", "7_USER_ID", "7_AHSN_BASE64"}
  BY <1>1 DEF Range, Identity
<1>4. Range(Settings) = {"4_SERVER-TIME", "1_TRAMA-TIME", "2_WIFI-AP-PASS",
                         "2_WIFI-ST-PASS", "4_URL-LOGIN", "5_TOK-HTTPSER"}
  BY <1>2 DEF Range, Settings, Token
<1> QED
  BY <1>3, <1>4

(* The names of different groups are different.                            *)
LEMMA Disjoint ==
  /\ Status \notin Own \cup Unread \cup Ports
  /\ Ports \cap (Own \cup Unread) = {}
  /\ Token \in Range(Settings) /\ Token \notin Range(Identity)
  /\ Own \cap TooLong = {} /\ Status \notin TooLong
BY Names, NamesAssumption DEF Own, Status, Unread, Token

(* Every group is part of the storage.                                     *)
LEMMA KeysOfGroups ==
  /\ Own \subseteq Key /\ Unread \subseteq Key /\ Ports \subseteq Key
  /\ Status \in Key /\ Token \in Key
BY Disjoint DEF Own, Key

(* Every kind of write is one.                                             *)
LEMMA WriteTypes ==
  /\ BootWrite \subseteq Write /\ SettingWrite \subseteq Write
  /\ SetWrite \subseteq Write /\ ResetWrite \subseteq Write
<1>1. BootWrite \subseteq Write
  BY KeysOfGroups DEF BootWrite, Own, Write, Value
<1>2. Range(Settings) \cup Unread \subseteq Key
  BY KeysOfGroups DEF Own
<1>3. SettingWrite \subseteq Write
  BY <1>2 DEF SettingWrite, Write, Value
<1>4. SetWrite \subseteq Write
  BY KeysOfGroups DEF SetWrite, Write, Value
<1>5. ResetWrite \subseteq Write
  BY <1>2, KeysOfGroups DEF ResetWrite, Write, Value
<1> QED
  BY <1>1, <1>3, <1>4, <1>5

(* The name of a write.                                                    *)
LEMMA First == \A k, v : <<k, v>>[1] = k /\ <<k, v>>[2] = v
OBVIOUS

(* Puts writes the value under each of the names, in their order.          *)
LEMMA PutsIs ==
  ASSUME NEW S, NEW keys \in Seq(S), NEW v
  PROVE  /\ Puts(keys, v) \in Seq(S \X {v})
         /\ Len(Puts(keys, v)) = Len(keys)
         /\ \A i \in 1..Len(keys) : Puts(keys, v)[i] = <<keys[i], v>>
BY DEF Puts

(* The elements of a concatenation.                                        *)
LEMMA ConcatIs ==
  ASSUME NEW S, NEW s \in Seq(S), NEW t \in Seq(S), NEW c, c = s \o t
  PROVE  /\ c \in Seq(S) /\ Len(c) = Len(s) + Len(t)
         /\ \A i \in 1..Len(s) : c[i] = s[i]
         /\ \A i \in 1..Len(t) : c[Len(s) + i] = t[i]
OBVIOUS

(* An element of a sequence.                                               *)
LEMMA ElementOf ==
  ASSUME NEW S, NEW s \in Seq(S), NEW i \in 1..Len(s)
  PROVE  s[i] \in S
OBVIOUS

(* Taking the first write of a list.                                       *)
LEMMA TailIs ==
  ASSUME NEW S, NEW s \in Seq(S), s # <<>>
  PROVE  /\ Head(s) = s[1] /\ s[1] \in S /\ Len(s) \in Nat \ {0}
         /\ Tail(s) \in Seq(S) /\ Len(Tail(s)) = Len(s) - 1
         /\ \A i \in 1..Len(Tail(s)) : Tail(s)[i] = s[i + 1]
OBVIOUS

LEMMA EmptyIs == ASSUME NEW S, NEW t \in Seq(S) PROVE t = <<>> <=> Len(t) = 0
OBVIOUS

(* ... leaves nothing if it was the only one.                              *)
LEMMA TailEmpty ==
  ASSUME NEW S, NEW s \in Seq(S), s # <<>>
  PROVE  Tail(s) # <<>> <=> Len(s) # 1
<1> DEFINE t == Tail(s)
<1>1. t \in Seq(S) /\ Len(t) = Len(s) - 1 /\ Len(s) \in Nat
  BY TailIs
<1> HIDE DEF t
<1>2. t = <<>> <=> Len(t) = 0
  BY <1>1, EmptyIs
<1>3. t = <<>> <=> Len(s) = 1
  BY <1>1, <1>2
<1> QED
  BY <1>3 DEF t

-----------------------------------------------------------------------------
(* The lists of app_main and of the requests                               *)

(* app_main writes its own keys, all of them.                              *)
Boot == Puts(Identity, "id") \o Initial

LEMMA BootList ==
  /\ Boot \in Seq(BootWrite) /\ Boot # <<>>
  /\ \A k \in Own : \E i \in 1..Len(Boot) : Boot[i][1] = k
<1> DEFINE a == Puts(Identity, "id")
           b == Puts(Settings, "factory")
<1>1. Identity \in Seq(Range(Identity)) /\ Settings \in Seq(Range(Settings))
  BY Names DEF Identity, Settings, Token
<1>2. /\ a \in Seq(Range(Identity) \X {"id"}) /\ Len(a) = Len(Identity)
      /\ \A i \in 1..Len(Identity) : a[i] = <<Identity[i], "id">>
  BY <1>1, PutsIs
<1>3. /\ b \in Seq(Range(Settings) \X {"factory"}) /\ Len(b) = Len(Settings)
      /\ \A i \in 1..Len(Settings) : b[i] = <<Settings[i], "factory">>
  BY <1>1, PutsIs
<1>4. a \in Seq(BootWrite) /\ b \in Seq(BootWrite)
  <2> HIDE DEF a, b
  <2> QED
    BY <1>2, <1>3 DEF BootWrite
<1>5. Len(Identity) = 3 /\ Len(Settings) = 6
  BY DEF Identity, Settings
<1> HIDE DEF a, b
<1>6. Len(a) = 3 /\ Len(b) = 6
  BY <1>2, <1>3, <1>5
<1> DEFINE c == a \o b
<1>7. c = a \o b
  OBVIOUS
<1> HIDE DEF c
<1>8. /\ c \in Seq(BootWrite) /\ Len(c) = 9
      /\ \A i \in 1..3 : c[i] = a[i]
      /\ \A i \in 1..6 : c[3 + i] = b[i]
  <2>1. /\ c \in Seq(BootWrite) /\ Len(c) = Len(a) + Len(b)
        /\ \A i \in 1..Len(a) : c[i] = a[i]
        /\ \A i \in 1..Len(b) : c[Len(a) + i] = b[i]
    BY <1>4, <1>7, ConcatIs
  <2> QED
    BY <2>1, <1>6
<1>9. ASSUME NEW k \in Own PROVE \E i \in 1..9 : c[i][1] = k
  <2>1. CASE k \in Range(Identity)
    <3>1. PICK i \in DOMAIN Identity : k = Identity[i]
      BY <2>1 DEF Range
    <3>2. i \in 1..3
      BY <1>5, <1>1
    <3>3. a[i] = <<k, "id">>
      BY <3>1, <3>2, <1>2, <1>5
    <3>4. i \in 1..9 /\ c[i] = <<k, "id">>
      BY <3>2, <3>3, <1>8
    <3> QED
      BY <3>4, First
  <2>2. CASE k \in Range(Settings)
    <3>1. PICK i \in DOMAIN Settings : k = Settings[i]
      BY <2>2 DEF Range
    <3>2. i \in 1..6
      BY <1>5, <1>1
    <3>3. b[i] = <<k, "factory">>
      BY <3>1, <3>2, <1>3, <1>5
    <3>4. 3 + i \in 1..9 /\ c[3 + i] = <<k, "factory">>
      BY <3>2, <3>3, <1>8
    <3> QED
      BY <3>4, First
  <2> QED
    BY <2>1, <2>2 DEF Own
<1>10. c # <<>>
  <2>1. Len(<<>>) # 9
    OBVIOUS
  <2> QED
    BY <1>8, <2>1, Zenon
<1>11. c \in Seq(BootWrite) /\ c # <<>> /\ \A k \in Own : \E i \in 1..Len(c) : c[i][1] = k
  BY <1>8, <1>9, <1>10
<1>12. c = Boot
  BY DEF Boot, Initial, a, b, c
<1> QED
  BY <1>11, <1>12

(* SETPORTS: the user's port for every key, and the mark last.             *)
LEMMA SetPortsList ==
  /\ SetPorts \in Seq(SetWrite)
  /\ \A i \in 1..Len(SetPorts) : SetPorts[i] = <<Status, "1">> => i = Len(SetPorts)
  /\ \A p \in Ports : \E i \in 1..Len(SetPorts) : SetPorts[i] = <<p, "user">>
<1> DEFINE a == Puts(PortKeys, "user")
           b == <<<<Status, "1">>>>
<1>1. PortKeys \in Seq(Ports) /\ Len(PortKeys) \in Nat
  BY PortKeysAssumption DEF Ports, Range
<1>2. /\ a \in Seq(Ports \X {"user"}) /\ Len(a) = Len(PortKeys)
      /\ \A i \in 1..Len(PortKeys) : a[i] = <<PortKeys[i], "user">>
  BY <1>1, PutsIs, Zenon
<1>3. b \in Seq(SetWrite) /\ Len(b) = 1 /\ b[1] = <<Status, "1">>
  BY DEF SetWrite
<1>4. a \in Seq(SetWrite) /\ b \in Seq(SetWrite)
  <2> HIDE DEF a, b
  <2> QED
    BY <1>2, <1>3 DEF SetWrite
<1> HIDE DEF a, b
<1> DEFINE c == a \o b
<1>5. c = a \o b
  OBVIOUS
<1> HIDE DEF c
<1>6. /\ c \in Seq(SetWrite) /\ Len(c) = Len(a) + Len(b)
      /\ \A i \in 1..Len(a) : c[i] = a[i]
      /\ \A i \in 1..Len(b) : c[Len(a) + i] = b[i]
  BY <1>4, <1>5, ConcatIs
<1>7. /\ Len(c) = Len(PortKeys) + 1 /\ c[Len(PortKeys) + 1] = <<Status, "1">>
      /\ \A i \in 1..Len(PortKeys) : c[i] = <<PortKeys[i], "user">>
  <2>1. 1 \in 1..Len(b)
    BY <1>3
  <2>2. c[Len(a) + 1] = b[1]
    BY <2>1, <1>6
  <2> QED
    BY <2>2, <1>1, <1>2, <1>3, <1>6
<1>8. ASSUME NEW i \in 1..Len(c), c[i] = <<Status, "1">> PROVE i = Len(c)
  <2>1. CASE i \in 1..Len(PortKeys)
    <3>1. PortKeys[i] \in Ports
      BY <1>1, <2>1
    <3>2. PortKeys[i] = Status
      BY <1>7, <1>8, <2>1, First
    <3> QED
      BY <3>1, <3>2, Disjoint
  <2> QED
    BY <2>1, <1>1, <1>7
<1>9. ASSUME NEW p \in Ports PROVE \E i \in 1..Len(c) : c[i] = <<p, "user">>
  <2>1. PICK i \in DOMAIN PortKeys : p = PortKeys[i]
    BY DEF Ports, Range
  <2>2. i \in 1..Len(PortKeys)
    BY <1>1
  <2> QED
    BY <2>1, <2>2, <1>1, <1>7
<1>10. c = SetPorts
  BY DEF SetPorts, a, b, c
<1> QED
  BY <1>6, <1>8, <1>9, <1>10

(* DEFAULTESP: the mark goes before any of the ports.                      *)
LEMMA DefaultEspList ==
  /\ DefaultEsp \in Seq(ResetWrite)
  /\ \E j \in 1..Len(DefaultEsp) :
       /\ DefaultEsp[j] = <<Status, "0">>
       /\ \A i \in 1..Len(DefaultEsp) : DefaultEsp[i][1] \in Ports => j < i
<1> DEFINE names == <<"4_SERVER-TIME", "1_TRAMA-TIME", "2_WiFi-AP-PASS",
                      "2_WiFi-ST-PASS", "4_URL-LOGIN", Token>>
           a == Puts(names, "factory")
           b == <<<<Status, "0">>>>
           d == Puts(PortKeys, "255")
           S == Range(Settings) \cup Unread
<1>1. names \in Seq(S) /\ Len(names) = 6 /\ PortKeys \in Seq(Ports)
  <2>1. PortKeys \in Seq(Ports)
    BY PortKeysAssumption DEF Ports, Range
  <2> QED
    BY <2>1, Names DEF Token, Unread
<1> HIDE DEF names, S
<1>2. /\ a \in Seq(S \X {"factory"}) /\ Len(a) = 6
      /\ \A i \in 1..6 : a[i] = <<names[i], "factory">>
  BY <1>1, PutsIs, Zenon
<1>3. b \in Seq(ResetWrite) /\ Len(b) = 1 /\ b[1] = <<Status, "0">>
  BY DEF ResetWrite
<1>4. d \in Seq(Ports \X {"255"})
  BY <1>1, PutsIs, Zenon
<1> HIDE DEF a, b, d
<1>5. a \in Seq(ResetWrite) /\ b \in Seq(ResetWrite) /\ d \in Seq(ResetWrite)
  BY <1>2, <1>3, <1>4 DEF ResetWrite, S
<1> DEFINE c == a \o b
<1>6. c = a \o b
  OBVIOUS
<1> HIDE DEF c
<1>7. /\ c \in Seq(ResetWrite) /\ Len(c) = Len(a) + Len(b)
      /\ \A i \in 1..Len(a) : c[i] = a[i]
      /\ \A i \in 1..Len(b) : c[Len(a) + i] = b[i]
  BY <1>5, <1>6, ConcatIs
<1>8. /\ Len(c) = 7 /\ c[7] = <<Status, "0">>
      /\ \A i \in 1..6 : c[i] = <<names[i], "factory">>
  BY <1>2, <1>3, <1>7
<1> DEFINE f == c \o d
<1>9. f = c \o d
  OBVIOUS
<1> HIDE DEF f
<1>10. /\ f \in Seq(ResetWrite) /\ Len(f) = Len(c) + Len(d)
      /\ \A i \in 1..Len(c) : f[i] = c[i]
  <2>1. c \in Seq(ResetWrite)
    BY <1>7
  <2> QED
    BY <2>1, <1>5, <1>9, ConcatIs
<1>11. 7 \in 1..Len(f) /\ f[7] = <<Status, "0">>
  BY <1>5, <1>8, <1>10
<1>12. ASSUME NEW i \in 1..Len(f), f[i][1] \in Ports PROVE 7 < i
  <2>1. CASE i \in 1..6
    <3>1. f[i] = <<names[i], "factory">>
      BY <2>1, <1>8, <1>10
    <3>2. names[i] \in S
      <4>1. names \in Seq(S) /\ i \in 1..Len(names)
        BY <2>1, <1>1
      <4> QED
        BY <4>1, ElementOf
    <3> QED
      BY <3>1, <3>2, <1>12, First, Disjoint DEF Own, S
  <2>2. CASE i = 7
    BY <2>2, <1>11, <1>12, First, Disjoint
  <2> QED
    BY <2>1, <2>2, <1>10, <1>8, <1>5
<1>13. f = DefaultEsp
  BY DEF DefaultEsp, a, b, c, d, f, names
<1> QED
  BY <1>10, <1>11, <1>12, <1>13

(* The other requests write settings only.                                 *)
LEMMA SettingLists ==
  \A e \in DOMAIN Writes \ {"SETPORTS", "DEFAULTESP"} : Writes[e] \in Seq(SettingWrite)
<1> DEFINE S == Range(Settings) \cup Unread
<1>1. ASSUME NEW keys \in Seq(S) PROVE Puts(keys, "user") \in Seq(SettingWrite)
  <2>1. Puts(keys, "user") \in Seq(S \X {"user"})
    BY PutsIs
  <2> QED
    BY <2>1 DEF SettingWrite
<1>2. /\ <<"4_URL-LOGIN", Token, "4_SERVER-TIME">> \in Seq(S)
      /\ <<"2_WIFI-AP-PASS">> \in Seq(S) /\ <<"2_WIFI-ST-PASS">> \in Seq(S)
      /\ <<"1_TRAMA-TIME">> \in Seq(S) /\ <<"4_SERVERTIME">> \in Seq(S)
  BY Names DEF Token, Unread
<1> HIDE DEF S
<1>3. /\ SetHttp \in Seq(SettingWrite) /\ WifiAp \in Seq(SettingWrite)
      /\ WifiSt \in Seq(SettingWrite) /\ Trama \in Seq(SettingWrite)
      /\ Server \in Seq(SettingWrite)
  BY <1>1, <1>2 DEF SetHttp, WifiAp, WifiSt, Trama, Server
<1> QED
  BY <1>3 DEF Writes

-----------------------------------------------------------------------------
(* The invariant.                                                          *)

(* The types, with what the lists of writes are made of.                   *)
Typed ==
  /\ TypeOK
  /\ todo.main \in Seq(BootWrite)
  /\ todo.httpd \in Seq(SettingWrite \cup SetWrite \cup ResetWrite)
  /\ nvs[Token] \in {"absent", "factory", "user"}

Marked == nvs[Status] = "1"
Filled == \A k \in Own : nvs[k] # "absent"
Ported == \A p \in Ports \ TooLong : nvs[p] = "user"

(* Where app_main is tells what the storage holds.                         *)
BootOrder ==
  /\ server # "none" => main \in {"waiting", "running", "halt"}
  /\ server = "none" => cached = "absent"
  /\ server = "main" => cached # "absent"
  /\ main \in {"erase", "eraseRest", "request", "write", "serve", "halt"} => ~Marked
  /\ main \in {"load", "serveMatriculated"} => Marked
  /\ main \in {"request", "halt"} => nvs[Token] = "absent"
  /\ main = "halt" => cached = "absent"
  /\ todo.httpd # <<>> => main \in {"waiting", "running"}

(* What app_main has not stored yet, it still has to write.                *)
BootWrites ==
  main = "write" =>
    \A k \in Own : nvs[k] # "absent" \/ \E i \in 1..Len(todo.main) : todo.main[i][1] = k

(* The writes of a request: of settings; of ports, with all that are       *)
(* missing still to come and the mark last; or of a reset, which takes the *)
(* mark away before it touches a port.                                     *)
OfSettings(s) == s \in Seq(SettingWrite)
OfPorts(s) ==
  /\ s \in Seq(SetWrite)
  /\ \A i \in 1..Len(s) : s[i] = <<Status, "1">> => i = Len(s)
  /\ \A p \in Ports \ TooLong :
       nvs[p] = "user" \/ \E i \in 1..Len(s) : s[i] = <<p, "user">>
OfReset(s) ==
  /\ s \in Seq(ResetWrite)
  /\ Marked => \E j \in 1..Len(s) :
       s[j] = <<Status, "0">> /\ \A i \in 1..Len(s) : s[i][1] \in Ports => j < i

RequestWrites ==
  \/ OfSettings(todo.httpd)
  \/ OfPorts(todo.httpd)
  \/ doing = "DEFAULTESP" /\ OfReset(todo.httpd)

(* What the boot has found in the storage.                                 *)
Found ==
  main \in {"serveMatriculated", "running"} =>
    {k \in Ports \ TooLong : ReadAs[k] = k} \subseteq loaded

Sound ==
  /\ BootOrder
  /\ BootWrites
  /\ RequestWrites
  /\ Found
  /\ main \in {"serve", "waiting", "running"} \/ Marked => Filled
  /\ Marked => Ported

Inv == Typed /\ (~raced => Sound)

-----------------------------------------------------------------------------
(* A write changes the value under its name, if the storage takes it.      *)
LEMMA StoredIs ==
  ASSUME nvs \in [Key -> Value], NEW k \in Key, NEW v \in Value, NEW closed \in BOOLEAN,
         Stored(k, v, closed)
  PROVE  /\ nvs' \in [Key -> Value]
         /\ \A x \in Key : x # k => nvs'[x] = nvs[x]
         /\ nvs'[k] = IF closed \/ k \in TooLong THEN nvs[k] ELSE v
BY DEF Stored

(* The writes of every request are of the three kinds.                     *)
LEMMA RequestList ==
  ASSUME NEW e \in Endpoints
  PROVE  Writes[e] \in Seq(SettingWrite \cup SetWrite \cup ResetWrite)
<1> DEFINE S == SettingWrite \cup SetWrite \cup ResetWrite
<1>1. SetPorts \in Seq(S)
  BY SetPortsList
<1>2. DefaultEsp \in Seq(S)
  BY DefaultEspList
<1>3. \A x \in DOMAIN Writes \ {"SETPORTS", "DEFAULTESP"} : Writes[x] \in Seq(S)
  BY SettingLists
<1> HIDE DEF S
<1>4. Writes["SETPORTS"] = SetPorts /\ Writes["DEFAULTESP"] = DefaultEsp
  BY DEF Writes
<1>5. e \in DOMAIN Writes
  BY EndpointsAssumption
<1> QED
  BY <1>1, <1>2, <1>3, <1>4, <1>5 DEF S

LEMMA InitInv == Init => Inv
<1> SUFFICES ASSUME Init PROVE Inv
  OBVIOUS
<1>1. nvs \in [Key -> Value] /\ \A k \in Key : nvs[k] = "absent"
  BY DEF Init, Value
<1>2. todo.main = <<>> /\ todo.httpd = <<>>
  BY DEF Init, NoWrites
<1>3. TypeOK
  <2>1. todo \in [main : Seq(Write), httpd : Seq(Write)]
    BY DEF Init, NoWrites
  <2> QED
    BY <1>1, <1>2, <2>1 DEF Init, TypeOK, MainPlace
<1>4. Typed
  BY <1>1, <1>2, <1>3, KeysOfGroups DEF Typed
<1>5. ~Marked
  BY <1>1, KeysOfGroups DEF Marked
<1>6. BootOrder /\ BootWrites /\ Found
  BY <1>2, <1>5 DEF Init, BootOrder, BootWrites, Found
<1>7. RequestWrites
  BY <1>2 DEF RequestWrites, OfSettings
<1> QED
  BY <1>4, <1>5, <1>6, <1>7 DEF Init, Inv, Sound

-----------------------------------------------------------------------------
(* Every step keeps the types.                                             *)
LEMMA TypedStep == Typed /\ [Next]_vars => Typed'
<1> SUFFICES ASSUME Typed, [Next]_vars PROVE Typed'
  OBVIOUS
<1> DEFINE W == SettingWrite \cup SetWrite \cup ResetWrite
           T == {"absent", "factory", "user"}
<1>1. /\ nvs \in [Key -> Value] /\ main \in MainPlace
      /\ todo \in [main : Seq(Write), httpd : Seq(Write)]
      /\ todo.main # <<>> <=> main = "write"
      /\ todo.httpd # <<>> => server # "none"
      /\ doing \in Endpoints \cup {"none"} /\ loaded \subseteq Ports
      /\ server \in {"none", "main", "event"} /\ cached \in T /\ raced \in BOOLEAN
      /\ todo.main \in Seq(BootWrite) /\ todo.httpd \in Seq(W) /\ nvs[Token] \in T
  BY DEF Typed, TypeOK
<1>2. BootWrite \subseteq Write /\ W \subseteq Write
  BY WriteTypes
<1> SUFFICES
      /\ nvs' \in [Key -> Value] /\ main' \in MainPlace
      /\ todo' \in [main : Seq(Write), httpd : Seq(Write)]
      /\ todo'.main # <<>> <=> main' = "write"
      /\ todo'.httpd # <<>> => server' # "none"
      /\ doing' \in Endpoints \cup {"none"} /\ loaded' \subseteq Ports
      /\ server' \in {"none", "main", "event"} /\ cached' \in T /\ raced' \in BOOLEAN
      /\ todo'.main \in Seq(BootWrite) /\ todo'.httpd \in Seq(W) /\ nvs'[Token] \in T
  BY DEF Typed, TypeOK
<1> HIDE DEF W, T
<1>3. CASE ReadStatus
  BY <1>1, <1>3 DEF ReadStatus, MainPlace
<1>4. ASSUME NEW S \in SUBSET Key, nvs' = [k \in Key |-> IF k \in S THEN "absent" ELSE nvs[k]]
      PROVE  nvs' \in [Key -> Value] /\ nvs'[Token] \in T
  BY <1>1, <1>4, KeysOfGroups DEF Value, T
<1>5. CASE EraseFirst
  <2>1. FirstPage \in SUBSET Key
    BY KeysOfGroups DEF FirstPage, Own
  <2>2. nvs' \in [Key -> Value] /\ nvs'[Token] \in T
    BY <2>1, <1>4, <1>5 DEF EraseFirst
  <2> QED
    BY <1>1, <1>5, <2>2 DEF EraseFirst, MainPlace
<1>6. CASE EraseRest
  <2>1. nvs' = [k \in Key |-> IF k \in Key THEN "absent" ELSE nvs[k]]
    BY <1>6 DEF EraseRest
  <2>2. nvs' \in [Key -> Value] /\ nvs'[Token] \in T
    BY <2>1, <1>4
  <2> QED
    BY <1>1, <1>6, <2>2 DEF EraseRest, MainPlace
<1>7. CASE Identified
  <2>1. todo' = [todo EXCEPT !.main = Boot]
    BY <1>7 DEF Identified, Boot
  <2>2. Boot \in Seq(BootWrite) /\ Boot # <<>>
    BY BootList
  <2>3. todo'.main = Boot /\ todo'.httpd = todo.httpd
    BY <1>1, <2>1
  <2>4. Boot \in Seq(Write)
    BY <2>2, <1>2
  <2>5. todo' \in [main : Seq(Write), httpd : Seq(Write)]
    BY <1>1, <2>1, <2>4
  <2> QED
    BY <1>1, <1>7, <2>2, <2>3, <2>5 DEF Identified, MainPlace
<1>8. CASE Unidentified
  <2>1. Stored(Status, "0", FALSE)
    BY <1>8 DEF Unidentified
  <2>2. Status \in Key /\ Token \in Key /\ "0" \in Value /\ Token # Status
    BY KeysOfGroups, Disjoint DEF Value, Own
  <2>3. nvs' \in [Key -> Value] /\ nvs'[Token] = nvs[Token]
    BY <1>1, <2>1, <2>2, StoredIs
  <2> QED
    BY <1>1, <1>8, <2>3 DEF Unidentified, MainPlace
<1>9. CASE MainWrite
  <2> DEFINE s == todo.main
             w == Head(s)
  <2>1. s \in Seq(BootWrite) /\ s # <<>>
    BY <1>1, <1>9 DEF MainWrite
  <2>2. w \in BootWrite /\ Tail(s) \in Seq(BootWrite) /\ (Tail(s) # <<>> <=> Len(s) # 1)
    BY <2>1, TailIs, TailEmpty, Zenon
  <2>3. Stored(w[1], w[2], FALSE)
    BY <1>9 DEF MainWrite
  <2>4. todo' = [todo EXCEPT !.main = Tail(s)]
    BY <1>9 DEF MainWrite
  <2> HIDE DEF w
  <2>5. w[1] \in Key /\ w[2] \in Value /\ (w[1] = Token => w[2] \in T)
    BY <2>2, KeysOfGroups, Disjoint DEF BootWrite, Own, Value, T
  <2>6. nvs' \in [Key -> Value] /\ nvs'[Token] \in T
    BY <1>1, <2>3, <2>5, StoredIs, KeysOfGroups
  <2>7. todo'.main = Tail(s) /\ todo'.httpd = todo.httpd
    BY <1>1, <2>4
  <2>8. Tail(s) \in Seq(Write)
    BY <2>2, <1>2
  <2>9. todo' \in [main : Seq(Write), httpd : Seq(Write)]
    BY <1>1, <2>4, <2>8
  <2>10. main' = IF Len(s) = 1 THEN "serve" ELSE "write"
    BY <1>9 DEF MainWrite
  <2> HIDE DEF s
  <2> QED
    BY <1>1, <1>9, <2>2, <2>6, <2>7, <2>9, <2>10 DEF MainWrite, MainPlace
<1>10. CASE Load
  BY <1>1, <1>10 DEF Load, MainPlace
<1>11. CASE MainServe
  BY <1>1, <1>11 DEF MainServe, StartedBy, MainPlace
<1>12. CASE EventServe
  BY <1>1, <1>12 DEF EventServe
<1>13. CASE \E e \in Endpoints : Request(e)
  <2>0. PICK e \in Endpoints : Request(e)
    BY <1>13
  <2>1. Writes[e] \in Seq(W)
    BY RequestList DEF W
  <2>2. todo' = [todo EXCEPT !.httpd = Writes[e]]
    BY <2>0 DEF Request
  <2>3. todo'.httpd = Writes[e] /\ todo'.main = todo.main
    BY <1>1, <2>2
  <2>4. Writes[e] \in Seq(Write)
    BY <2>1, <1>2
  <2>5. todo' \in [main : Seq(Write), httpd : Seq(Write)]
    BY <1>1, <2>2, <2>4
  <2> QED
    BY <1>1, <2>0, <2>1, <2>3, <2>5 DEF Request
<1>14. CASE HttpdWrite
  <2> DEFINE s == todo.httpd
             w == Head(s)
  <2>1. s \in Seq(W) /\ s # <<>>
    BY <1>1, <1>14 DEF HttpdWrite
  <2>2. w \in W /\ Tail(s) \in Seq(W)
    BY <2>1
  <2>3. Stored(w[1], w[2], Closed)
    BY <1>14 DEF HttpdWrite
  <2>4. todo' = [todo EXCEPT !.httpd = Tail(s)]
    BY <1>14 DEF HttpdWrite
  <2> HIDE DEF w
  <2>5. w[1] \in Key /\ w[2] \in Value
    BY <2>2, <1>2 DEF Write
  <2>6. w[1] = Token => w[2] \in T
    BY <2>2, Disjoint DEF W, SettingWrite, SetWrite, ResetWrite, Own, T
  <2>7. Closed \in BOOLEAN
    BY DEF Closed
  <2>8. nvs' \in [Key -> Value] /\ nvs'[Token] \in T
    BY <1>1, <2>3, <2>5, <2>6, <2>7, StoredIs, KeysOfGroups
  <2>9. todo'.httpd = Tail(s) /\ todo'.main = todo.main
    BY <1>1, <2>4
  <2>10. Tail(s) \in Seq(Write)
    BY <2>2, <1>2
  <2>11. todo' \in [main : Seq(Write), httpd : Seq(Write)]
    BY <1>1, <2>4, <2>10
  <2> HIDE DEF s
  <2> QED
    BY <1>1, <1>14, <2>1, <2>2, <2>8, <2>9, <2>11 DEF HttpdWrite
<1>15. CASE Restart
  BY <1>1, <1>15 DEF Restart, NoWrites, MainPlace, T
<1>16. CASE UNCHANGED vars
  BY <1>1, <1>16 DEF vars, volatile
<1>17. CASE PowerLoss \/ ResetEsp \/ NullToken
  BY <1>15, <1>17 DEF PowerLoss, ResetEsp, NullToken
<1> QED
  BY <1>3, <1>5, <1>6, <1>7, <1>8, <1>9, <1>10, <1>11, <1>12, <1>13, <1>14, <1>16, <1>17
  DEF Next

-----------------------------------------------------------------------------
(* Every step keeps the rest, as long as the event loop has not started    *)
(* the server while app_main was preparing the storage.                    *)

(* A step of app_main up to the start of the server, on a storage that it  *)
(* leaves alone or that is not marked afterwards.                          *)
LEMMA Quiet ==
  ASSUME Typed, Typed', Sound, server = "none", server' = "none",
         UNCHANGED <<cached, todo>>
  PROVE  RequestWrites'
<1>1. todo'.httpd = <<>>
  BY DEF Typed, TypeOK
<1> QED
  BY <1>1 DEF RequestWrites, OfSettings

(* A step that changes neither the storage nor the writes to be done.      *)
LEMMA SameStorage ==
  ASSUME Sound, UNCHANGED <<nvs, todo, doing>>
  PROVE  /\ RequestWrites' /\ Marked' = Marked
         /\ Marked => Filled' /\ Ported'
         /\ main \in {"serve", "waiting", "running"} => Filled'
<1>1. RequestWrites'
  BY DEF Sound, RequestWrites, OfSettings, OfPorts, OfReset, Marked
<1> QED
  BY <1>1 DEF Sound, Marked, Filled, Ported

LEMMA ReadStatusSound ==
  ASSUME Typed, Typed', Sound, ReadStatus PROVE Sound'
<1>1. main = "start" /\ server = "none"
  BY DEF ReadStatus, Sound, BootOrder, Typed, TypeOK
<1>2. BootOrder'
  BY <1>1 DEF ReadStatus, Typed, TypeOK, Sound, BootOrder, Marked
<1> QED
  BY <1>1, <1>2, SameStorage DEF ReadStatus, Sound, BootWrites, Found

LEMMA EraseSound ==
  ASSUME Typed, Typed', Sound, EraseFirst \/ EraseRest PROVE Sound'
<1>1. main \in {"erase", "eraseRest"} /\ server = "none" /\ cached = "absent" /\ ~Marked
  BY DEF EraseFirst, EraseRest, Sound, BootOrder
<1>2. /\ server' = "none" /\ cached' = "absent" /\ UNCHANGED <<cached, todo>>
      /\ main' \in {"eraseRest", "request"}
  BY <1>1 DEF EraseFirst, EraseRest
<1>3. ~Marked'
  BY <1>1, KeysOfGroups DEF EraseFirst, EraseRest, Marked
<1>4. main' = "request" => nvs'[Token] = "absent"
  BY KeysOfGroups DEF EraseFirst, EraseRest
<1>5. todo'.httpd = <<>>
  BY <1>2 DEF Typed, TypeOK
<1>6. BootOrder'
  BY <1>2, <1>3, <1>4, <1>5 DEF BootOrder
<1>7. RequestWrites'
  BY <1>1, <1>2, Quiet
<1> QED
  BY <1>2, <1>3, <1>6, <1>7 DEF Sound, BootWrites, Found

LEMMA IdentifiedSound ==
  ASSUME Typed, Typed', Sound, Identified PROVE Sound'
<1>1. /\ main = "request" /\ main' = "write" /\ server = "none" /\ cached = "absent"
      /\ ~Marked /\ UNCHANGED <<nvs, server, cached>>
  BY DEF Identified, Sound, BootOrder
<1>2. todo'.main = Boot /\ todo'.httpd = <<>>
  <2>1. todo' = [todo EXCEPT !.main = Boot]
    BY DEF Identified, Boot
  <2> QED
    BY <1>1, <2>1 DEF Typed, TypeOK
<1>3. BootOrder' /\ ~Marked'
  BY <1>1, <1>2 DEF BootOrder, Marked
<1>4. BootWrites'
  BY <1>2, BootList DEF BootWrites
<1>5. RequestWrites'
  BY <1>2 DEF RequestWrites, OfSettings
<1> QED
  BY <1>1, <1>3, <1>4, <1>5 DEF Sound, Found

LEMMA UnidentifiedSound ==
  ASSUME Typed, Typed', Sound, Unidentified PROVE Sound'
<1>1. /\ main' = "halt" /\ server = "none" /\ cached = "absent" /\ nvs[Token] = "absent"
      /\ UNCHANGED <<server, cached, todo>>
  BY DEF Unidentified, Sound, BootOrder
<1>2. nvs'[Status] = "0" /\ nvs'[Token] = nvs[Token]
  <2>1. Stored(Status, "0", FALSE) /\ nvs \in [Key -> Value]
    BY DEF Unidentified, Typed, TypeOK
  <2>2. /\ Status \in Key /\ Token \in Key /\ "0" \in Value /\ Token # Status
        /\ Status \notin TooLong
    BY KeysOfGroups, Disjoint DEF Value, Own
  <2> QED
    BY <2>1, <2>2, StoredIs
<1>3. ~Marked'
  BY <1>2 DEF Marked
<1>4. todo'.httpd = <<>>
  BY <1>1 DEF Typed, TypeOK
<1>5. BootOrder'
  BY <1>1, <1>2, <1>3, <1>4 DEF BootOrder
<1>6. RequestWrites'
  BY <1>1, Quiet
<1> QED
  BY <1>1, <1>3, <1>5, <1>6 DEF Sound, BootWrites, Found

(* A write of app_main is of one of its own keys, which is there from then *)
(* on; after the last one all are there, whoever else writes.              *)
LEMMA MainWriteKeeps ==
  ASSUME Typed, BootWrites, MainWrite
  PROVE  /\ BootWrites' /\ (main' = "serve" => Filled')
         /\ nvs'[Status] = nvs[Status]
<1> DEFINE s == todo.main
           w == Head(s)
<1>1. /\ main = "write" /\ main' = IF Len(s) = 1 THEN "serve" ELSE "write"
      /\ todo' = [todo EXCEPT !.main = Tail(s)] /\ Stored(w[1], w[2], FALSE)
  BY DEF MainWrite
<1>2. s \in Seq(BootWrite) /\ s # <<>> /\ nvs \in [Key -> Value]
  BY <1>1 DEF Typed, TypeOK
<1>3. todo'.main = Tail(s)
  BY <1>1 DEF Typed, TypeOK
<1>4. \A k \in Own : nvs[k] # "absent" \/ \E i \in 1..Len(s) : s[i][1] = k
  BY <1>1 DEF BootWrites
<1> HIDE DEF s
<1>5. /\ w = s[1] /\ w \in BootWrite /\ Len(s) \in Nat \ {0}
      /\ Len(Tail(s)) = Len(s) - 1 /\ \A i \in 1..Len(Tail(s)) : Tail(s)[i] = s[i + 1]
  BY <1>2, TailIs
<1> HIDE DEF w
<1>6. w[1] \in Own /\ w[2] \in {"id", "factory"}
  BY <1>5 DEF BootWrite, Own
<1>7. /\ w[1] \in Key /\ w[1] # Status /\ w[1] \notin TooLong
      /\ w[2] \in Value /\ w[2] # "absent"
  BY <1>6, KeysOfGroups, Disjoint DEF Value
<1>8. (\A x \in Key : x # w[1] => nvs'[x] = nvs[x]) /\ nvs'[w[1]] = w[2]
  BY <1>1, <1>2, <1>7, StoredIs
<1>9. nvs'[Status] = nvs[Status]
  BY <1>7, <1>8, KeysOfGroups
<1>10. \A k \in Own : nvs'[k] # "absent" \/ \E i \in 2..Len(s) : s[i][1] = k
  <2> SUFFICES ASSUME NEW k \in Own, k # w[1]
               PROVE  nvs'[k] # "absent" \/ \E i \in 2..Len(s) : s[i][1] = k
    BY <1>7, <1>8
  <2>1. nvs'[k] = nvs[k]
    BY <1>8, KeysOfGroups
  <2>2. ASSUME NEW i \in 1..Len(s), s[i][1] = k PROVE i \in 2..Len(s)
    BY <2>2, <1>5
  <2> QED
    BY <2>1, <2>2, <1>4
<1>11. BootWrites'
  <2> SUFFICES ASSUME NEW k \in Own, NEW i \in 2..Len(s), s[i][1] = k
               PROVE  \E j \in 1..Len(Tail(s)) : Tail(s)[j][1] = k
    BY <1>3, <1>10 DEF BootWrites
  <2>1. i - 1 \in 1..Len(Tail(s))
    BY <1>5
  <2>2. Tail(s)[i - 1] = s[i]
    BY <2>1, <1>5
  <2> QED
    BY <2>1, <2>2
<1>12. main' = "serve" => Filled'
  BY <1>1, <1>10, <1>5 DEF Filled
<1> QED
  BY <1>9, <1>11, <1>12

LEMMA MainWriteSound ==
  ASSUME Typed, Typed', Sound, MainWrite PROVE Sound'
<1>1. /\ main = "write" /\ main' \in {"serve", "write"}
      /\ server = "none" /\ cached = "absent" /\ ~Marked /\ UNCHANGED <<server, cached>>
      /\ todo' = [todo EXCEPT !.main = Tail(todo.main)]
  BY DEF MainWrite, Sound, BootOrder
<1>2. todo'.httpd = todo.httpd /\ todo.httpd = <<>>
  BY <1>1 DEF Typed, TypeOK
<1>3. ~Marked' /\ BootWrites' /\ (main' = "serve" => Filled')
  BY <1>1, MainWriteKeeps DEF Sound, Marked
<1>4. BootOrder'
  BY <1>1, <1>2, <1>3 DEF BootOrder
<1>5. RequestWrites'
  BY <1>2 DEF RequestWrites, OfSettings
<1> QED
  BY <1>1, <1>3, <1>4, <1>5 DEF Sound, Found

LEMMA LoadSound ==
  ASSUME Typed, Typed', Sound, Load PROVE Sound'
<1>1. /\ main = "load" /\ main' = "serveMatriculated" /\ Marked
      /\ server = "none" /\ cached = "absent"
      /\ UNCHANGED <<nvs, todo, doing, server, cached>>
  BY DEF Load, Sound, BootOrder
<1>2. BootOrder'
  BY <1>1 DEF Typed, TypeOK, BootOrder, Marked
<1>3. Found'
  <2>1. ASSUME NEW k \in Ports \ TooLong, ReadAs[k] = k PROVE HasPort(nvs[ReadAs[k]])
    BY <1>1, <2>1 DEF Sound, Ported, HasPort
  <2> QED
    BY <2>1 DEF Load, Found
<1> QED
  BY <1>1, <1>2, <1>3, SameStorage DEF Sound, BootWrites

LEMMA MainServeSound ==
  ASSUME Typed, Typed', Sound, MainServe PROVE Sound'
<1>1. /\ main \in {"serve", "serveMatriculated"} /\ server = "none"
      /\ server' = "main" /\ cached' = nvs[Token]
      /\ main' = IF main = "serve" THEN "waiting" ELSE "running"
      /\ UNCHANGED <<nvs, todo, doing, loaded>>
  BY DEF MainServe, StartedBy, Sound, BootOrder
<1>2. Filled
  BY <1>1 DEF Sound, BootOrder
<1>3. cached' # "absent"
  BY <1>1, <1>2, Disjoint DEF Filled, Own
<1>4. BootOrder'
  BY <1>1, <1>3 DEF BootOrder
<1>5. Filled'
  BY <1>1, <1>2 DEF Filled
<1>6. Found'
  BY <1>1 DEF Sound, Found
<1> QED
  BY <1>1, <1>4, <1>5, <1>6, SameStorage DEF Sound, BootWrites

LEMMA EventServeSound ==
  ASSUME Typed, Typed', Sound, EventServe, ~raced' PROVE Sound'
<1>1. /\ main = "halt" /\ main' = "halt" /\ server' = "event" /\ cached' = "absent"
      /\ UNCHANGED <<nvs, todo, doing, loaded>> /\ ~Marked /\ todo.httpd = <<>>
      /\ nvs[Token] = "absent"
  BY DEF EventServe, Sound, BootOrder, Typed, TypeOK
<1>2. BootOrder'
  BY <1>1 DEF BootOrder, Marked
<1> QED
  BY <1>1, <1>2, SameStorage DEF Sound, BootWrites, Found

LEMMA RequestSound ==
  ASSUME Typed, Typed', Sound, NEW e \in Endpoints, Request(e) PROVE Sound'
<1>1. /\ main \in {"waiting", "running"} /\ doing' = e
      /\ todo' = [todo EXCEPT !.httpd = Writes[e]]
      /\ UNCHANGED <<nvs, main, loaded, server, cached>>
  BY DEF Request, Sound, BootOrder
<1>2. todo'.httpd = Writes[e]
  BY <1>1 DEF Typed, TypeOK
<1>3. BootOrder'
  BY <1>1 DEF Sound, BootOrder, Marked
<1>4. RequestWrites'
  <2>1. CASE e = "SETPORTS"
    <3>1. todo'.httpd = SetPorts
      BY <1>2, <2>1 DEF Writes
    <3>2. OfPorts(SetPorts)'
      BY SetPortsList DEF OfPorts
    <3> QED
      BY <3>1, <3>2 DEF RequestWrites, OfPorts
  <2>2. CASE e = "DEFAULTESP"
    <3>1. todo'.httpd = DefaultEsp
      BY <1>2, <2>2 DEF Writes
    <3>2. OfReset(DefaultEsp)'
      BY DefaultEspList DEF OfReset
    <3> QED
      BY <1>1, <2>2, <3>1, <3>2 DEF RequestWrites, OfReset, Marked
  <2>3. CASE e \notin {"SETPORTS", "DEFAULTESP"}
    BY <1>2, <2>3, SettingLists, EndpointsAssumption DEF RequestWrites, OfSettings
  <2> QED
    BY <2>1, <2>2, <2>3
<1>5. (Marked' = Marked) /\ (Filled' = Filled) /\ (Ported' = Ported)
  BY <1>1 DEF Marked, Filled, Ported
<1> QED
  BY <1>1, <1>3, <1>4, <1>5 DEF Sound, BootWrites, Found

LEMMA HttpdWriteSound ==
  ASSUME Typed, Typed', Sound, HttpdWrite PROVE Sound'
<1> DEFINE s == todo.httpd
           w == Head(s)
           t == Tail(s)
<1>1. /\ s # <<>> /\ main \in {"waiting", "running"} /\ Filled
      /\ todo' = [todo EXCEPT !.httpd = t] /\ Stored(w[1], w[2], Closed)
      /\ UNCHANGED <<main, doing, loaded, server, cached>>
  BY DEF HttpdWrite, Sound, BootOrder
<1>2. ~Closed
  BY <1>1 DEF Closed
<1>3. /\ s \in Seq(SettingWrite \cup SetWrite \cup ResetWrite)
      /\ nvs \in [Key -> Value] /\ todo'.httpd = t
  BY <1>1 DEF Typed, TypeOK
<1>4. OfSettings(s) \/ OfPorts(s) \/ (doing = "DEFAULTESP" /\ OfReset(s))
  BY DEF Sound, RequestWrites
<1> HIDE DEF s
<1>5. /\ w = s[1] /\ w \in SettingWrite \cup SetWrite \cup ResetWrite
      /\ Len(s) \in Nat \ {0} /\ Len(t) = Len(s) - 1
      /\ \A i \in 1..Len(t) : t[i] = s[i + 1]
  BY <1>1, <1>3, TailIs
<1>6. \A i \in 2..Len(s) : i - 1 \in 1..Len(t) /\ t[i - 1] = s[i]
  BY <1>5
<1> HIDE DEF w, t
<1>7. w[1] \in Key /\ w[2] \in Value /\ w[2] # "absent"
  <2>1. w[1] \in Key /\ w[2] \in Value
    BY <1>5, WriteTypes DEF Write
  <2> QED
    BY <2>1, <1>5 DEF SettingWrite, SetWrite, ResetWrite
<1>8. /\ \A x \in Key : x # w[1] => nvs'[x] = nvs[x]
      /\ w[1] \notin TooLong => nvs'[w[1]] = w[2]
  <2>1. Stored(w[1], w[2], FALSE)
    BY <1>1, <1>2 DEF Stored
  <2> QED
    BY <2>1, <1>3, <1>7, StoredIs
<1>9. Filled'
  <2> SUFFICES ASSUME NEW k \in Own PROVE nvs'[k] # "absent"
    BY DEF Filled
  <2>1. k \in Key /\ k \notin TooLong /\ nvs[k] # "absent"
    BY <1>1, KeysOfGroups, Disjoint DEF Filled
  <2> QED
    BY <2>1, <1>7, <1>8
<1>10. RequestWrites' /\ (Marked' => Ported')
  <2>1. CASE OfSettings(s)
    <3>1. w \in SettingWrite /\ t \in Seq(SettingWrite)
      BY <2>1, <1>1, TailIs DEF OfSettings, w, t
    <3>2. w[1] # Status /\ w[1] \notin Ports
      BY <3>1, Disjoint DEF SettingWrite, Own
    <3>3. nvs'[Status] = nvs[Status] /\ \A p \in Ports : nvs'[p] = nvs[p]
      BY <3>2, <1>8, KeysOfGroups
    <3>4. Marked' => Ported'
      BY <3>3 DEF Sound, Marked, Ported
    <3> QED
      BY <3>1, <3>4, <1>3 DEF RequestWrites, OfSettings
  <2>2. CASE OfPorts(s)
    <3>1. w \in SetWrite /\ t \in Seq(SetWrite)
      BY <2>2, <1>1, TailIs DEF OfPorts, w, t
    <3>2. CASE w \in Ports \X {"user"}
      <4>1. w[1] \in Ports /\ w[2] = "user" /\ w[1] # Status
        BY <3>2, Disjoint
      <4>2. nvs'[Status] = nvs[Status]
        BY <4>1, <1>8, KeysOfGroups
      <4>3. \A p \in Ports \ TooLong : nvs[p] = "user" \/ p = w[1] => nvs'[p] = "user"
        BY <4>1, <1>8, KeysOfGroups
      <4>4. Marked' => Ported'
        BY <4>2, <4>3 DEF Sound, Marked, Ported
      <4>5. \A i \in 1..Len(t) : t[i] = <<Status, "1">> => i = Len(t)
        <5> SUFFICES ASSUME NEW i \in 1..Len(t), t[i] = <<Status, "1">> PROVE i = Len(t)
          OBVIOUS
        <5>1. i + 1 \in 1..Len(s) /\ s[i + 1] = <<Status, "1">>
          BY <1>5
        <5>2. i + 1 = Len(s)
          BY <5>1, <2>2 DEF OfPorts
        <5> QED
          BY <5>2, <1>5
      <4>6. ASSUME NEW p \in Ports \ TooLong, nvs'[p] # "user"
            PROVE  \E i \in 1..Len(t) : t[i] = <<p, "user">>
        <5>1. nvs[p] # "user" /\ p # w[1]
          BY <4>3, <4>6
        <5>2. PICK i \in 1..Len(s) : s[i] = <<p, "user">>
          BY <5>1, <2>2 DEF OfPorts
        <5>3. i # 1
          BY <5>1, <5>2, <1>5, First
        <5>4. i \in 2..Len(s)
          BY <5>3, <1>5
        <5> QED
          BY <5>2, <5>4, <1>6
      <4>7. \A p \in Ports \ TooLong :
              nvs'[p] = "user" \/ \E i \in 1..Len(t) : t[i] = <<p, "user">>
        BY <4>6
      <4> QED
        BY <3>1, <4>4, <4>5, <4>7, <1>3 DEF RequestWrites, OfPorts
    <3>3. CASE w = <<Status, "1">>
      <4>1. Len(s) = 1
        <5>1. 1 \in 1..Len(s) /\ s[1] = <<Status, "1">>
          BY <3>3, <1>5
        <5> QED
          BY <5>1, <2>2 DEF OfPorts
      <4>2. t = <<>>
        BY <4>1, <1>1, <1>3, TailEmpty DEF t
      <4>3. \A p \in Ports \ TooLong : nvs[p] = "user"
        <5> SUFFICES ASSUME NEW p \in Ports \ TooLong PROVE nvs[p] = "user"
          OBVIOUS
        <5>1. nvs[p] = "user" \/ \E i \in 1..Len(s) : s[i] = <<p, "user">>
          BY <2>2 DEF OfPorts
        <5>2. ASSUME NEW i \in 1..Len(s), s[i] = <<p, "user">> PROVE FALSE
          <6>1. i \in 1..1
            BY <4>1
          <6>2. i = 1
            BY <6>1
          <6>3. p = Status
            BY <6>2, <5>2, <3>3, <1>5, First
          <6> QED
            BY <6>3, Disjoint
        <5> QED
          BY <5>1, <5>2
      <4>4. \A p \in Ports : nvs'[p] = nvs[p]
        BY <3>3, <1>8, First, Disjoint, KeysOfGroups
      <4>5. Ported'
        BY <4>3, <4>4 DEF Ported
      <4> QED
        BY <4>2, <4>5, <1>3 DEF RequestWrites, OfSettings
    <3> QED
      BY <3>1, <3>2, <3>3 DEF SetWrite
  <2>3. CASE doing = "DEFAULTESP" /\ OfReset(s)
    <3>1. w \in ResetWrite /\ t \in Seq(ResetWrite)
      BY <2>3, <1>1, TailIs DEF OfReset, w, t
    <3>2. SUFFICES /\ Marked' => Ported'
                   /\ Marked' => \E j \in 1..Len(t) :
                        t[j] = <<Status, "0">>
                          /\ \A i \in 1..Len(t) : t[i][1] \in Ports => j < i
      BY <2>3, <3>1, <1>1, <1>3 DEF RequestWrites, OfReset
    <3>3. CASE w = <<Status, "0">>
      <4>1. nvs'[Status] = "0"
        BY <3>3, <1>8, First, Disjoint
      <4> QED
        BY <4>1 DEF Marked
    <3>4. CASE w \in (Range(Settings) \cup Unread) \X {"factory"}
      <4>1. w[1] # Status /\ w[1] \notin Ports
        BY <3>4, Disjoint DEF Own
      <4>2. nvs'[Status] = nvs[Status] /\ \A p \in Ports : nvs'[p] = nvs[p]
        BY <4>1, <1>8, KeysOfGroups
      <4>3. Marked' => Marked /\ Ported'
        BY <4>2 DEF Sound, Marked, Ported
      <4>4. ASSUME Marked
            PROVE  \E j \in 1..Len(t) : t[j] = <<Status, "0">>
                     /\ \A i \in 1..Len(t) : t[i][1] \in Ports => j < i
        <5>1. PICK j \in 1..Len(s) :
                s[j] = <<Status, "0">> /\ \A i \in 1..Len(s) : s[i][1] \in Ports => j < i
          BY <4>4, <2>3 DEF OfReset
        <5>2. j # 1
          BY <5>1, <4>1, <1>5, First
        <5>3. j \in 2..Len(s)
          BY <5>2, <1>5
        <5>4. j - 1 \in 1..Len(t) /\ t[j - 1] = <<Status, "0">>
          BY <5>1, <5>3, <1>6
        <5>5. ASSUME NEW i \in 1..Len(t), t[i][1] \in Ports PROVE j - 1 < i
          <6>1. i + 1 \in 1..Len(s) /\ s[i + 1] = t[i]
            BY <1>5
          <6>2. j < i + 1
            BY <6>1, <5>5, <5>1
          <6> QED
            BY <6>2
        <5> QED
          BY <5>4, <5>5
      <4> QED
        BY <4>3, <4>4
    <3>5. CASE w \in Ports \X {"255"}
      <4>1. w[1] \in Ports /\ w[1] # Status
        BY <3>5, Disjoint
      <4>2. ~Marked
        <5> SUFFICES ASSUME Marked PROVE FALSE
          OBVIOUS
        <5>1. PICK j \in 1..Len(s) : \A i \in 1..Len(s) : s[i][1] \in Ports => j < i
          BY <2>3 DEF OfReset
        <5>2. 1 \in 1..Len(s) /\ s[1][1] \in Ports
          BY <4>1, <1>5
        <5>3. j < 1
          BY <5>1, <5>2
        <5> QED
          BY <5>3
      <4>3. nvs'[Status] = nvs[Status]
        BY <4>1, <1>8, KeysOfGroups
      <4> QED
        BY <4>2, <4>3 DEF Marked
    <3> QED
      BY <3>1, <3>3, <3>4, <3>5 DEF ResetWrite
  <2> QED
    BY <1>4, <2>1, <2>2, <2>3
<1>11. BootOrder'
  BY <1>1 DEF Sound, BootOrder
<1> QED
  BY <1>1, <1>9, <1>10, <1>11 DEF Sound, BootWrites, Found

LEMMA RestartSound ==
  ASSUME Typed, Typed', Sound, Restart PROVE Sound'
<1>1. /\ main' = "start" /\ server' = "none" /\ cached' = "absent" /\ UNCHANGED nvs
      /\ todo'.httpd = <<>>
  BY DEF Restart, NoWrites
<1>2. BootOrder' /\ RequestWrites'
  BY <1>1 DEF BootOrder, RequestWrites, OfSettings
<1> QED
  BY <1>1, <1>2 DEF Sound, BootWrites, Found, Marked, Filled, Ported

LEMMA SoundStep ==
  ASSUME Typed, Typed', Sound, ~raced', [Next]_vars PROVE Sound'
<1>1. CASE UNCHANGED vars
  BY <1>1 DEF vars, volatile, Sound, BootOrder, BootWrites, RequestWrites, Found,
              OfSettings, OfPorts, OfReset, Marked, Filled, Ported
<1>2. CASE PowerLoss \/ ResetEsp \/ NullToken
  BY <1>2, RestartSound DEF PowerLoss, ResetEsp, NullToken
<1>3. CASE \E e \in Endpoints : Request(e)
  BY <1>3, RequestSound
<1>4. CASE \/ ReadStatus \/ EraseFirst \/ EraseRest \/ Identified \/ Unidentified
           \/ MainWrite \/ Load \/ MainServe \/ EventServe \/ HttpdWrite
  BY <1>4, ReadStatusSound, EraseSound, IdentifiedSound, UnidentifiedSound,
     MainWriteSound, LoadSound, MainServeSound, EventServeSound, HttpdWriteSound
<1> QED
  BY <1>1, <1>2, <1>3, <1>4 DEF Next

LEMMA InvStep == Inv /\ [Next]_vars => Inv'
<1> SUFFICES ASSUME Inv, [Next]_vars PROVE Inv'
  OBVIOUS
<1>1. Typed /\ Typed'
  BY TypedStep DEF Inv
<1>2. ASSUME ~raced' PROVE ~raced
  BY <1>2 DEF Next, vars, volatile, ReadStatus, EraseFirst, EraseRest, Identified,
     Unidentified, MainWrite, Load, MainServe, EventServe, Request, HttpdWrite,
     PowerLoss, ResetEsp, NullToken, Restart
<1>3. ASSUME ~raced' PROVE Sound'
  BY <1>1, <1>2, <1>3, SoundStep DEF Inv
<1> QED
  BY <1>1, <1>3 DEF Inv

LEMMA Invariance == Spec => []Inv
<1> QED
  BY InitInv, InvStep, PTL DEF Spec

-----------------------------------------------------------------------------
(* The types hold in every state.                                          *)
THEOREM TypeCorrect == Spec => []TypeOK
<1>1. Inv => TypeOK
  BY DEF Inv, Typed
<1> QED
  BY <1>1, Invariance, PTL

(* Wherever the power was lost, the mark "1" stands for a complete         *)
(* storage: identity, settings and every port the storage accepts.         *)
THEOREM MarkMeansComplete == Spec => []MatriculatedComplete
<1>1. Inv => MatriculatedComplete
  BY DEF Inv, Sound, MatriculatedComplete, Marked, Filled, Ported, Own
<1> QED
  BY <1>1, Invariance, PTL

(* A server that app_main has started has a token to compare with.         *)
THEOREM TokenThere == Spec => []TokenUsable
<1>1. Inv => TokenUsable
  BY DEF Inv, Sound, BootOrder, TokenUsable
<1> QED
  BY <1>1, Invariance, PTL

(* A matriculated board that runs has found every key that is stored and   *)
(* looked for under the same name.                                         *)
THEOREM KeysFound == Spec => []ConfiguredKeysLoaded
<1>1. Inv => ConfiguredKeysLoaded
  BY DEF Inv, Sound, Found, ConfiguredKeysLoaded
<1> QED
  BY <1>1, Invariance, PTL

(* A matriculated board never loses a setting of its user, at power        *)
(* failures and boots included, except to a reset to the defaults.         *)
THEOREM SettingsKept == Spec => SettingsSurvive
<1> DEFINE Lost(k) == nvs[Status] = "1" /\ ~raced /\ nvs[k] = "user" /\ nvs'[k] # "user"
           Step == \A k \in Range(Settings) :
                     Lost(k) => doing = "DEFAULTESP" /\ todo.httpd # <<>>
<1>1. ASSUME Inv, [Next]_vars PROVE Step
  <2> SUFFICES ASSUME NEW k \in Range(Settings), Lost(k)
               PROVE  doing = "DEFAULTESP" /\ todo.httpd # <<>>
    OBVIOUS
  <2>1. /\ Sound /\ Marked /\ nvs[k] = "user" /\ nvs'[k] # "user"
        /\ nvs \in [Key -> Value]
    BY <1>1 DEF Inv, Typed, TypeOK, Marked
  <2>2. main \notin {"erase", "eraseRest", "request", "write"}
    BY <2>1 DEF Sound, BootOrder
  <2>3. HttpdWrite
    BY <1>1, <2>1, <2>2 DEF Next, vars, volatile, ReadStatus, EraseFirst, EraseRest,
       Identified, Unidentified, MainWrite, Load, MainServe, EventServe, Request,
       PowerLoss, ResetEsp, NullToken, Restart
  <2> DEFINE s == todo.httpd
             w == Head(s)
  <2>4. s # <<>> /\ Stored(w[1], w[2], Closed)
    BY <2>3 DEF HttpdWrite
  <2>5. s \in Seq(SettingWrite \cup SetWrite \cup ResetWrite)
    BY <1>1 DEF Inv, Typed
  <2>6. w \in SettingWrite \cup SetWrite \cup ResetWrite
    BY <2>4, <2>5, TailIs
  <2>7. OfSettings(s) \/ OfPorts(s) \/ (doing = "DEFAULTESP" /\ OfReset(s))
    BY <2>1 DEF Sound, RequestWrites
  <2>8. OfSettings(s) => w \in SettingWrite
    BY <2>4, TailIs DEF OfSettings
  <2>9. OfPorts(s) => w \in SetWrite
    BY <2>4, TailIs DEF OfPorts
  <2> HIDE DEF s, w
  <2>10. w[1] \in Key /\ w[2] \in Value
    BY <2>6, WriteTypes DEF Write
  <2>11. Closed \in BOOLEAN
    BY DEF Closed
  <2>12. (\A x \in Key : x # w[1] => nvs'[x] = nvs[x])
         /\ nvs'[w[1]] = IF Closed \/ w[1] \in TooLong THEN nvs[w[1]] ELSE w[2]
    BY <2>1, <2>4, <2>10, <2>11, StoredIs
  <2>13. k = w[1] /\ w[2] # "user"
    BY <2>1, <2>12, KeysOfGroups DEF Own
  <2>14. w \notin SettingWrite
    BY <2>13 DEF SettingWrite
  <2>15. w \notin SetWrite
    BY <2>13, Disjoint DEF SetWrite, Own
  <2> QED
    BY <2>4, <2>7, <2>8, <2>9, <2>14, <2>15 DEF s
<1>2. ASSUME Inv, [Next]_vars PROVE [Step]_vars
  BY <1>1, <1>2
<1> QED
  BY <1>2, Invariance, PTL DEF Spec, SettingsSurvive

-----------------------------------------------------------------------------
(* What holds even of a boot in which the event loop has started the       *)
(* server while app_main was still erasing and writing.                    *)
Prepared == BootWrites /\ (main \in {"serve", "waiting"} => Filled)

(* No request takes one of the own keys away.                              *)
LEMMA HttpdWriteKeeps ==
  ASSUME Typed, HttpdWrite, NEW k \in Own, nvs[k] # "absent"
  PROVE  nvs'[k] # "absent"
<1> DEFINE w == Head(todo.httpd)
<1>1. todo.httpd # <<>> /\ Stored(w[1], w[2], Closed) /\ Closed \in BOOLEAN
  BY DEF HttpdWrite, Closed
<1>2. w \in SettingWrite \cup SetWrite \cup ResetWrite
  BY <1>1, TailIs DEF Typed
<1>3. nvs \in [Key -> Value]
  BY DEF Typed, TypeOK
<1> HIDE DEF w
<1>4. w[1] \in Key /\ w[2] \in Value
  BY <1>2, WriteTypes DEF Write
<1>5. w[2] # "absent"
  BY <1>2 DEF SettingWrite, SetWrite, ResetWrite
<1>6. /\ \A x \in Key : x # w[1] => nvs'[x] = nvs[x]
      /\ nvs'[w[1]] = IF Closed \/ w[1] \in TooLong THEN nvs[w[1]] ELSE w[2]
  BY <1>1, <1>3, <1>4, StoredIs
<1> QED
  BY <1>5, <1>6, KeysOfGroups

LEMMA PreparedStep == ASSUME Typed, Prepared, [Next]_vars PROVE Prepared'
<1>1. CASE MainWrite
  <2>1. main' \in {"serve", "write"}
    BY <1>1 DEF MainWrite
  <2> QED
    BY <1>1, <2>1, MainWriteKeeps DEF Prepared
<1>2. CASE Identified
  <2>1. main' = "write" /\ todo' = [todo EXCEPT !.main = Boot]
    BY <1>2 DEF Identified, Boot
  <2>2. todo'.main = Boot
    BY <2>1 DEF Typed, TypeOK
  <2> QED
    BY <2>1, <2>2, BootList DEF Prepared, BootWrites
<1>3. CASE HttpdWrite
  <2>1. \A k \in Own : nvs[k] # "absent" => nvs'[k] # "absent"
    BY <1>3, HttpdWriteKeeps
  <2>2. main' = main /\ todo'.main = todo.main
    BY <1>3 DEF HttpdWrite, Typed, TypeOK
  <2> QED
    BY <2>1, <2>2 DEF Prepared, BootWrites, Filled
<1>4. CASE \E e \in Endpoints : Request(e)
  <2>1. nvs' = nvs /\ main' = main /\ todo'.main = todo.main
    BY <1>4 DEF Request, Typed, TypeOK
  <2> QED
    BY <2>1 DEF Prepared, BootWrites, Filled
<1>5. CASE MainServe
  <2>1. nvs' = nvs /\ main' \in {"waiting", "running"} /\ (main' = "waiting" => main = "serve")
    BY <1>5 DEF MainServe
  <2> QED
    BY <2>1 DEF Prepared, BootWrites, Filled
<1>6. CASE EventServe \/ UNCHANGED vars
  <2>1. UNCHANGED <<nvs, main, todo>>
    BY <1>6 DEF EventServe, vars, volatile
  <2> QED
    BY <2>1 DEF Prepared, BootWrites, Filled
<1>7. CASE ReadStatus \/ EraseFirst \/ EraseRest \/ Unidentified \/ Load
           \/ PowerLoss \/ ResetEsp \/ NullToken
  <2>1. main' \notin {"write", "serve", "waiting"}
    BY <1>7 DEF ReadStatus, EraseFirst, EraseRest, Unidentified, Load, PowerLoss, ResetEsp,
       NullToken, Restart
  <2> QED
    BY <2>1 DEF Prepared, BootWrites
<1> QED
  BY <1>1, <1>2, <1>3, <1>4, <1>5, <1>6, <1>7 DEF Next

(* A board that app_main has just prepared has its identity and all its    *)
(* settings, whatever the server has stored in between.                    *)
THEOREM PreparedAlways == Spec => []PreparedWhenServing
<1>1. Init => Prepared
  BY DEF Init, Prepared, BootWrites
<1>2. Inv /\ Prepared /\ [Next]_vars => Prepared'
  BY PreparedStep DEF Inv
<1>3. Prepared => PreparedWhenServing
  BY DEF Prepared, Filled, Own, PreparedWhenServing
<1> QED
  BY <1>1, <1>2, <1>3, Invariance, PTL DEF Spec

-----------------------------------------------------------------------------
(* The refinement: the single writes implement a registration in one step. *)

(* A step that changes the mark changes nothing else.                      *)
LEMMA MarkAlone ==
  ASSUME Typed, Sound, [Next]_vars, Marked' # Marked
  PROVE  \A k \in Key : k # Status => nvs'[k] = nvs[k]
<1>1. nvs \in [Key -> Value] /\ nvs' # nvs
  BY DEF Typed, TypeOK, Marked
<1>2. CASE EraseFirst \/ EraseRest
  <2>1. ~Marked /\ ~Marked'
    BY <1>2, KeysOfGroups DEF EraseFirst, EraseRest, Sound, BootOrder, Marked
  <2> QED
    BY <2>1 DEF Marked
<1>3. CASE Unidentified
  <2>1. Status \in Key /\ "0" \in Value
    BY KeysOfGroups DEF Value
  <2> QED
    BY <1>1, <1>3, <2>1, StoredIs DEF Unidentified
<1>4. CASE MainWrite
  <2>1. nvs'[Status] = nvs[Status]
    BY <1>4, MainWriteKeeps DEF Sound
  <2> QED
    BY <2>1, Zenon DEF Marked
<1>5. CASE HttpdWrite
  <2> DEFINE w == Head(todo.httpd)
  <2>1. todo.httpd # <<>> /\ Stored(w[1], w[2], Closed) /\ Closed \in BOOLEAN
    BY <1>5 DEF HttpdWrite, Closed
  <2>2. w \in SettingWrite \cup SetWrite \cup ResetWrite
    BY <2>1, TailIs DEF Typed
  <2> HIDE DEF w
  <2>3. w[1] \in Key /\ w[2] \in Value
    BY <2>2, WriteTypes DEF Write
  <2>4. \A x \in Key : x # w[1] => nvs'[x] = nvs[x]
    BY <1>1, <2>1, <2>3, StoredIs
  <2>5. w[1] = Status
    <3>1. nvs'[Status] # nvs[Status]
      BY Zenon DEF Marked
    <3> QED
      BY <2>4, <3>1, KeysOfGroups
  <2> QED
    BY <2>4, <2>5
<1> QED
  BY <1>1, <1>2, <1>3, <1>4, <1>5 DEF Next, vars, volatile, ReadStatus, Identified, Load,
     MainServe, EventServe, Request, PowerLoss, ResetEsp, NullToken, Restart

(* What is there of the needed; all of it while the board is marked.       *)
Present == {k \in Required : There(k)}

LEMMA RequiredKeys ==
  /\ Required \subseteq Key /\ Status \notin Required
  /\ \A k \in Own : There(k) <=> nvs[k] # "absent"
BY KeysOfGroups, Disjoint DEF Required, Own, There

LEMMA MarkedHasAll == ASSUME Sound, Marked PROVE Present = Required
<1>1. ASSUME NEW k \in Required PROVE There(k)
  BY <1>1, KeysOfGroups, Disjoint DEF Sound, Filled, Ported, Required, Own, There
<1> QED
  BY <1>1 DEF Present

LEMMA InitRegistering == Init => Registering!Init
<1> SUFFICES ASSUME Init PROVE Registering!Init
  OBVIOUS
<1>1. \A k \in Key : nvs[k] = "absent"
  BY DEF Init
<1>2. (nvs[Status] = "1") = FALSE
  BY <1>1, KeysOfGroups
<1>3. {k \in Required : There(k)} = {}
  BY <1>1, RequiredKeys DEF There
<1> QED
  BY <1>2, <1>3 DEF Registering!Init, Init

LEMMA StepRegistering ==
  ASSUME Inv, Inv', [Next]_vars PROVE [Registering!Next]_Registering!vars
<1>1. CASE raced'
  BY <1>1 DEF Registering!Next, Registering!Lapse
<1>2. CASE ~raced'
  <2>1. ~raced /\ raced' = raced
    BY <1>2 DEF Inv, Typed, TypeOK, Next, vars, volatile, ReadStatus, EraseFirst, EraseRest,
       Identified, Unidentified, MainWrite, Load, MainServe, EventServe, Request, HttpdWrite,
       PowerLoss, ResetEsp, NullToken, Restart
  <2>2. Typed /\ Sound /\ Sound'
    BY <1>2, <2>1 DEF Inv
  <2>3. Marked' # Marked => Present' = Present
    <3> SUFFICES ASSUME Marked' # Marked PROVE Present' = Present
      OBVIOUS
    <3>1. \A k \in Required : nvs'[k] = nvs[k]
      BY <2>2, MarkAlone, RequiredKeys
    <3> QED
      BY <3>1 DEF Present, There
  <2>4. Marked => Present = Required
    BY <2>2, MarkedHasAll
  <2>5. Marked' => Present' = Required
    BY <2>2, KeysOfGroups, Disjoint DEF Sound, Filled, Ported, Required, Own, There, Present, Marked
  <2>6. CASE Marked /\ Marked'
    BY <2>1, <2>4, <2>5, <2>6 DEF Registering!vars, Present, Marked
  <2>7. CASE Marked /\ ~Marked'
    BY <2>1, <2>3, <2>7 DEF Registering!Next, Registering!Deregister, Present, Marked
  <2>8. CASE ~Marked /\ Marked'
    BY <2>1, <2>3, <2>5, <2>8 DEF Registering!Next, Registering!Register, Present, Marked
  <2>9. CASE ~Marked /\ ~Marked'
    <3>1. Present' \subseteq Required
      BY DEF Present
    <3> QED
      BY <2>1, <2>9, <3>1 DEF Registering!Next, Registering!Prepare, Present, Marked
  <2> QED
    BY <2>6, <2>7, <2>8, <2>9
<1> QED
  BY <1>1, <1>2

(* Two boots, the requests that store settings one by one, and power lost  *)
(* anywhere between them implement the registration in one step.           *)
THEOREM Registers == Spec => ImplementsRegistration
BY InitRegistering, StepRegistering, Invariance, PTL
   DEF Spec, ImplementsRegistration, Registering!Spec
=============================================================================
