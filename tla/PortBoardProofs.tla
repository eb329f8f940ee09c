--------------------------- MODULE PortBoardProofs ---------------------------
(***************************************************************************)
(* Proof that the texts of LocalServer, written cell by cell while ports   *)
(* are stored and other tasks copy them, implement the abstract board, for *)
(* every list of keys, every division of them among the endpoints and      *)
(* every set of request bodies.                                            *)
(***************************************************************************)
EXTENDS LocalServerProofs

(* The three parts of the mapping.                                         *)
StoredPorts == [k \in KeyNo |-> nvs[Keys[k]]]
OnBoard     == Facts(text["web"])
InViews     == [b \in Strings |-> Facts(text[b])]

(* The facts of a text are the cells in front of its end.                  *)
LEMMA FactsIs ==
  ASSUME NEW t, NEW n, Proper(t, n)
  PROVE  Facts(t) = {t[i] : i \in 1..n}
<1>1. Ended(t) /\ Length(t) = n
  BY LengthIs
<1> QED
  BY <1>1 DEF Facts

LEMMA NoFacts == ASSUME NEW t, Proper(t, 0) PROVE Facts(t) = {}
<1>1. Facts(t) = {t[i] : i \in 1..0}
  BY FactsIs
<1> QED
  BY <1>1

LEMMA WildHasNone ==
  ASSUME NEW t, \A i \in Pos : t[i] = Wild PROVE Facts(t) = {}
<1>1. \A i \in Pos : t[i] # End
  BY Ends
<1> QED
  BY <1>1 DEF Facts, Ended

(* Cells that are appended are added to the facts.                         *)
LEMMA FactsAppended ==
  ASSUME NEW t, NEW n, Proper(t, n), NEW m \in 1..2, NEW r, Proper(r, n + m),
         \A i \in 1..n : r[i] = t[i]
  PROVE  Facts(r) = Facts(t) \cup {r[n + i] : i \in 1..m}
<1>1. n \in Nat
  BY KeyCountAssumption DEF Proper
<1>2. Facts(t) = {t[i] : i \in 1..n} /\ Facts(r) = {r[i] : i \in 1..(n + m)}
  BY FactsIs
<1>3. \A i \in 1..(n + m) : i \in 1..n \/ (i - n \in 1..m /\ n + (i - n) = i)
  BY <1>1
<1>4. \A i \in 1..m : n + i \in 1..(n + m)
  BY <1>1
<1>5. \A i \in 1..n : i \in 1..(n + m)
  BY <1>1
<1> QED
  BY <1>2, <1>3, <1>4, <1>5

(* One or two cells behind a text.                                         *)
LEMMA AppendedShows ==
  ASSUME NEW t \in [Pos -> Cells], NEW n, Proper(t, n), NEW c, NEW m \in 1..2, Len(c) = m,
         n + m \in 0..(2 * KeyCount), \A i \in 1..m : c[i] \in Cells \ {End, Wild},
         NEW r, r = Appended(t, c)
  PROVE  r \in [Pos -> Cells] /\ Facts(r) = Facts(t) \cup {c[i] : i \in 1..m}
<1>1. m \in Nat
  OBVIOUS
<1>2. /\ \A i \in 1..n : r[i] = t[i]
      /\ \A i \in 1..m : r[n + i] = c[i]
      /\ Proper(r, n + m) /\ r \in [Pos -> Cells]
  BY <1>1, AppendedIs
<1>3. Facts(r) = Facts(t) \cup {r[n + i] : i \in 1..m}
  BY <1>2, FactsAppended
<1> QED
  BY <1>2, <1>3

LEMMA OneAppended ==
  ASSUME NEW t \in [Pos -> Cells], NEW n, Proper(t, n), n + 1 \in 0..(2 * KeyCount),
         NEW c, Len(c) = 1, c[1] \in Cells \ {End, Wild}, NEW r, r = Appended(t, c)
  PROVE  r \in [Pos -> Cells] /\ Facts(r) = Facts(t) \cup {c[1]}
<1>1. PICK m \in 1..2 : m = 1
  OBVIOUS
<1>2. /\ Len(c) = m /\ n + m \in 0..(2 * KeyCount)
      /\ \A i \in 1..m : c[i] \in Cells \ {End, Wild}
  BY <1>1, \A i \in 1..1 : i = 1
<1>3. {c[i] : i \in 1..m} = {c[1]}
  BY <1>1, \A i \in 1..1 : i = 1
<1>4. r \in [Pos -> Cells] /\ Facts(r) = Facts(t) \cup {c[i] : i \in 1..m}
  <2>1. n \in Nat /\ KeyCount \in Nat
    BY KeyCountAssumption DEF Proper
  <2>2. r \in [Pos -> Cells]
    BY <1>2, <2>1, AppendedShows
  <2>3. Facts(r) = Facts(t) \cup {c[i] : i \in 1..m}
    BY <1>2, <2>1, AppendedShows
  <2> QED
    BY <2>2, <2>3
<1> QED
  BY <1>3, <1>4

(* A written cell of the frame is at the place of its key and its part.    *)
LEMMA CellIs ==
  ASSUME NEW t, NEW n, Proper(t, n), InPlace("web", t), NEW i \in 1..n
  PROVE  /\ t[i].key \in KeyNo /\ t[i].part \in 1..2
         /\ i = 2 * (t[i].key - 1) + t[i].part
<1>1. i \in Pos /\ t[i] \notin {End, Wild}
  BY KeyCountAssumption DEF Proper, Pos
<1>2. t[i].key \in KeyNo /\ t[i].part \in 1..2 /\ i = Place("web", t[i].key) + t[i].part
  BY <1>1 DEF InPlace
<1>3. t[i].key \in 1..(KeyCount + 1)
  BY <1>2, KeyCountAssumption DEF KeyNo
<1>4. Place("web", t[i].key) = 2 * (t[i].key - 1)
  BY <1>3, PlaceRange
<1> QED
  BY <1>2, <1>4

(* Two cells in front of the end for every key that has been written.      *)
LEMMA EntryAt ==
  ASSUME NEW t, NEW n, Proper(t, n), Paired(t, n), InPlace("web", t),
         NEW e \in KeyNo, 2 * e <= n
  PROVE  /\ 2 * e - 1 \in 1..n /\ 2 * e \in 1..n
         /\ t[2 * e - 1].key = e /\ t[2 * e - 1].part = 1
         /\ t[2 * e].key = e /\ t[2 * e].part = 2
         /\ Belongs(t[2 * e], t[2 * e - 1])
<1>1. KeyCount \in Nat /\ e \in 1..KeyCount /\ n \in Nat
  BY KeyCountAssumption DEF KeyNo, Proper
<1> DEFINE i == 2 * e - 1
           j == 2 * e
<1>2. i \in 1..n /\ j \in 1..n /\ j - 1 = i
  BY <1>1
<1>3. /\ t[i].key \in KeyNo /\ t[i].part \in 1..2 /\ i = 2 * (t[i].key - 1) + t[i].part
      /\ t[j].key \in KeyNo /\ t[j].part \in 1..2 /\ j = 2 * (t[j].key - 1) + t[j].part
  BY <1>2, CellIs
<1>4. \A k \in 1..KeyCount, p \in 1..2 :
        /\ 2 * e - 1 = 2 * (k - 1) + p => k = e /\ p = 1
        /\ 2 * e = 2 * (k - 1) + p => k = e /\ p = 2
  BY <1>1
<1>5. t[i].key = e /\ t[i].part = 1 /\ t[j].key = e /\ t[j].part = 2
  BY <1>3, <1>4 DEF KeyNo
<1>6. Belongs(t[j], t[i])
  BY <1>2, <1>5 DEF Paired
<1> QED
  BY <1>2, <1>5, <1>6

-----------------------------------------------------------------------------
(* What has been composed of the frame.                                    *)
LEMMA AboutIs ==
  ASSUME NEW n, Proper(text["web"], n), Paired(text["web"], n),
         InPlace("web", text["web"]), NEW e \in KeyNo, 2 * e <= n
  PROVE  Board!About(e) = {text["web"][2 * e - 1], text["web"][2 * e]}
<1> DEFINE t == text["web"]
<1>1. /\ 2 * e - 1 \in 1..n /\ 2 * e \in 1..n
      /\ t[2 * e - 1].key = e /\ t[2 * e].key = e
  BY EntryAt
<1>2. ASSUME NEW i \in 1..n, t[i].key = e PROVE i = 2 * e - 1 \/ i = 2 * e
  <2>1. t[i].part \in 1..2 /\ i = 2 * (t[i].key - 1) + t[i].part
    BY CellIs
  <2>2. \A p \in 1..2 : 2 * (e - 1) + p \in {2 * e - 1, 2 * e}
    BY KeyCountAssumption DEF KeyNo
  <2> QED
    BY <1>2, <2>1, <2>2
<1>3. Facts(t) = {t[i] : i \in 1..n}
  BY FactsIs
<1> QED
  BY <1>1, <1>2, <1>3 DEF Board!About

LEMMA CompleteUpTo ==
  ASSUME NEW n, Proper(text["web"], n), Paired(text["web"], n),
         InPlace("web", text["web"]), text["web"] \in [Pos -> Cells],
         NEW e \in KeyNo, 2 * e <= n
  PROVE  Board!Complete(e)
<1> DEFINE t == text["web"]
           c == t[2 * e]
<1>1. /\ 2 * e \in 1..n /\ c.key = e /\ c.part = 2 /\ Belongs(c, t[2 * e - 1])
  BY EntryAt
<1>2. c \in Cells
  BY <1>1, KeyCountAssumption DEF Proper, Pos
<1>3. PICK p \in ReadPort : t[2 * e - 1] = Cell(c.key, 1, p) /\ c.data = ValueAt(p)
  BY <1>1 DEF Belongs
<1>4. t[2 * e - 1] = Cell(e, 1, p) /\ c = Cell(e, 2, ValueAt(p))
  BY <1>1, <1>2, <1>3 DEF Cells, Cell
<1>5. Board!About(e) = {Cell(e, 1, p), Cell(e, 2, ValueAt(p))}
  BY <1>4, AboutIs
<1>6. p \in Port \cup {Unread} /\ [q \in ReadPort |-> ValueAt(q)][p] = ValueAt(p)
  BY <1>3 DEF ReadPort
<1> QED
  BY <1>5, <1>6 DEF Board!Complete, Board!Fact, Cell

LEMMA NothingBehind ==
  ASSUME NEW n, Proper(text["web"], n), InPlace("web", text["web"]),
         NEW e \in KeyNo, n <= 2 * (e - 1)
  PROVE  Board!About(e) = {}
<1>1. Facts(text["web"]) = {text["web"][i] : i \in 1..n}
  BY FactsIs
<1>2. ASSUME NEW i \in 1..n PROVE text["web"][i].key # e
  <2>1. /\ text["web"][i].key \in KeyNo /\ text["web"][i].part \in 1..2
        /\ i = 2 * (text["web"][i].key - 1) + text["web"][i].part
    BY CellIs
  <2>2. \A k \in KeyNo, p \in 1..2 : i = 2 * (k - 1) + p => k # e
    BY KeyCountAssumption DEF Proper, KeyNo
  <2> QED
    BY <2>1, <2>2
<1> QED
  BY <1>1, <1>2 DEF Board!About

-----------------------------------------------------------------------------
(* The steps of the transmission task.                                     *)
LEMMA AddKeyShows ==
  ASSUME FrameInv, AddKey(StoredPorts), nvs' = nvs
  PROVE  \E k \in KeyNo : Board!ShowPort(k)
<1> DEFINE t == text["web"]
           n == 2 * (entry - 1)
           read == IF Digits(StoredPorts[entry]) > required_size THEN Unread ELSE StoredPorts[entry]
           c == <<Cell(entry, 1, read)>>
           r == Appended(t, c)
<1>1. /\ tx = "compose" /\ entry \in KeyNo /\ part = 1 /\ KeyCount \in Nat
      /\ text' = [text EXCEPT !["web"] = r]
  BY KeyCountAssumption DEF AddKey, Write, KeyNo, FrameInv, TextInv, FrameType
<1>2. /\ t \in [Pos -> Cells] /\ InPlace("web", t) /\ text \in [Buffer -> [Pos -> Cells]]
  BY Buffers DEF FrameInv, TextInv, FrameType
<1>3. Proper(t, n) /\ Paired(t, n)
  <2>1. TextAt("web", 2 * (entry - 1) + (part - 1)) /\ 2 * (entry - 1) + (part - 1) = n
    BY <1>1 DEF FrameInv, TextInv, Composing, KeyNo
  <2> QED
    BY <2>1 DEF TextAt
<1>4. StoredPorts[entry] \in Port /\ StoredPorts[entry] = nvs[Keys[entry]]
  BY <1>1, PortsTyped DEF FrameInv, ServerStepInv, ServerInv, StoredPorts
<1>16. read \in {StoredPorts[entry], Unread} /\ read \in Data
  BY <1>4 DEF Data, ReadPort
<1>5. Len(c) = 1 /\ c[1] = Cell(entry, 1, read) /\ c[1] \in Cells \ {End, Wild}
  BY <1>1, <1>16, Ends
<1>6. n + 1 \in 0..(2 * KeyCount)
  BY <1>1 DEF KeyNo
<1>7. r = Appended(t, c)
  OBVIOUS
<1>15. t = text["web"]
  OBVIOUS
<1> HIDE DEF c, r, t, read
<1>8. r \in [Pos -> Cells] /\ Facts(r) = Facts(t) \cup {c[1]}
  BY <1>2, <1>3, <1>5, <1>6, <1>7, OneAppended
<1>9. text'["web"] = r /\ \A b \in Buffer \ {"web"} : text'[b] = text[b]
  BY <1>1, <1>2, <1>8, <1>15, Buffers, OneText
<1>12. Board!About(entry) = {} /\ \A j \in KeyNo : j < entry => Board!Complete(j)
  <2>1. \A j \in KeyNo : j < entry => 2 * j <= n
    BY <1>1 DEF KeyNo
  <2>2. n <= 2 * (entry - 1)
    BY <1>1 DEF KeyNo
  <2>3. Board!About(entry) = {}
    BY <1>1, <1>2, <1>3, <1>15, <2>2, NothingBehind
  <2>4. \A j \in KeyNo : j < entry => Board!Complete(j)
    BY <1>2, <1>3, <1>15, <2>1, CompleteUpTo
  <2> QED
    BY <2>3, <2>4
<1>13. [b \in Strings |-> Facts(text'[b])] = [b \in Strings |-> Facts(text[b])]
  BY <1>9, Buffers
<1>14. c[1] = Board!Fact(entry, 1, read) /\ read \in {[k \in KeyNo |-> nvs[Keys[k]]][entry], Unread}
  BY <1>1, <1>4, <1>5, <1>16 DEF Cell, Board!Fact
<1> QED
  BY <1>1, <1>8, <1>9, <1>12, <1>13, <1>14, <1>15 DEF Board!ShowPort

LEMMA AddValueShows ==
  ASSUME FrameInv, AddValue(StoredPorts), nvs' = nvs
  PROVE  \E k \in KeyNo : Board!ShowValue(k)
<1> DEFINE t == text["web"]
           n == 2 * entry - 1
           c == <<Cell(entry, 2, ValueAt(port))>>
           r == Appended(t, c)
           f == t[n]
<1>1. /\ tx = "compose" /\ entry \in KeyNo /\ part = 2 /\ KeyCount \in Nat
      /\ text' = [text EXCEPT !["web"] = r]
  BY KeyCountAssumption DEF AddValue, Write, KeyNo, FrameInv, TextInv, FrameType
<1>2. /\ t \in [Pos -> Cells] /\ InPlace("web", t) /\ text \in [Buffer -> [Pos -> Cells]]
  BY Buffers DEF FrameInv, TextInv, FrameType
<1>3. port \in ReadPort /\ f = Cell(entry, 1, port)
  BY <1>1 DEF FrameInv, TextInv, Composing
<1>4. Proper(t, n)
  <2>1. TextAt("web", 2 * (entry - 1) + (part - 1)) /\ 2 * (entry - 1) + (part - 1) = n
    BY <1>1 DEF FrameInv, TextInv, Composing, KeyNo
  <2> QED
    BY <2>1 DEF TextAt
<1>5. Len(c) = 1 /\ c[1] = Cell(entry, 2, ValueAt(port)) /\ c[1] \in Cells \ {End, Wild}
  BY <1>1, <1>3, ValueTyped, Ends
<1>6. n + 1 \in 0..(2 * KeyCount) /\ n \in 1..n
  BY <1>1 DEF KeyNo
<1>7. r = Appended(t, c) /\ t = text["web"] /\ f = t[n]
  OBVIOUS
<1>8. /\ f.key = entry /\ f = Board!Fact(entry, 1, port)
      /\ c[1] = Board!Fact(entry, 2, [p \in ReadPort |-> ValueAt(p)][port])
      /\ port \in Port \cup {Unread}
  BY <1>3, <1>5 DEF Cell, Board!Fact, ReadPort
<1> HIDE DEF c, r, t, f
<1>9. r \in [Pos -> Cells] /\ Facts(r) = Facts(t) \cup {c[1]}
  BY <1>2, <1>4, <1>5, <1>6, <1>7, OneAppended
<1>10. text'["web"] = r /\ \A b \in Buffer \ {"web"} : text'[b] = text[b]
  BY <1>1, <1>2, <1>7, <1>9, Buffers, OneText
<1>12. f \in Facts(t) /\ Board!About(entry) = {f}
  <2>1. Facts(t) = {t[i] : i \in 1..n}
    BY <1>4, FactsIs
  <2>2. ASSUME NEW i \in 1..n, t[i].key = entry PROVE i = n
    <3>1. i = 2 * (entry - 1) + t[i].part /\ t[i].part \in 1..2
      BY <1>2, <1>4, <2>2, CellIs
    <3> QED
      BY <1>1, <2>2, <3>1 DEF KeyNo
  <2> QED
    BY <1>6, <1>7, <1>8, <2>1, <2>2 DEF Board!About
<1>13. [b \in Strings |-> Facts(text'[b])] = [b \in Strings |-> Facts(text[b])]
  BY <1>10, Buffers
<1> QED
  BY <1>1, <1>7, <1>8, <1>9, <1>10, <1>12, <1>13 DEF Board!ShowValue

(* A view that matches the whole frame shows the facts of its keys.        *)
LEMMA ViewShows ==
  ASSUME NEW t, NEW v \in Strings, NEW s, Proper(t, 2 * KeyCount), InPlace("web", t),
         Proper(s, FullLength(v)), InPlace(v, s),
         \A k \in KeyNo : Shows(v, k) =>
           \A p \in 1..2 : s[Place(v, k) + p] = t[Place("web", k) + p]
  PROVE  Facts(s) = {f \in Facts(t) : Group[f.key] = v}
<1>1. /\ KeyCount \in Nat /\ FullLength(v) \in 0..(2 * KeyCount)
      /\ \A k \in KeyNo : Place(v, k) \in Nat /\ Place("web", k) = 2 * (k - 1)
      /\ \A k \in KeyNo : Shows(v, k) <=> Group[k] = v
  <2>1. KeyCount \in Nat /\ v # "web"
    BY KeyCountAssumption, Buffers
  <2>2. 1 \in 1..(KeyCount + 1) /\ \A k \in KeyNo : k \in 1..(KeyCount + 1)
    BY <2>1 DEF KeyNo
  <2> QED
    BY <2>1, <2>2, PlaceRange DEF Shows
<1>2. /\ Facts(t) = {t[i] : i \in 1..(2 * KeyCount)}
      /\ Facts(s) = {s[i] : i \in 1..FullLength(v)}
  BY FactsIs
<1>3. ASSUME NEW i \in 1..FullLength(v)
      PROVE  s[i] \in Facts(t) /\ Group[s[i].key] = v
  <2>1. i \in Pos /\ s[i] \notin {End, Wild}
    BY <1>1 DEF Proper, Pos
  <2> DEFINE k == s[i].key
             p == s[i].part
  <2>2. k \in KeyNo /\ Shows(v, k) /\ p \in 1..2 /\ i = Place(v, k) + p
    BY <2>1 DEF InPlace
  <2>3. s[i] = t[Place("web", k) + p]
    BY <2>2
  <2>4. Place("web", k) + p \in 1..(2 * KeyCount)
    <3>1. \A a \in KeyNo, b \in 1..2 : 2 * (a - 1) + b \in 1..(2 * KeyCount)
      BY <1>1 DEF KeyNo
    <3> QED
      BY <1>1, <2>2, <3>1
  <2> QED
    BY <1>1, <1>2, <2>2, <2>3, <2>4
<1>4. ASSUME NEW i \in 1..(2 * KeyCount), Group[t[i].key] = v
      PROVE  t[i] \in Facts(s)
  <2>1. i \in Pos /\ t[i] \notin {End, Wild}
    BY <1>1 DEF Proper, Pos
  <2> DEFINE k == t[i].key
             p == t[i].part
  <2>2. k \in KeyNo /\ p \in 1..2 /\ i = Place("web", k) + p /\ Shows(v, k)
    BY <1>1, <1>4, <2>1 DEF InPlace
  <2>3. t[i] = s[Place(v, k) + p]
    BY <2>2
  <2>4. Place(v, k) + p \in 1..FullLength(v)
    <3>1. k \in 1..KeyCount /\ KeyCount + 1 \in (k + 1)..(KeyCount + 1)
      BY <1>1, <2>2 DEF KeyNo
    <3>2. Place(v, k) + 2 <= FullLength(v)
      BY <2>2, <3>1, PlaceOrder DEF FullLength
    <3>3. \A a \in Nat, b \in 1..2, c \in 0..(2 * KeyCount) : a + 2 <= c => a + b \in 1..c
      BY <1>1
    <3> QED
      BY <1>1, <2>2, <3>2, <3>3
  <2> QED
    BY <1>2, <2>3, <2>4
<1> QED
  BY <1>2, <1>3, <1>4

LEMMA ClearedHasNone ==
  ASSUME NEW t \in [Pos -> Cells] PROVE Cleared(t) \in [Pos -> Cells] /\ Facts(Cleared(t)) = {}
<1>1. Cleared(t) \in [Pos -> Cells] /\ Proper(Cleared(t), 0)
  BY ClearedIs
<1> QED
  BY <1>1, NoFacts

(* A new frame: the old one is shown by all views, or there is none.       *)
LEMMA WipeShows ==
  ASSUME FrameInv, FirstClear \/ NewFrame, nvs' = nvs
  PROVE  Board!Wipe
<1> DEFINE t == text["web"]
           r == Cleared(t)
<1>1. /\ text \in [Buffer -> [Pos -> Cells]] /\ t \in [Pos -> Cells]
      /\ \A b \in Buffer : InPlace(b, text[b])
  BY Buffers DEF FrameInv, TextInv, FrameType
<1>2. r \in [Pos -> Cells] /\ Facts(r) = {}
  BY <1>1, ClearedHasNone
<1>3. text' = [text EXCEPT !["web"] = r]
  BY DEF FirstClear, NewFrame, Write
<1>4. t = text["web"]
  OBVIOUS
<1> HIDE DEF r, t
<1>5. text'["web"] = r /\ \A b \in Buffer \ {"web"} : text'[b] = text[b]
  BY <1>1, <1>2, <1>3, Buffers, OneText
<1>6. [b \in Strings |-> Facts(text'[b])] = [b \in Strings |-> Facts(text[b])]
  BY <1>5, Buffers
<1>7. Facts(text["web"]) = {} \/ Board!Shown
  <2>1. CASE FirstClear
    <3>1. \A i \in Pos : text["web"][i] = Wild
      BY <2>1 DEF FirstClear, FrameInv, TextInv, Unwritten
    <3> QED
      BY <3>1, WildHasNone
  <2>2. CASE NewFrame /\ TextAt("web", 0)
    BY <2>2, NoFacts DEF TextAt
  <2>3. CASE NewFrame /\ ~ TextAt("web", 0)
    <3>1. /\ TextAt("web", 2 * KeyCount)
          /\ \A b \in Strings : TextAt(b, FullLength(b)) /\ Matches(b, KeyCount + 1)
      BY <2>3 DEF NewFrame, FrameInv, TextInv, Waiting
    <3>2. ASSUME NEW v \in Strings
          PROVE  Facts(text[v]) = {f \in Facts(text["web"]) : Group[f.key] = v}
      <4>1. Proper(text["web"], 2 * KeyCount) /\ Proper(text[v], FullLength(v))
        BY <3>1 DEF TextAt
      <4>2. InPlace("web", text["web"]) /\ InPlace(v, text[v])
        BY <1>1, Buffers
      <4>3. (KeyCount + 1) - 1 = KeyCount
        BY KeyCountAssumption
      <4>4. \A k \in KeyNo : Shows(v, k) =>
              \A p \in 1..2 : text[v][Place(v, k) + p] = text["web"][Place("web", k) + p]
        BY <3>1, <4>3 DEF Matches, KeyNo
      <4> QED
        BY <4>1, <4>2, <4>4, ViewShows
    <3>3. \A v \in Strings : [b \in Strings |-> Facts(text[b])][v] = Facts(text[v])
      OBVIOUS
    <3> QED
      BY <3>2, <3>3 DEF Board!Shown
  <2> QED
    BY <2>1, <2>2, <2>3
<1> QED
  BY <1>2, <1>5, <1>6, <1>7 DEF Board!Wipe

(* The whole frame: every key has its two facts.                           *)
LEMMA WholeIsComplete ==
  ASSUME TextInv, TextAt("web", 2 * KeyCount)
  PROVE  /\ \A k \in KeyNo : Board!Complete(k)
         /\ \A k \in KeyNo : Board!About(k) = {text["web"][2 * k - 1], text["web"][2 * k]}
<1> DEFINE t == text["web"]
           n == 2 * KeyCount
<1>1. /\ Proper(t, n) /\ Paired(t, n) /\ t \in [Pos -> Cells] /\ InPlace("web", t)
  BY Buffers DEF TextInv, FrameType, TextAt
<1>2. KeyCount \in Nat /\ \A k \in KeyNo : 2 * k <= n
  BY KeyCountAssumption DEF KeyNo
<1> HIDE DEF n
<1>3. \A k \in KeyNo : Board!Complete(k)
  BY <1>1, <1>2, CompleteUpTo
<1>4. \A k \in KeyNo : Board!About(k) = {t[2 * k - 1], t[2 * k]}
  BY <1>1, <1>2, AboutIs
<1> QED
  BY <1>3, <1>4

(* The strings of the endpoints are emptied behind a whole frame.          *)
LEMMA NewStringsShow ==
  ASSUME FrameInv, NewStrings, nvs' = nvs
  PROVE  Board!WipeViews
<1>1. /\ text' = [b \in Buffer |-> IF b \in Strings THEN Cleared(text[b]) ELSE text[b]]
      /\ text \in [Buffer -> [Pos -> Cells]] /\ TextInv
  BY DEF NewStrings, Write, FrameInv, TextInv, FrameType
<1>2. \A b \in Strings : text'[b] = Cleared(text[b]) /\ text[b] \in [Pos -> Cells]
  BY <1>1, Buffers
<1>3. \A b \in Strings : Facts(text'[b]) = {}
  BY <1>2, ClearedHasNone
<1>4. text'["web"] = text["web"]
  BY <1>1, Buffers
<1>5. TextAt("web", 2 * KeyCount)
  <2>1. /\ TextAt("web", 2 * (entry - 1) + (part - 1)) /\ entry = KeyCount + 1
        /\ part \in 1..2 /\ KeyCount \in Nat
    BY KeyCountAssumption DEF NewStrings, FrameInv, TextInv, FrameType, Composing
  <2>2. 2 * (entry - 1) + (part - 1) \in 0..(2 * KeyCount)
    BY <2>1 DEF TextAt, Proper
  <2>3. 2 * (entry - 1) + (part - 1) = 2 * KeyCount
    BY <2>1, <2>2
  <2> QED
    BY <2>1, <2>3
<1>6. \A k \in KeyNo : Board!Complete(k)
  BY <1>1, <1>5, WholeIsComplete
<1>7. [b \in Strings |-> Facts(text'[b])] = [v \in Strings |-> {}]
  BY <1>3
<1> QED
  BY <1>4, <1>6, <1>7 DEF Board!WipeViews

(* An entry is appended to the string of its group, or to none.            *)
LEMMA AddEntryShows ==
  ASSUME FrameInv, AddEntry, nvs' = nvs
  PROVE  (\E k \in KeyNo : Board!Copy(k)) \/ (UNCHANGED text)
<1> DEFINE g == Group[entry]
           n == Place(g, entry)
           c == [i \in 1..2 |-> text["web"][Place("web", entry) + i]]
           r == Appended(text[g], c)
<1>1. /\ tx = "distribute" /\ entry \in KeyNo /\ KeyCount \in Nat
      /\ text' = [text EXCEPT ![g] = r]
  BY KeyCountAssumption DEF AddEntry, Write, KeyNo, FrameInv, TextInv, FrameType
<1>2. /\ text \in [Buffer -> [Pos -> Cells]] /\ TextInv
      /\ \A b \in Buffer : InPlace(b, text[b])
      /\ TextAt("web", 2 * KeyCount)
      /\ \A b \in Strings : TextAt(b, Place(b, entry))
  BY <1>1 DEF FrameInv, TextInv, FrameType, Distributing
<1>3. CASE g = "none"
  BY <1>1, <1>2, <1>3, Buffers
<1>4. CASE g # "none"
  <2>1. g \in Strings /\ g \in Buffer /\ g # "web"
    BY <1>1, <1>4, Buffers
  <2>2. /\ text[g] \in [Pos -> Cells] /\ Proper(text[g], n)
    BY <1>2, <2>1 DEF TextAt
  <2>3. /\ c[1] = text["web"][2 * entry - 1] /\ c[2] = text["web"][2 * entry] /\ Len(c) = 2
        /\ entry \in 1..(KeyCount + 1) /\ entry \in 1..KeyCount
    <3>1. entry \in 1..(KeyCount + 1) /\ entry \in 1..KeyCount
      BY <1>1 DEF KeyNo
    <3>2. Place("web", entry) = 2 * (entry - 1)
      BY <3>1, PlaceRange
    <3>3. Place("web", entry) + 1 = 2 * entry - 1 /\ Place("web", entry) + 2 = 2 * entry
      BY <3>1, <3>2
    <3> QED
      BY <3>1, <3>3
  <2>4. /\ c[1] \in Cells \ {End, Wild} /\ c[1].key = entry /\ c[1].part = 1
        /\ c[2] \in Cells \ {End, Wild} /\ c[2].key = entry /\ c[2].part = 2
    <3>1. /\ Proper(text["web"], 2 * KeyCount) /\ Paired(text["web"], 2 * KeyCount)
          /\ text["web"] \in [Pos -> Cells] /\ InPlace("web", text["web"])
      BY <1>2, Buffers DEF TextAt
    <3> QED
      BY <1>1, <2>3, <3>1, EntryIs
  <2>5. n \in Nat /\ n + 2 \in 0..(2 * KeyCount)
    <3>1. Shows(g, entry) /\ KeyCount + 1 \in (entry + 1)..(KeyCount + 1)
      BY <1>1, <2>3 DEF Shows
    <3>2. Place(g, entry) + 2 <= FullLength(g)
      BY <2>3, <3>1, PlaceOrder DEF FullLength
    <3>3. Place(g, entry) \in Nat /\ FullLength(g) \in 0..(2 * KeyCount)
      BY <2>3, PlaceRange
    <3> QED
      BY <1>1, <3>2, <3>3
  <2>6. r = Appended(text[g], c) /\ n = Place(g, entry)
    OBVIOUS
  <2>7. g = Group[entry]
    OBVIOUS
  <2> HIDE DEF g, n, c, r
  <2>8. r \in [Pos -> Cells] /\ Facts(r) = Facts(text[g]) \cup {c[1], c[2]}
    <3>1. \A i \in 1..2 : i = 1 \/ i = 2
      OBVIOUS
    <3>2. \A i \in 1..2 : c[i] \in Cells \ {End, Wild}
      BY <2>4, <3>1
    <3>3. r \in [Pos -> Cells] /\ Facts(r) = Facts(text[g]) \cup {c[i] : i \in 1..2}
      <4>1. 2 \in 1..2
        OBVIOUS
      <4> QED
        BY <2>2, <2>3, <2>5, <2>6, <3>2, <4>1, AppendedShows
    <3>4. {c[i] : i \in 1..2} = {c[1], c[2]}
      BY <3>1
    <3> QED
      BY <3>3, <3>4
  <2>9. text'[g] = r /\ \A b \in Buffer \ {g} : text'[b] = text[b]
    BY <1>1, <1>2, <2>1, <2>8, OneText
  <2>10. \A f \in Facts(text[g]) : f.key # entry
    <3>1. Facts(text[g]) = {text[g][i] : i \in 1..n}
      BY <2>2, FactsIs
    <3>2. ASSUME NEW i \in 1..n PROVE text[g][i].key # entry
      <4>1. i \in Pos /\ text[g][i] \notin {End, Wild}
        BY <1>1, <2>2, <2>5 DEF Proper, Pos
      <4>2. i = Place(g, text[g][i].key) + text[g][i].part /\ text[g][i].part \in 1..2
        BY <1>2, <2>1, <4>1 DEF InPlace
      <4> QED
        BY <2>5, <2>6, <4>2
    <3> QED
      BY <3>1, <3>2
  <2>11. /\ \A j \in KeyNo : Board!Complete(j)
         /\ Board!About(entry) = {c[1], c[2]}
    BY <1>1, <1>2, <2>3, WholeIsComplete
  <2>12. text'["web"] = text["web"]
    BY <2>1, <2>9, Buffers
  <2>13. [b \in Strings |-> Facts(text'[b])] =
           [[b \in Strings |-> Facts(text[b])] EXCEPT ![g] = @ \cup {c[1], c[2]}]
    BY <2>1, <2>8, <2>9, Buffers
  <2>14. \A f \in [b \in Strings |-> Facts(text[b])][g] : f.key # entry
    BY <2>1, <2>10
  <2>15. Board!Copy(entry)
    BY <2>1, <2>7, <2>11, <2>12, <2>13, <2>14 DEF Board!Copy
  <2> QED
    BY <1>1, <2>15
<1> QED
  BY <1>3, <1>4

-----------------------------------------------------------------------------
(* The texts of a board that has just started show nothing.                *)
LEMMA BootShows ==
  ASSUME NEW T, T = BootText PROVE \A b \in Buffer : Facts(T[b]) = {}
<1>1. /\ \A i \in Pos : T["web"][i] = Wild
      /\ \A b \in Buffer \ {"web"} : Proper(T[b], 0)
  BY BootTexts
<1>2. Facts(T["web"]) = {}
  BY <1>1, WildHasNone
<1>3. \A b \in Buffer \ {"web"} : Facts(T[b]) = {}
  BY <1>1, NoFacts
<1> QED
  BY <1>2, <1>3

LEMMA InitShows == Init => Board!Init
<1> SUFFICES ASSUME Init PROVE Board!Init
  OBVIOUS
<1>1. RequestTypeOK
  BY ServerInvInit DEF Init, ServerInv
<1>2. [k \in KeyNo |-> nvs[Keys[k]]] \in [KeyNo -> Port]
  BY <1>1, PortsTyped
<1>3. \A b \in Buffer : Facts(text[b]) = {}
  BY BootShows DEF Init, FrameInit
<1>4. Facts(text["web"]) = {}
  BY <1>3, Buffers
<1>5. [b \in Strings |-> Facts(text[b])] = [v \in Strings |-> {}]
  BY <1>3, Buffers
<1> QED
  BY <1>2, <1>4, <1>5 DEF Board!Init

LEMMA ResetShows == ASSUME Reset PROVE Board!Reset
<1>1. nvs' = nvs /\ text' = BootText
  BY DEF Reset, RequestReset, FrameReset
<1>2. \A b \in Buffer : Facts(text'[b]) = {}
  BY <1>1, BootShows
<1>3. Facts(text'["web"]) = {}
  BY <1>2, Buffers
<1>4. [b \in Strings |-> Facts(text'[b])] = [v \in Strings |-> {}]
  BY <1>2, Buffers
<1> QED
  BY <1>1, <1>3, <1>4 DEF Board!Reset

(* A request may store ports, and leaves the texts alone.                  *)
LEMMA ConfigShows ==
  ASSUME ConfigStep, RequestTypeOK'
  PROVE  Board!Configure
<1>1. [k \in KeyNo |-> nvs'[Keys[k]]] \in [KeyNo -> Port]
  <2>1. nvs' \in [Setting -> Value]
    BY DEF RequestTypeOK
  <2> QED
    BY <2>1, KeysAreSettings, ValueAssumption
<1>2. text' = text
  BY DEF ConfigStep, frameVars
<1> QED
  BY <1>1, <1>2 DEF Board!Configure

LEMMA TransmitShows ==
  ASSUME FrameInv, Transmit(StoredPorts), nvs' = nvs
  PROVE  Board!Next \/ UNCHANGED text
<1>1. CASE FirstClear \/ NewFrame
  BY <1>1, WipeShows DEF Board!Next
<1>2. CASE AddKey(StoredPorts)
  BY <1>2, AddKeyShows DEF Board!Next
<1>3. CASE AddValue(StoredPorts)
  BY <1>3, AddValueShows DEF Board!Next
<1>4. CASE NewStrings
  BY <1>4, NewStringsShow DEF Board!Next
<1>5. CASE AddEntry
  BY <1>5, AddEntryShows DEF Board!Next
<1>6. CASE Allocate \/ AskLength(StoredPorts) \/ EndCycle
  BY <1>6 DEF Allocate, AskLength, EndCycle
<1> QED
  BY <1>1, <1>2, <1>3, <1>4, <1>5, <1>6 DEF Transmit

LEMMA StepShows ==
  ASSUME FrameInv, FrameInv', [Next]_vars
  PROVE  [Board!Next]_(Board!vars)
<1>1. ASSUME nvs' = nvs, text' = text PROVE UNCHANGED Board!vars
  BY <1>1 DEF Board!vars
<1>2. CASE ConfigStep
  <2>1. RequestTypeOK'
    BY DEF FrameInv, ServerStepInv, ServerInv
  <2> QED
    BY <1>2, <2>1, ConfigShows DEF Board!Next
<1>3. CASE TransmitStep
  <2>1. Transmit(StoredPorts) /\ nvs' = nvs
    BY <1>3 DEF TransmitStep, StoredPorts, requestVars
  <2> QED
    BY <1>1, <2>1, TransmitShows
<1>4. CASE Read
  <2>1. nvs' = nvs /\ text' = text
    BY <1>4 DEF Read, SensorRequest, OtherRead, SensorRequestTooEarly, Measure, requestVars
  <2> QED
    BY <1>1, <2>1
<1>5. CASE Copy
  <2>1. nvs' = nvs /\ text' = text
    BY <1>5 DEF Copy, CopyStep, CopyCell, CopyUsed, CopyFaults, requestVars, frameVars
  <2> QED
    BY <1>1, <2>1
<1>6. CASE Reset
  BY <1>6, ResetShows DEF Board!Next
<1>7. CASE UNCHANGED vars
  BY <1>1, <1>7 DEF vars, requestVars, frameVars
<1> QED
  BY <1>2, <1>3, <1>4, <1>5, <1>6, <1>7 DEF Next

(* The texts that the transmission task composes and distributes, cell by  *)
(* cell and without a lock, while requests store ports in between, are the *)
(* abstract board: a key appears in its turn, with the port stored then,   *)
(* or 254 if that could not be read, and with what belongs to the port     *)
(* shown, and no frame is dropped before every endpoint shows it           *)
(* (web_buffer_constructor, readx_nvs, endpoint_discriminator).            *)
THEOREM TextsAreABoard == Spec => ImplementsPortBoard
<1>1. Init => Board!Init
  BY InitShows
<1>2. FrameInv /\ FrameInv' /\ [Next]_vars => [Board!Next]_(Board!vars)
  BY StepShows
<1> QED
  BY <1>1, <1>2, FrameInvHolds, PTL DEF Spec, ImplementsPortBoard, Board!Spec
=============================================================================
