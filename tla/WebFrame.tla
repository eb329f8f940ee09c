------------------------------ MODULE WebFrame ------------------------------
(***************************************************************************)
(* The text of the frame and of the endpoints (src/main/serial_controller.h) *)
(* as it lies in memory: the transmission task composes web_buffer by      *)
(* appending to it and then distributes its entries among the strings of   *)
(* the endpoints, while other tasks copy these texts.  Nothing locks them. *)
(*                                                                         *)
(* A text is an array of cells.  An entry takes two: its key with the      *)
(* port, and its value.  A text ends at the first cell that is End; what   *)
(* lies behind is what was written there before.                           *)
(***************************************************************************)
EXTENDS Naturals, Sequences, FiniteSets

CONSTANTS
  KeyCount,  (* keys_ports_counter: how many keys have been loaded         *)
  Group,     (* for each of them the endpoint that shows it                *)
  Port       (* the ports a key can be stored with                         *)

ASSUME KeyCountAssumption == KeyCount \in Nat
ASSUME GroupAssumption    == Group \in [1..KeyCount -> STRING \ {"literal", "web"}]
ASSUME PortAssumption     == Port \subseteq 0..255

VARIABLES
  tx,      (* where the transmission task is in its cycle                  *)
  entry,   (* the number of the entry it is at                             *)
  part,    (* the part of that entry that it appends next                  *)
  required_size, (* the length of its port, once asked for; else 0         *)
  port,    (* port_associated, as read for that entry                      *)
  text,    (* web_buffer and the strings of the endpoints                  *)
  reader   (* a copy that another task is making of one of them            *)

frameVars == <<tx, entry, part, required_size, port, text, reader>>

-----------------------------------------------------------------------------
KeyNo  == 1..KeyCount
Strings == {Group[k] : k \in KeyNo} \ {"none"}
Buffer == {"literal", "web"} \cup Strings

(* What is read when the port has become longer since its length was asked *)
(* for: ERROR_READING_NVS, which no key is stored with.                    *)
Unread    == 254
ReadPort  == Port \cup {Unread}
Digits(p) == CASE p < 10 -> 1 [] p < 100 -> 2 [] OTHER -> 3

(* What is shown behind a port.  A port in one of the ranges has a place   *)
(* in a vector: its value or "-" is shown, and the port itself stands for  *)
(* that.  Port 4 has no place: what lies 255 places into digital_input is  *)
(* shown, or "-".  For any other port nothing is shown.                    *)
Ranges     == 0..2 \cup 5..18 \cup 40..43
Stray      == 256
Absent     == 257
ValueAt(p) == CASE p \in Ranges -> p [] p = 4 -> Stray [] OTHER -> Absent

(* A cell, and the room of a text: enough for every key once.              *)
Cell(k, p, d) == [key |-> k, part |-> p, data |-> d]
End  == Cell(0, 0, 0)
Wild == Cell(0, 1, 0)
Pos  == 1..(2 * KeyCount + 1)
Data == {0} \cup ReadPort \cup {Stray, Absent}
Cells == [key : {0} \cup KeyNo, part : 0..2, data : Data]

(* The entries in front of number k, and with them where it begins.        *)
Shows(b, k) == b = "web" \/ Group[k] = b
Before(b, k) == {i \in 1..(k - 1) : Shows(b, i)}
Place(b, k) == 2 * Cardinality(Before(b, k))
FullLength(b) == Place(b, KeyCount + 1)

(* strlen: the cells in front of the first End.                            *)
Ended(t)  == \E i \in Pos : t[i] = End
Length(t) == CHOOSE n \in 0..(2 * KeyCount) : /\ t[n + 1] = End
                                              /\ \A i \in 1..n : t[i] # End

(* strcpy of "|", and strcat: the cells over the old end, and a new end.   *)
Cleared(t)     == [t EXCEPT ![1] = End]
Appended(t, c) ==
  [i \in Pos |-> CASE i - Length(t) \in 1..Len(c) -> c[i - Length(t)]
                   [] i = Length(t) + Len(c) + 1 -> End
                   [] OTHER -> t[i]]

Nobody == [who |-> "nobody", of |-> "web", length |-> 0, copy |-> <<>>, disturbed |-> FALSE]

(* web_buffer points to the literal "|" until the transmission task points *)
(* it to memory of its own, which holds anything until it is cleared.  The *)
(* strings of the endpoints are static and empty.                          *)
BootText == [b \in Buffer |-> [i \in Pos |-> IF b = "web" THEN Wild ELSE End]]

FrameInit ==
  /\ tx = "boot"
  /\ entry = 1 /\ part = 1 /\ required_size = 0 /\ port = 0
  /\ text = BootText
  /\ reader = Nobody

web_buffer == IF tx = "boot" THEN "literal" ELSE "web"

(* A step of the transmission task that changes a text disturbs a copy     *)
(* that is being made of it.                                               *)
Write(new) ==
  /\ text' = new
  /\ reader' = [reader EXCEPT !.disturbed = @ \/ new[reader.of] # text[reader.of]]

-----------------------------------------------------------------------------
(* UART_tx_task, before its loop.                                          *)
Allocate ==
  /\ tx = "boot"
  /\ tx' = "allocated"
  /\ UNCHANGED <<entry, part, required_size, port, text, reader>>

FirstClear ==
  /\ tx = "allocated"
  /\ tx' = "wait"
  /\ Write([text EXCEPT !["web"] = Cleared(@)])
  /\ UNCHANGED <<entry, part, required_size, port>>

\* Mutant of NewFrame: web_buffer is not emptied.
NewFrameAppends ==
  /\ tx = "wait"
  /\ tx' = "compose"
  /\ entry' = 1 /\ part' = 1
  /\ UNCHANGED <<required_size, port, text, reader>>

\* Mutant of NewFrame: a frame is composed only once.
NewFrameOnce ==
  /\ tx = "wait" /\ text["web"][1] = End
  /\ tx' = "compose"
  /\ entry' = 1 /\ part' = 1
  /\ Write([text EXCEPT !["web"] = Cleared(@)])
  /\ UNCHANGED <<required_size, port>>

(* web_buffer_constructor, in a cycle in which some module has answered.   *)
NewFrame ==
  /\ tx = "wait"
  /\ tx' = "compose"
  /\ entry' = 1 /\ part' = 1
  /\ Write([text EXCEPT !["web"] = Cleared(@)])
  /\ UNCHANGED <<required_size, port>>

(* The length of the port of a key is read from the settings ...           *)
AskLength(portOf) ==
  /\ tx = "compose" /\ entry <= KeyCount /\ part = 1 /\ required_size = 0
  /\ required_size' = Digits(portOf[entry])
  /\ UNCHANGED <<tx, entry, part, port, text, reader>>

(* ... then the port, into so much memory, and shown with the key ...      *)
AddKey(portOf) ==
  LET read == IF Digits(portOf[entry]) > required_size THEN Unread ELSE portOf[entry] IN
  /\ tx = "compose" /\ entry <= KeyCount /\ part = 1 /\ required_size # 0
  /\ part' = 2 /\ required_size' = 0
  /\ port' = read
  /\ Write([text EXCEPT !["web"] = Appended(@, <<Cell(entry, 1, read)>>)])
  /\ UNCHANGED <<tx, entry>>

\* Mutant of AddValue: the port is read a second time.
AddValueReread(portOf) ==
  /\ tx = "compose" /\ entry <= KeyCount /\ part = 2
  /\ entry' = entry + 1 /\ part' = 1 /\ port' = 0
  /\ Write([text EXCEPT !["web"] = Appended(@, <<Cell(entry, 2, ValueAt(portOf[entry]))>>)])
  /\ UNCHANGED <<tx, required_size>>

\* Mutant of AddValue: the position of no port is taken for data.
AddValueUnfound(portOf) ==
  /\ tx = "compose" /\ entry <= KeyCount /\ part = 2
  /\ entry' = entry + 1 /\ part' = 1 /\ port' = 0
  /\ Write([text EXCEPT !["web"] = Appended(@, <<Cell(entry, 2, 255)>>)])
  /\ UNCHANGED <<tx, required_size>>

(* ... and then the value of what is at that port.                         *)
AddValue(portOf) ==
  /\ tx = "compose" /\ entry <= KeyCount /\ part = 2
  /\ entry' = entry + 1 /\ part' = 1 /\ port' = 0
  /\ Write([text EXCEPT !["web"] = Appended(@, <<Cell(entry, 2, ValueAt(port))>>)])
  /\ UNCHANGED <<tx, required_size>>

\* Mutant of NewStrings: the strings are not emptied.
NewStringsKept ==
  /\ tx = "compose" /\ entry = KeyCount + 1
  /\ tx' = "distribute"
  /\ entry' = 1
  /\ UNCHANGED <<part, required_size, port, text, reader>>

(* endpoint_discriminator empties the strings of all endpoints ...         *)
NewStrings ==
  /\ tx = "compose" /\ entry = KeyCount + 1
  /\ tx' = "distribute"
  /\ entry' = 1
  /\ Write([b \in Buffer |-> IF b \in Strings THEN Cleared(text[b]) ELSE text[b]])
  /\ UNCHANGED <<part, required_size, port>>

(* ... and appends every entry to the string of its group.                 *)
AddEntry ==
  LET at == Place("web", entry) IN
  /\ tx = "distribute" /\ entry <= KeyCount
  /\ entry' = entry + 1
  /\ Write([text EXCEPT ![Group[entry]] = Appended(@, [i \in 1..2 |-> text["web"][at + i]])])
  /\ UNCHANGED <<tx, part, required_size, port>>

EndCycle ==
  /\ tx = "distribute" /\ entry = KeyCount + 1
  /\ tx' = "wait"
  /\ UNCHANGED <<entry, part, required_size, port, text, reader>>

(* In a cycle without an answer the frame stays as it is: a stutter.       *)
Transmit(portOf) ==
  \/ Allocate \/ FirstClear \/ NewFrame \/ AskLength(portOf) \/ AddKey(portOf)
  \/ AddValue(portOf) \/ NewStrings \/ AddEntry \/ EndCycle

-----------------------------------------------------------------------------
(* The text is being written.                                              *)
Unsettled(b) ==
  \/ b = "web" /\ tx \in {"allocated", "compose"}
  \/ b \in Strings /\ tx = "distribute"

(* The copy starts with strlen ...                                         *)
Measure(who, b) ==
  /\ reader.who = "nobody"
  /\ Ended(text[b])
  /\ reader' = [who |-> who, of |-> b, length |-> Length(text[b]), copy |-> <<>>,
                disturbed |-> Unsettled(b)]
  /\ UNCHANGED <<tx, entry, part, required_size, port, text>>

\* Mutant of Copied: the end is not counted.
CopiedWithoutEnd ==
  IF reader.who = "button"
    THEN \E i \in 1..Len(reader.copy) : reader.copy[i] = End
    ELSE Len(reader.copy) = reader.length

(* ... goes on cell by cell.  trama_endp and trama_sensors copy as many as *)
(* were measured and one more; concat, for the button, up to an end.       *)
Copied ==
  IF reader.who = "button"
    THEN \E i \in 1..Len(reader.copy) : reader.copy[i] = End
    ELSE Len(reader.copy) = reader.length + 1

CopyCell ==
  /\ reader.who # "nobody"
  /\ ~Copied /\ Len(reader.copy) + 1 \in Pos
  /\ reader' = [reader EXCEPT !.copy = Append(@, text[reader.of][Len(reader.copy) + 1])]
  /\ UNCHANGED <<tx, entry, part, required_size, port, text>>

(* The copy has left its room: it has no end in it, or is longer than what *)
(* was measured.                                                           *)
Overrun ==
  \/ ~ \E i \in 1..Len(reader.copy) : reader.copy[i] = End
  \/ Len(reader.copy) > reader.length + 1

Done == reader.who # "nobody" /\ (Copied \/ Len(reader.copy) + 1 \notin Pos)

FrameReset ==
  /\ tx' = "boot" /\ entry' = 1 /\ part' = 1 /\ required_size' = 0 /\ port' = 0
  /\ text' = BootText
  /\ reader' = Nobody
=============================================================================
