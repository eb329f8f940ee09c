# Verification of the ESP32 gateway

TLA+ models, TLC runs and TLAPS proofs about the firmware in `src/main`: an
ESP32 that asks an STM32 board for the values of the sensors of a vehicle,
serves them and its own configuration over a local HTTP server, and posts them
to a remote server. The framework (FreeRTOS, ESP-IDF) is modelled from how the
firmware uses it.

## 1. Inventory

Everything hand-written is in `src/main`; `src/build` holds the artefacts of a
build, and the rest is configuration and certificates. All code but `app_main`
sits in header files included into one translation unit.

| component | state | operations | correct when |
|---|---|---|---|
| **Serial acquisition** `serial_controller.h` | `verificador`, event group, `uart_queue` (one slot, a pointer), the receive buffer, the vectors of values, `keys_with_ports`, `web_buffer` and ten endpoint strings | `UART_tx_task` (request, wait, parse, compose), `UART_rx_task` (read, send the pointer), `load_keys_with_port_assigned_to_RAM` | a value shown for a module was sent by it in this cycle; cycles go on whether it answers or not |
| **Life of the HTTP server** `local_http_server.h` 1984-2088, `esp_http_client_example.c` | `server`, static `server_data`, `token_httser` | `start_webserver`, `stop_webserver`, `connect_handler`, `disconnect_handler` | the handle is live; the server stops with the link and comes back with it |
| **Configuration endpoints** `local_http_server.h` 93-1575 | the body of the request, in an uncleared array on the stack; they write NVS | one handler per endpoint | a request with the token writes what it says, all of it, and nothing else |
| **Sensor endpoints** `local_http_server.h` 1577-1980 | none | one handler per group of keys, and `WEBBUFFER` | what is answered is a frame, or part of one |
| **Settings in NVS** `nvs_controller.h`, `config_initial.h` | the storage | `readx_nvs`, `writex_nvs`, `leer_nvs`, `grabar_nvs`, `valores_iniciales`, `request_and_store_ahsn` | a board marked as matriculated is complete, wherever power was lost |
| **HTTP client** `http_client_controller.h` | `estado`, two response buffers, static `output_len` | `http_rest_with_url` (login, then a frame), `httptrama`, two button tasks, `_http_event_handler` | a frame follows an accepted login; a response is read whole |
| **Start** `esp_http_client_example.c` | | `app_main`: first boot and later boots | |
| **JSON composition** `json_controller.h` | none | copies `web_buffer` and the endpoint strings and puts JSON around them | a copy stays in its room and shows one frame; only the copying is modelled |
| Log and SPIFFS `config_controller.h` | the log file | append, read, clear | not modelled |
| File server `file_server_controller.h` | files | only the download handler is registered | not modelled |
| Wi-Fi `wifi_controller.h` | | all commented out | its events are in `WebServer` |
| Flashing of the STM32 `STM_FLASH_CONTROLLER` | pages of the STM32 | not in the build, called by nothing | planned |

**How they interact.** `app_main` connects the station, registers the two event
handlers, and then either provisions the board (first boot) or loads the keys,
starts the server and creates the tasks. From there on the tasks meet only in
shared variables: the queue and its buffer (rx and tx task), `web_buffer` and
the endpoint strings (tx task, server, client, panic button), `estado` and
`output_len` (login and buttons), `server` (main and event loop), and NVS
(everyone): a port that a request stores is shown in the frame after it.

**What is hard.** None of the shared variables has a lock. The queue transports
a pointer and not the text. Answers carry no sequence number. Static variables
outlive what they describe (`server_data`, `output_len`), and so does what an
earlier body left on the stack. A body that comes in pieces is parsed after each
of them. Every setting is a separate write, results of writes and requests are
ignored, and power can go in between. A frame is composed in the same memory
from which it is being copied. `PROJECT.json` lists these hazards one by one, at
their lines.

## 2. Modules

| module | models | variables ↔ code |
|---|---|---|
| `Acquisition` | what the acquisition promises, without tasks or buffers | `answered`, `current`, `report`: the marks, the values of this cycle, what the frame shows |
| `SerialLink` | `UART_tx_task`, `UART_rx_task`, `parse_data`, `allocate_data`, `web_buffer_constructor` | `pc`/`step`: line of the tx task; `verificador`, `eventBit`, `frame` (`web_buffer`), `sample` (the vectors); `rx`, `buffer`, `queued`: the rx task, its buffer and the slot; `line`: bytes on the wire and in the driver |
| `MCSerialLink` | the instances | the three modules really asked for |
| `ServerLife` | what the two tasks promise to whoever uses the server | `stage`: what has become of the one start of a boot; `running`: whether a server listens |
| `WebServer` | the server's start and stop by two tasks | `server`, `serverData` (the static pointer), `httpd`, `events` (the event queue), `task`/`result`: where each caller is in `start_webserver` |
| `HttpClient` | login, frames, buttons, event handler | `estado`, `outputLen`, `response` (`local_response_buffer`), `got`, `answer`, `pc`; `handling`, `loaded`: the handler of each task between its copy and its store of the offset |
| `MCHttpClient` | the instance | two buttons, interchangeable |
| `Registration` | what the provisioning promises, in one step where the code has many writes | `registered`, `complete`: the mark, and what it stands for |
| `Provisioning` | both boots, the writes of the endpoints, power loss | `nvs`, `main` (where `app_main` is), `todo` (writes still to do), `loaded` (`keys_with_ports`), `cached` (`token_httser`), `server` |
| `MCProvisioning` | the instance | three representative keys |
| `ConfigRequest` | the handlers of `TRAMA`, `SERVER`, `WIFIAP`, `WIFIST`, `SETHTTP`, `SETPORTS`, `RESETESP` and `LOG`: the receive loop, the parsing, the token, the writes, the answer | `httpd`: line of the handler; `coming`, `gone`: what the connection still brings; `piece`, `stale`: `buf`, at its start and behind; `todo`: the calls of `grabar_nvs` still to come; `refused`: those of this request that NVS has refused; `answer` |
| `PortBoard` | what the frame promises to whoever looks at ports and values, without tasks or memory | `stored`: the port of each key; `board`: the facts in the frame, `views`: those in the strings of the endpoints |
| `WebFrame` | the text of `web_buffer_constructor` and `endpoint_discriminator` as it lies in memory, and the copies of `trama_endp`, `trama_sensors` and `concat` | `tx`, `entry`, `part`, `required_size`, `port` (`port_associated`): where the tx task is, in the two steps of `readx_nvs` too; `text`: the memory of `web_buffer` and of the strings; `reader`: the copy in progress |
| `LocalServer` | the two together, with the sensor endpoints, the client and the panic button as readers, and resets | `nvs` is written by the one and read by the other; `fault`: an access that is about to reset the board |
| `MCLocalServer` | the instance | two keys in two groups, eight bodies |
| `SerialLinkProofs`, `WebServerProofs`, `HttpClientProofs`, `ProvisioningProofs`, `LocalServerProofs`, `StoreProofs`, `PortBoardProofs` | theorems; the last two extend `LocalServerProofs` | |

Operators whose comment says *Mutant of* are plausible bugs of the definition
that follows; no specification uses them. Putting one in the place of its
original breaks the property `PROJECT.json` names beside it.

### Abstractions worth knowing

* **SerialLink.** A text is the module it names, what `parse_data` makes of it,
  and whether it was sent for a request of this cycle (*now*) or an earlier one
  (*old*): the last is history, which no code reads. A *good* text is stored and
  a *bad* one rejected; a *cut* one has the four letters but lacks a field, so
  that `strtok` gives the null pointer that `strtoul` follows, and the board
  resets (`TxParseCrash`). A text can name another module than the one asked for
  (`Misnames`), one that `allocate_data` does not store included: the flag of
  the module asked for goes up all the same. A buffer that is being overwritten
  can be rejected, reset the board or give a *mixed* value of any module. So can
  a read that takes more than one text (`RxMore`): what stands behind a whole
  first text is never found, as in the code, but a text that was cut short can
  take what it misses from the next one. Several keys of one module behave
  alike, so the frame has one entry per module; the digital input, whose port is
  in no vector, shows a *stray* one. Port numbers are constants, though the code
  reads them from NVS for every frame.
* **WebServer.** `httpd_start` fails when the port is taken or, if
  `MemoryShort`, for want of memory; `httpd_stop` on an error code resets the
  board. `raced` is history: the link was lost while the main task had not
  finished, which is when both tasks can be in `start_webserver`.
* **HttpClient.** A response comes in `Chunks` pieces; a place of the buffer
  holds a piece of some answer, fresh or of an earlier login. The handler copies
  a piece and then adds to the offset, which is a load and a store of its own
  (`OnData`, `Reload`, `Count`; `Reload` need not happen, since a compiler may
  keep what was loaded for the copy). A reset of the offset by another task in
  between is lost, and overlapping requests can so let it grow without end: only
  `MaxLen` bounds it here. What parsing finds in a mixture of answers is any of
  them. The second between a login and its frame is a state of its own
  (`"delay"`), because a button can be pressed in it.
* **Provisioning.** One setting stands for each group written together. The
  order of the writes is the code's. `nvs_flash_erase` takes two steps, so that
  the power can go in between, and closes the storage until the first
  `writex_nvs`. `raced` is history: the event loop has once started the server
  before `app_main` did, on a new board whose storage is being prepared or on a
  matriculated one that is starting. It is never cleared, so what is said of
  boards that have not raced says nothing of one that ever has, also where the
  storage was complete by then. A request with a wrong token changes nothing and
  has no action.
* **ConfigRequest.** A body is its endpoint, one value for all its members,
  whether its token is right or a member is missing, and how it comes. Two
  pieces are as good as any number, because the second never parses to an
  object: it ends the request, in the answer "Error in JSON data" or, where
  nothing is checked or a bare value is parsed, in a null pointer. The cut never
  leaves a complete body in the first piece, and the token is in the first
  piece. What matters of the stack is whether the end of an earlier body stands
  behind the first piece (`stale`, the earlier body itself), since only that
  makes a whole body of a part: then the token, a member or a value can be that
  of either (`ReadFrom`). The buffers of all handlers lie in the same place of
  the stack, so the earlier body may have been sent to another endpoint. Its
  value is taken for a member of this one if that has the same members
  (`SameMembers`), as `TRAMA` and `SERVER` have (`token`, `time`), and
  `RESETESP` and `LOG`; otherwise the members are those of the piece, and only
  the token can be the other's. The rest of a body that came in pieces may
  itself be left behind so, and anything may be overwritten meanwhile.
  `grabar_nvs` writes or is refused, a name of more than 15 characters always
  (`TooLong`), others where the instance says so (`Failing`; the proofs are for
  any set): nothing looks at the result. `SETPORTS` stores the names of
  `PortNames`, which need not be those that the keys are read by (`Keys`). A
  time-out of `httpd_req_recv` is retried at once and is a stutter. `WIFIAP`
  stores its SSID with the MAC address appended, which stands for the value
  here. The other command of `LOG` answers with nothing, that of `RESETESP` with
  a text; both are `"command"`. `VERSION` (whose one setting nothing else reads)
  is left out, and so is `DEFAULTESP`, whose writes are in `Provisioning` and
  whose members are those of `RESETESP`. How all names are spelt when they are
  stored and read is there too.
* **WebFrame.** An entry is two cells, its key with the port and its value, and
  is appended in two steps; every append writes its cells and the new end at
  once, and `strlen` is one step. The value of an entry stands for what belongs
  to a port (`ValueAt`): the port itself where it has a place in a vector,
  `Stray` for port 4, which is shown what lies 255 places into `digital_input`,
  and `Absent` for a port in no range, behind which nothing is appended; what
  was measured is the subject of `SerialLink`. The port of an entry is read once
  per frame, in the two steps of `readx_nvs`: its length, then its text. When a
  request has stored a longer one in between, what is shown is 254, `Unread`.
  Ports are at most 255, so the truncation to eight bits changes none. All
  strings are emptied in one step. A text has room for every key once: bytes are
  not counted (see the hazards). `"|"`, which stands in an empty text, counts as
  nothing. A cycle without an answer leaves the texts alone, and is a stutter.
  Readers change nothing that is shared, so one at a time is followed; the
  memory of `web_buffer` before it is first cleared holds anything.

## 3. Runs

| run | bounds | shows |
|---|---|---|
| `serial_timely` | 3 requests, 5 sections with keys, line of 2, no late or misnamed answers | type; flags tell the truth; the parsed text is the awaited one, whole; one answer on its way at most; no mixed frame; nothing lost at the queue; cycles complete unless texts without a field reset the board again and again; valid answers are published; refinement of `Acquisition` |
| `serial_late` | 2 requests, line of 1, late answers, which may name two other modules or none | cycles complete, with the same exception; the reset at the null timestamp only happens before anything has been stored |
| `serial_null` | as `serial_timely` | **violated**: the frame is composed from a null timestamp |
| `serial_late_flags` | as `serial_timely`, late answers | **violated**: a flag for a module that did not answer |
| `web` | 4 events queued, memory may be short | type; the handle is live; no forgotten server; the error code means the server is dead for good; a loss stops the server; refinement of `ServerLife` |
| `web_return` | 3 events | **violated**: the server does not come back with the link |
| `client` | 2 interchangeable buttons, 2 pieces, an offset up to 3 | type; the offset of an undisturbed request counts its own pieces; an undisturbed login reads its own answer; one frame per login |
| `client_stale` | no button, 2 pieces | **violated**: a failed login taken for accepted |
| `provisioning` | 3 keys, 4 endpoints | type; the mark means complete; the server has a token; keys are found; what `app_main` has just prepared is complete, raced or not; settings survive; refinement of `Registration` |
| `ports_reach` | same | **violated**: saved ports that are not found |
| `default_reset` | same | **violated**: Wi-Fi settings survive a reset to the defaults |
| `local` | 2 keys in 2 groups, 3 ports, 8 bodies in every shape for 4 endpoints, one name refused always and one sometimes, server and panic button as readers, no request followed while the button copies (`Meanwhile`) | type; "Data saved.." is true of all that the storage has not refused; a whole body gets the answer it deserves; what stands behind a port belongs to it; texts have an end in their room; the endpoints show the frame; copies are in order; an undisturbed copy is one frame; nothing is stored that no body for the endpoint, or for one with the same members, asked for; a request ends; what is stored is shown again and again; refinement of `PortBoard` |

**Why the bounds are enough.** Each request of the acquisition is treated alike
up to the wait in front of it (*gated* or not) and the two special flags, GPS
and digital input; the instance has the code's own list, with all kinds. A line
of two answers is one more than can be there when answers are timely, so that it
is shown and not assumed; with late answers one on the line, one in the buffer
and one in the slot are enough for all three to be of different requests. Four
events are enough for loss, return, loss and return to be queued behind a start
in progress. Two buttons and the login are the three tasks of the code, and two
pieces are what a part and a whole need. `MaxLen` is one more than a request
adds to `outputLen`, so that the pieces of overlapping requests lie behind each
other and fall behind the end of a whole response; an offset beyond it tells
nothing more apart, since no property speaks of requests that overlap but of
those that come after them. No property of that run is a liveness property, so
the symmetry of the buttons is sound. The three keys are one of each kind:
stored and read under one name, under two, and refused; `SERVER` and `TRAMA`
write one setting each and are left out of the instance, since `WIFIST` does the
same.

For `local`, two keys are the first and the one after it, which is what
appending tells apart; two groups have one key and none of the other's; and the
ports are one with a value, one that is stray, and a longer one, in a range too.
One key is stored under a name that it is not read by, and that name is refused.
The bodies are good, refused and incomplete ones, in one piece, in two, longer
than the buffer, and announced but empty, for a handler that checks what was
parsed, for one that does not, for the two that share their members (a refused
body of `TRAMA` can complete a part of one of `SERVER`), and for the one that
restarts; a body of `SETPORTS` for each of two ports is what makes a mixture of
a new head and a stale end visible. `WIFIAP`, `WIFIST` and `SETHTTP` differ from
them in the names they store, which is a table, and `LOG` from `RESETESP` in
what its command does; the theorems hold for all eight. The client copies
`web_buffer` as the server does for `WEBBUFFER`, so the server stands for both.
A request changes nothing that a copy reads but the port of an entry that is
still to come, hence the empty `Meanwhile`; the theorems hold for any.

**Fairness.** `SerialLink`: the tasks run at one priority under a time-sliced
scheduler and every wait of theirs has a timeout, so the transmission task, and
the steps of the reception task, are weakly fair; `RxMore` is not, since it is
the wire's choice. `WebServer`: both tasks are scheduled; the station keeps
trying to reconnect (`LinkUp`), and nothing forces the link to be lost.
`httpd_stop` is taken to return; it waits for the server's own task, which a
peer that stays silent can hold up in the receive loop (see `RequestEnds`).
`HttpClient` and `Provisioning` have no liveness properties and no fairness.
`LocalServer`: the two tasks are scheduled (`Serve`, `TransmitStep`), a fault
ends in a reset (`Reset`), and a peer that has announced a body sends it or
leaves (`Peer`). The last is not the code's doing: its loop retries every
time-out, so a peer that stays silent keeps the one task of the server for as
long as it likes. `PortShown` excepts resets that come again and again, and
ports longer than before that are stored again and again, each while the last
one is being read. Nothing forces a request or a copy to come, and a task that
copies need not go on.

No run switches the deadlock check off: none of these systems may stop.

## 4. What the violated runs show

1. *Null timestamp* (`serial_null`). The GPS flag goes up with any text in the
   temperature step (`serial_controller.h:927`), and the frame then follows a
   pointer that only a valid text sets. A garbled first answer resets the board.
   `CrashOnlyCold`, proved, says when it is over.
2. *Shifted answers* (`serial_late_flags`). One answer after the timeout shifts
   all later ones: the queue is never emptied.
3. *No second start* (`web_return`). `server_data` is never reset, so the server
   does not return after a loss of the link, and the loss after that calls
   `httpd_stop` with an error code.
4. *Stale login* (`client_stale`). The buffer is parsed whatever the request
   returned and is never cleared.
5. *Names of keys* (`ports_reach`). Five ports are stored and read under
   different names, and one has a name that NVS refuses; the request is answered
   as saved.
6. *Spelling of the defaults* (`default_reset`). `DEFAULTESP` writes
   `2_WiFi-…`, everything else reads `2_WIFI-…`.

`local`, which is not violated, shows by the exceptions in its properties what
else can go wrong: a body in two pieces is never answered as saved, but when the
stack happens to complete its first piece, settings of two bodies are stored
before the error is reported, and what `TRAMA` was sent can so become the setting
of `SERVER`; "Data saved.." is answered whatever the storage has refused; a frame
can show port 254, which nobody stored, or the stray value of port 4; a body
without a member, or one for `SERVER` that cannot be parsed, resets the board; a
copy made while the frame is composed can be longer or shorter than what was
measured for it (`CopyFaults`), and what then remains true is `CopiesInOrder`.

Also noted while reading, without a run: `SERVER` without a body answers twice;
`version_handler` prints a MAC address into 10 bytes; every cycle allocates a
copy of each entry and frees none; `SERVER` writes `4_SERVERTIME` while
the time is read as `4_SERVER-TIME`; the log "No UART response from any module"
(line 1009) appears when the digital input alone has answered; settings made
before `SETPORTS` are erased at the next boot; a second `SETPORTS` cut short by
a power loss leaves a mixture of the two sets of ports.

## 5. Proofs

The theorems hold for every value of the constants that satisfies the `ASSUME`s
of the modules, all of which TLC evaluates in the runs.

* **SerialLinkProofs.** `TypeCorrect` and `ColdCrash` need no assumption on the
  STM32; `NeverSaturated` and `NothingDropped` assume `~LateReplies`, and the
  others `Orderly`: no late answers, and none that passes the checks but names
  another module than the one asked for. None of the safety properties is
  inductive: nothing in them says where an answer can be. `Exchange` does, in
  three parts: `OneExchange` (there is no answer anywhere, or one, in one place
  of *line, buffer, slot*, only while the transmission task is in `"receive"`,
  and it is of this cycle, and names `Requested` unless texts can name another),
  `ParsesAnswer` (what is about to be parsed is that answer) and `Terminated`
  (the buffer is whole unless it is being filled). The one step that needs
  `~LateReplies` is the time-out. `NeverSaturated`, `AlwaysParsedWhole` and
  `NothingDropped` follow from `Exchange` alone; `FlagsTellTheTruth` is
  inductive relative to it. `OneCyclePerFrame` also needs `Cold` for the entry
  of the GPS, whose value is not of any cycle; `Cold` (the GPS is empty only
  while nothing has been stored, since `allocate_data` stores it every time) is
  what proves `ColdCrash`. `Refines` adds `Pending`, that a module still to be
  asked is not marked, so that each step maps to `Collect`, `Publish`,
  `NewCycle`, `Restart` or a stutter.
* **WebServerProofs.** `TypeCorrect`, and `HandleAlwaysLive` from `OneHandle`:
  of the places a handle can be in (`server`, and what each task is about to
  return) at most one holds that of a running server, for both tasks in any
  interleaving. `NeverOrphaned` and `DeadOnceRefused` speak of what happens
  unless the tasks have raced, and follow from `InTurn`: until the main task is
  done no event is queued, and after that the event task starts a server only
  while there is none. `LivesOnce` maps each step to one of `ServerLife`. The
  one start is under way while a task is in `httpd_start`, and made when
  `serverData` is set and none is there any more (`Stage`); that such a task is
  the only one there, and finds no server, is the part `Turns` of `InTurn`.
  Where the tasks have raced, the promise of the abstract life lapses (`void`)
  until the next reset, and says nothing: what remains then is
  `HandleAlwaysLive`.
* **HttpClientProofs.** `TypeCorrect`; `OneFrame`; and `LoneLoginIntact` and
  `LoneOffsetIsOwn` from `Solo`, in four parts: while nobody is at a request the
  offset is 0 and nobody is in the handler (`Quiet`); a request that no other
  overlapped is the only one there (`Alone`); what it has been given is what the
  offset counts, and one more in the middle of the handler, where `loaded` is
  the offset itself (`Counted`); and its pieces are the ones at the beginning of
  the buffer (`InPlace`). How much overlapping requests leave does not matter:
  the last of them to end sets the offset to 0.
* **ProvisioningProofs.** All properties of `provisioning`, for any list of
  ports, any table of the names they are read under and any set of names that
  NVS refuses, as long as ports have names of their own (`NamesAssumption`).
  They are statements about what is stored; the invariant adds what is still to
  be written. `BootOrder` says what the place of `app_main` tells about the
  storage (nothing is marked while the storage is erased and filled, and the
  server is there only before or after, unless `raced`); `BootWrites`, that what
  `app_main` has not stored yet is in its list; `RequestWrites`, that the list
  of a request is one of three kinds: settings only; ports, with those that are
  missing still to come and the mark last; or those of `DEFAULTESP`, where the
  mark goes before any port does. A power loss empties the lists, and `Sound`
  says that what remains is complete if it is marked. The lists themselves are
  lemmas, since a port list of any length is not a case distinction
  (`SetPortsList`, `DefaultEspList`, `BootList`, `SettingLists`).
  `PreparedAlways` also speaks of boards on which the tasks have raced, about
  which `Sound` says nothing. Its invariant `Prepared` therefore stands by
  itself: what `app_main` has not written yet is in its list (`BootWrites`), and
  no write of a request undoes one of its writes (`HttpdWriteKeeps`), because
  none of them is an erasure. `Registers` shows that the single writes implement
  the registration in one step. The step that writes the mark of `SETPORTS` is
  `Register`, and needs that all else is there (`MarkedHasAll`, from `Sound`
  after the step) and that the step wrote nothing but the mark (`MarkAlone`);
  the step of `DEFAULTESP` that takes it away is `Deregister`, and every loss of
  power a stutter, because the storage stays. The promise lapses (`void`) when
  the tasks have raced.
* **LocalServerProofs.** All eight invariants of `local`, for any number of
  keys, any groups, ports, bodies, readers and handlers. Three inductive
  invariants, each about the variables of one part: `ServerInv` follows a
  request (what has been parsed is a whole body, with what is stored or refused
  so far agreeing with it: `WholeFlow`, `NothingLost`; or a part that is not
  saved as a whole: `CutFlow`), and gives `SavedAlwaysStored` and
  `WholeAlwaysServed`. `TextInv` says what the cells of every text are at every
  place of the transmission task: `InPlace` (an entry stands only where the
  number of entries shown before it says), `Composing` and `Distributing` (up to
  where the text has come, and that its end stands there), `Settled` (between
  frames every string shows what the frame shows); it gives `TextsAlwaysEnd`,
  `ValueAlwaysOfItsPort` and `EndpointsAlwaysMatchFrame`. `CopyInv`, which
  relies on it at each cell copied, says that a copy has its entries at their
  places (`Ordered`) and, if nothing has disturbed it, agrees with its text so
  far (`Quiet`); it gives `CopiesAlwaysInOrder` and `QuietCopyAlwaysWhole`. The
  arithmetic of places, a cardinality of a set of earlier keys, is in the lemmas
  `PlaceStep`, `PlaceRange` and `PlaceOrder`; that an append touches only the
  cells behind the old end is `Extended`.
* **StoreProofs.** `StoredOnlyOnRequest`, an action property: no step changes a
  setting but one of a request whose body, or the two it was put together from,
  had the token and asked for it. The writes are many steps after the token was
  compared, so the invariant `StoreInv` carries the permission to them: while the
  handler stores, one of the bodies it has read from is good (`Authorised`), and
  every entry of the list that is left is a setting of its endpoint with a value
  of one of these bodies that has the members of that endpoint (`AllAsked`).
* **PortBoardProofs.** `TextsAreABoard`: arrays of cells with an end somewhere in
  them, composed and distributed by one task while another stores ports, implement
  `PortBoard`, where a fact is on the board or not. The mapping reads a text up
  to its end (`Facts`), so the cells that an earlier frame has left behind it do
  not count. Every step of the transmission task is one of the board or a stutter
  (`WipeShows`, `AddKeyShows`, `AddValueShows`, `NewStringsShow`,
  `AddEntryShows`). What the guards of the board need comes from `TextInv`: that a
  key has no fact yet, and all before it have both (`NothingBehind`,
  `CompleteUpTo`), from `InPlace` and `Composing`; that no frame is wiped before
  every endpoint shows it from `Waiting` and `Matches` (`ViewShows`); that a value
  belongs to the port beside it, whatever has been stored since, from `Composing`.
  Asking for the length of a port is a stutter; when the port is longer by the
  time it is read, the step is that of a key shown as `Unread`.

Every invariant, every action property and every refinement that a passing run
checks is proved. Model-checked only: all liveness (`AcquisitionCompletes`,
`AnswerPublished`, `LossStopsServer`, `RequestEnds`, `PortShown`), which is beyond
the prover. `ServerLife`, `Registration`, `PortBoard` and `Acquisition` state no
fairness, so the refinements are about safety only.

## 6. Not modelled, and the plan

In this order:

1. **Flashing of the STM32** (`StmFlash`): pages, acknowledgements, timeouts,
   and the verification that reads the pages back.
2. **Pure parts**: the padding of `encrypt_any_length_string`, `split_sensors`
   and the counting of commas in `parse_data`, the positions of `vector_positions`.
3. **Lengths in bytes**: how many keys fit in the 400 bytes of `web_buffer` and
   the 100 of a string; `WebFrame` counts entries.

The log, the file server's download, the JSON around a copied text and the
commented-out Wi-Fi controller are left out: text formatting and file input and
output, with no state that the modelled parts read.
