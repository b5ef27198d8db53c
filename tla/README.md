# NodeBridge in TLA+

NodeBridge is a daemon for a small Linux machine. It reads a USB scanner or
keyboard, as a serial port (USB-COM) or as a HID device (USB-HID), and forwards the
bytes over TCP, as a server with several clients or as a client of one server. A web
page edits `config.json`. This directory holds TLA+ modules of the program, the TLC
configurations that check them, and proofs for TLAPS. Paths below are relative to
the root of the repository.

To check or prove something, in this directory:

    tlc -config MCForwarder.cfg MCForwarder
    tlapm ForwarderProofs.tla

`PROJECT.json` lists the components, the runs, the theorems, for each definition the
lines of C it stands for, the hazards, and for each checked property one mutant: a
changed definition with which the run fails. A mutant `X_Something` stands next to
the definition `X` it changes; no specification uses it.

## 1. Inventory

| component | file | state | operations |
|---|---|---|---|
| forwarder | `src/tcp/forwarder.c` | `tcp_buffer`, `tcp_buffer_len`, `tcp_buffer_mutex`, mode and interval | `forwarder_init`, `forwarder_send`, `flush_thread` |
| TCP server | `src/tcp/tcp_server.c` | `client_fds`, `client_count`, `client_mutex` | `tcp_server_start`, accept thread, one handler thread per client, `tcp_server_send` |
| TCP client | `src/tcp/tcp_client.c` | `client_fd`, `client_lock` | `tcp_client_start`, connection thread, `tcp_client_send`, `tcp_client_stop` (not called) |
| USB-COM reader | `src/usb/usb_com.c` | none but its read buffer | `usb_com_start` |
| USB-HID reader | `src/usb/usb_hid.c`, `src/utils/keyboard_layout.c` | the report `buf`, the line `internal_buffer`, `buf_index` | `usb_hid_start`, `hid_to_ascii`, `list_usb_devices` |
| configuration | `src/utils/config.c`, `src/utils/utils.c` | `config.json` | `load_config`, `save_file`, `read_file`, `print_config`, `secure_config_and_save` (not called) |
| web server | `src/webserver/webserver.c` | `PostData` of each connection | `GET /getConfig`, `POST /setConfig`, `POST /reboot`, static files |
| device settings | `src/utils/device_settings.c` | the profiles of NetworkManager, the host name | `apply_device_settings` |
| main | `src/main.c` | the loaded `Config` | loads, starts the forwarder and at most one reader, runs the web server |
| service unit | `nodebridge.service` | none of its own; systemd counts the starts in a row | `Restart=always` |
| logger | `src/logs/logger.c` | a log file | never initialised nor called |
| keyboard characters | `src/utils/keyboard_ch.c` | none | nothing calls it |
| web pages | `www/scripts/script.js`, `www/pages/index.html` | the form, in each tab | `getConfig` asks for the file and later fills the form, `saveButtonClick` posts a whole new file from it and loads the page again |

How they interact:

    main --load_config--> config.json <--save_file, load_config-- web server
      |                                                              |
      | forwarder_init                                    apply_device_settings
      v
    reader --forwarder_send--> tcp_buffer --flush_thread--> tcp_server_send --> clients
    (HID or COM)      \                               \--> tcp_client_send --> server
                       `---- use_interval = 0: direct call ----^

What is hard:

* **Threads and two locks.** The reader and `flush_thread` share the buffer; accept
  thread, handlers and sender share the client table; the connection thread and the
  sender share `client_fd`. `flush_thread` holds `tcp_buffer_mutex` across a call
  that takes the transport's lock and blocks in `send()`.
* **Blocking.** A peer that does not read blocks `send()`, with both locks held.
* **Descriptors.** Numbers are used again by the kernel as soon as they are closed,
  by any part of the process.
* **Failure.** A connection that was reset lets `send()` fail in the middle of a
  broadcast. A thread that cannot be created, a listener that cannot be bound, a
  file that cannot be written and network commands that fail are not looked at. The
  page's port that cannot be bound ends the process, and systemd starts it again
  with empty memory.
* **Order of file operations.** `save_file` truncates, then writes.
* **One port, two servers.** The TCP server binds its port in a thread while
  `main()` goes on to bind the page's; the one that comes second fails, the first in
  silence, the second by ending the process. Each can fail for other reasons too.
* **A form that is older than the file.** The page reads the file, is edited and
  writes it in three steps, in as many tabs as there are; the reading may fail and
  the writing be lost or torn.
* **Two readers of one file.** `load_config` and the page's script each have their
  own idea of types, missing keys, lengths and defaults of `config.json`.
* **Buffers at their limit.** `TCP_BUFFER_SIZE`, `MAX_CLIENTS`, the 256 bytes of a
  HID line.

What makes each part correct: the forwarder loses, repeats and reorders nothing that
it has accepted, never exceeds its buffer, and always returns to the reader. The
server's table is exactly the set of its open clients; each client gets a contiguous
piece of the stream. The client has one descriptor, uses no other, notices a loss
and connects again. The HID reader frames lines and keeps the order of bytes.
`config.json` is never a mixture of two uploads, and what is applied is what is in
the file. A save of the form changes the meaning of what the user changed and of
nothing else, measured by the file that the form was filled from; no setting is ever
one that nobody made, and a saved file lets the process start. The process comes up
or is given up, with the reader the file asks for.

## 2. Modules

| module | models | composition |
|---|---|---|
| `BytePipe` | what a forwarder promises: bytes leave in the order in which they were accepted, or are discarded whole when there is no transport; a chunk is taken whole or refused whole | abstract |
| `Forwarder` | `forwarder.c` and the reader's calls | implements `BytePipe` |
| `ForwarderProofs` | theorems about `Forwarder` | extends it |
| `Multicast` | what the server promises: one stream, of which each client is given the part from where it joined, without a gap | abstract |
| `TcpServer` | `tcp_server.c`, the kernel's sockets, the peers | implements `Multicast` |
| `TcpServerProofs` | theorems about `TcpServer`: its table, that it implements `Multicast`, and what follows from that | extends it |
| `TcpClient` | `tcp_client.c`, the kernel's sockets, the server, the rest of the process as a user of descriptors | |
| `TcpClientProofs` | theorems about `TcpClient` | extends it |
| `ServerBridge` | the program in server mode | `Forwarder` and `TcpServer` |
| `ServerBridgeProofs` | theorems about `ServerBridge` | extends it, instantiates `ForwarderProofs` and `TcpServerProofs` |
| `ClientBridge` | the program in client mode | `Forwarder` and `TcpClient` |
| `ClientBridgeProofs` | theorems about `ClientBridge` | extends it, instantiates `ForwarderProofs` and `TcpClientProofs` |
| `KeyboardLayout` | `hid_to_ascii` and its tables | |
| `UsbHid` | the loop of `usb_hid_start` | extends `KeyboardLayout` |
| `UsbHidProofs` | theorems about `UsbHid` | extends it |
| `WebConfig` | `POST /setConfig`, `POST /reboot`, `save_file`, `load_config` as a whole, `apply_device_settings` command by command | |
| `WebConfigProofs` | theorems about `WebConfig` | extends it |
| `ConfigFile` | `load_config` and the two conversions of the page's script, key by key: operators, no state | |
| `ConfigPage` | the page in several tabs over one file: load, answer, fill, edit, save, and what becomes of a post | extends `ConfigFile` |
| `ConfigPageProofs` | theorems about `ConfigPage` and lemmas about `ConfigFile` | extends it |
| `Startup` | the life of the process: systemd, `main()`, the threads until they listen or read | extends `ConfigFile` |

`MC*` modules add what TLC needs: small sets, and symmetry for `tcp_server` and
`config_page`, which check no liveness and have interchangeable connections and
descriptors, or tabs.

### Conventions

Variables have the names of the C variables; a program counter (`usb_pc`,
`flush_pc`, `acceptor`, `handler`, `thread`, `send_pc`, `web_pc`) says where a
thread is. A critical section with no blocking call in it is one action, guarded by
the mutex being free: no other thread sees its middle, since all of them take the
mutex to look. A section with a blocking call is split at the call, and the mutex is
a variable. Bytes are numbers in the order in which the device gave them, so that
loss, repetition and reordering can be seen. Histories (`wire`, `accepted`, `got`,
`delivered`, `typed`, `sent`) are not in the program; they record what has been
done.

A socket is modelled as far as the program can tell its states apart. `up`: all is
well. `fin`: the peer has closed, `recv` returns 0 and `send` still works. `reset`:
an error is pending, which the next call on the socket reports. `broken`: the error
has been reported, or a reset came after a close; `recv` returns and `send` fails
with EPIPE. The kernel and the peers are external: their actions happen at any time,
and no fairness is assumed of any peer.

### Forwarder and BytePipe

`forwarder_send` is three ways through the code: `SendDirect` and `DirectReturns`
(interval off), `SendNowhere` (interval off, no transport), and `SendBuffer` or
`DropOverflow` (interval on). `flush_thread` is `FlushLock`, then `FlushIdle`, or
`FlushSend` and `FlushReset`, or `FlushDiscard` when no transport is configured.
`flush_pc = "absent"` is a `flush_thread` that could not be created. The length of
the sleep is left out: the flush may come at any time.

`BytePipe` has three actions and no threads. Under the refinement, `FlushSend` is
the moment at which bytes leave the pipe, `FlushReset` and the returns are
stuttering steps, and the bytes still in `tcp_buffer` during the call have left
already (`Unsent`).

### TcpServer

The accept thread registers a connection under the mutex (`Register`), then creates
its handler (`Spawn`, or `SpawnFails`, which the code does not notice). A handler
reads until the end (`RecvEnds`), takes the descriptor out under the mutex with the
swap of `client_fds[i] = client_fds[--client_count]` (`Unregister`), and closes it
(`HandlerCloses`). `tcp_server_send` takes the mutex, makes one step for each entry
(`SendOk`, or `SendFails` with whatever error), and unlocks. `Restart` is a death of
the process, for reasons that are not in this file, and systemd. The program is
taken to run under `nodebridge.service`, and systemd has a service ignore SIGPIPE
unless its unit says otherwise, which this one does not; started by hand, where the
signal has its default, a send on a broken connection would end the process.

`Multicast` has no table, descriptor or mutex. Under the refinement a client is a
member while it is in the table and a send to it can succeed (`Members`): it joins
with `Register` and leaves with `Unregister`, or before that when its peer resets
the connection. `Lacks` are the members whose entry the loop has still to come to
(`Ahead`). `SendOk` is `Deliver`; a failing send is a stuttering step, because its
client has left already; `Restart` is `Reset`. `CaughtUp` is what follows for the
server: a member has been sent each broadcast since it was registered, but for the
one that runs.

### TcpClient

The connection thread is the loop of `tcp_client_thread` with its early returns
(`CreateFails`, `InvalidAddress`, `GiveUp`), which end the thread and, but for the
first, leave `client_fd` at the number just closed. `owner` says who has each
descriptor of the process: `OtherOpens` and `OtherCloses` are the web server, files
and readers.

### ServerBridge, ClientBridge

Two instances over one set of variables. The forwarder's call steps are joined with
the transport's `SendCall`, its return steps wait for the transport to be idle, and
all other steps of one leave the other's variables alone. `Restart` sets all that
was in memory back.

### KeyboardLayout, UsbHid

A report is read (`ReadReport`, a short one overwriting only the beginning of the
last), then each key is decoded, byte for byte (`PutByte`, `NextKey`). The loop over
the bytes of a string is the one the code has, `i < str[i] != '\0'`, which is `i <
str[i]` and ends where the string does for all strings of the tables. `"NL"` stands
for the newline; the German letters and the section sign have two bytes.

### WebConfig

A posted text is two pieces. `load_config` is here a function of the whole file: the
configuration the text holds, the zeroed one for a file that is missing, empty or
not JSON, and a crash for JSON in which a section lacks a key that is dereferenced.
The process can die at every step and keeps what it wrote. An `Overlong` text is
complete and has a string that is too long for its array, which may end the process
or not (`LoadMayCrash`). `apply_device_settings` is one step for each command whose
result matters: the host name; the wireless profile, deleted, made anew by
connecting, and modified; the wired profile. `wifi` has a profile for each network,
since a new network leaves the profile of the former one. Every command can fail,
the deletions too, of which the code does not look at the result: then the old
profile stays, and connecting may use it again with its old password or address.
`undeleted` records that. `None` in `lan` also stands for a wired profile that was
added but has no address.

### ConfigFile

A file is a function from its sections to records of items, an item is what cJSON
gives: a string, a number, a null, or absent. The records `general` to `forwarder`
say of each key how `load_config` takes it: `valuestring` and `valueint` unseen (a
crash when the item is absent, or is not a string), or after `cJSON_IsString` and
`cJSON_IsNumber`; `vid` and `pid` only if both are strings. A `valuestring` is
copied with `strcpy`: a text says whether it `fits` its array. One that does not
(`Overflows`) runs over the fields behind it, and those that the file does not give
afterwards may keep what is left of it (`Loads`), or it ends the process. `inputs`
says of each key what input of the form shows it, `Shown` what `getConfig` puts
there (a 0 is shown as an empty field, but for the endpoint; a flag is a checkbox;
no name is shown as `Node_bridge`), `Saved` what `saveButtonClick` makes of it
(`parseInt` of an empty field is NaN, which JSON writes as null), `blank` what is in
the inputs before. Contents of strings are not told apart further than that, but for
the layout and the default name; numbers are integers. `Meaning` is what the process
makes of a file: flags are on or off, the version means nothing.

### ConfigPage

Each tab asks for the file when it is loaded (`Open`, and the reload of `Save`),
with a blank form or the one that the browser puts back. The server answers with the
file as it is (`Answered`), the answer fills the form later (`Fill`), or there is
none, or it is not JSON, and the form stays (`FillFails`). The user can edit and
save at any time, before, between and after. A save posts the whole form and waits
for nothing; its post arrives at any time and in any order, is torn (the process
dies between the truncation and the write, or the disk is full), or is lost, as when
the reload ends it. `base` and `touched` record which file a form was filled from
and what was changed in it since, `origin` and `typed` what the device was set up
with and what users ever typed.

### Startup

`Exec` and `GiveUp` are systemd, which stops starting a process that was started
`StartLimit` times in a row; the unit states no limit, so the count is systemd's own
and external. `RunsOn` is the process running long enough for it to begin anew.
`main_pc` goes through `main()`; `LoadCrashes` and `WebserverFails` end the process.
`tcp_pc` and `reader` are the threads `main()` has made, until the server listens or
the device is read; a reader whose device is not there, or not named, has `ended`,
one whose device was pulled out goes round its failing read (`spin`). `Conflict`
compares the ports as 16 bits; 0 is a port that the kernel chooses. With one port
for both servers the second one cannot succeed; each of them, and each thread that
is created, can also fail for any other reason (no right to the port, no descriptor,
no memory): `WebserverFails` and `TcpEnds` have no further guard. `PageSaves` and
`PageCrashes` are a post that ends with another file, for the next start. What the
process does while it is up is in the other modules.

## 3. Runs

| run | module, cfg | checks | bounds |
|---|---|---|---|
| `forwarder` | `MCForwarder` | `TypeOK`, `BufferBounded`, `Conservation`, `WireInOrder`, `SingleSender`, `ReaderReturns`, `ImplementsPipe` | 3 byte buffer, chunks of 0 to 2, 6 bytes |
| `tcp_server` | `MCTcpServer` | `TypeOK`, `TableSound`, `TableBounded`, `ImplementsMulticast` | 3 connections and descriptors, 2 slots, 2 broadcasts; 927,099 states |
| `tcp_server_live` | `MCTcpServerLive.cfg` | `SlotFreed`, `AcceptorReturns` | 2 connections and descriptors, 2 slots, 2 broadcasts, 1 byte buffered by the kernel; 267,033 states |
| `tcp_client` | `MCTcpClient` | `TypeOK`, `DescriptorOwned`, `StrayOnlyAfterGivingUp`, `NoGap`, `LossNoticed`, `SendReturns` | 2 descriptors, 3 bytes |
| `tcp_client_retry` | `MCTcpClientRetry.cfg` | `Reestablished`, violated | 2 descriptors, 1 byte |
| `server_bridge` | `MCServerBridge` | `DeviceOrder`, `ReaderReturns`, `BufferLeaves` | 2 byte buffer, 3 bytes, 1 client at a time |
| `client_bridge` | `MCClientBridge` | `DeviceOrder`, `ReaderReturns`, `BufferLeaves` | 2 byte buffer, 3 bytes, 2 descriptors |
| `usb_hid` | `MCUsbHid` | `TypeOK`, `Framing`, `TypedOrder`, `OneLostPerCut` | 2 keys a report, line of 3 bytes, 7 bytes typed before the last report |
| `web_config` | `MCWebConfig` | `TypeOK`, `OneText`, `Applied`, `HandlerReturns` | 2 uploads at a time, 4 texts, one wireless network; 552,573 states |
| `web_config_boot` | `MCWebConfigBoot.cfg` | `SetUpOnBoot`, violated | the same |
| `config_page` | `MCConfigPage` | `TypeOK`, `KeptAsLoaded`, `NothingInvented`, `Loadable` | 2 tabs, 2 files to begin with, 1 edit, 2 saves; 58,538 states |
| `startup` | `MCStartup` | `TypeOK`, `ComesUp`, `ReaderRuns` | 11 files, 3 starts in a row; 17,764 states |

Why the bounds are enough. In `Forwarder` and the bridges, a chunk can fit exactly,
fit with room, or overflow by one, and the input exceeds the buffer, so that a drop,
a flush and a second fill follow each other. In `TcpServer`, three connections for
two slots are the least with which the table is full for a client while another
leaves, and with which the swap moves an entry in front of the loop or behind it;
descriptors are as few as connections, so that each is used again. `SendCapacity =
1` makes a send block after one that was not read: with two broadcasts the second
send to a client that does not read blocks with the mutex held, while the other
client's handler waits to give its slot back, or the accept thread waits to register
it; both states of `tcp_server_live` are reached. Progress with a full table is not
in that run: the accept thread waits for the same mutex there and then needs nothing.
`ServerBridge` needs one client only, who comes, goes and blocks: what many clients
do to each other is in `tcp_server`. Two descriptors in `TcpClient` let another part
of the process take the number the client has closed while the client holds the
other one, or take both. In `UsbHid` a line is cut before a letter, before a newline
and inside a character of two bytes. In `WebConfig` two uploads interleave, and the
texts are two complete configurations that have one wireless network and differ in
its address and in the wired one, the second with a string that is too long, JSON
that lacks a key, and an empty body; a torn save leaves a text that is not JSON. In
`ConfigPage` two tabs and two saves are the least with which a stale form overwrites
what another tab saved; every kind of input and of item is among the keys that go
through the form at each save, one of the two files lacks sections and a key, texts
that are too long are in a file and in the edit, and the second save is of a file
that the first one wrote, or tore. The proofs cover any edits and files. In
`Startup` the files are listed in `MCStartup`: each way a file can decide the start,
the conflict of the ports among them. systemd's own limit is 5 starts.

`MaxInput`, `MaxCalls`, `MaxTyped` and `MaxSaves` bound the histories and stand for
no limit of the program.

### Fairness

`WF` for each step a thread of the process can always take: the scheduler runs all
threads. `SF` for a step that waits for a mutex: a pthread mutex is not fair, but
every holder sleeps or blocks elsewhere between two holds, so that a waiter gets it
if it is free again and again. `connect()` ends in one way or the other. A restart
is never required outside `Startup`: a death and the next start are one step that
may come at any time, or in `WebConfig` a start that need not come. `Startup` has
`WF` for systemd, for `main()`, for the TCP server's thread and for the reader's
thread, and none for the page, a kill, a plug or a switch. No fairness is assumed of
devices, browsers or peers. A peer that never reads blocks a send for ever; the
liveness properties that this defeats have `[]<>~SenderStuck` as their premise,
which says that the sender is again and again not stuck, and the runs show that
nothing else defeats them.

### What the runs show of the code

* Holding `tcp_buffer_mutex` across the send is what makes the reset of
  `tcp_buffer_len` safe; with the unlock moved before the call bytes are lost.
* Taking the descriptor out of the table before closing it, and putting it in before
  the handler starts, is what keeps the table free of closed numbers. A handler that
  cannot be created takes a slot for the rest of the life of the process; the table
  stays bounded all the same, and no property promises the slot back.
* One client that does not read stops the device reader, the accept thread and every
  handler.
* `tcp_client_retry`: after a loss the thread tries again once after five seconds,
  and if that one attempt fails it ends. The comments speak of retrying.
* `StrayOnlyAfterGivingUp` is exact: after the thread has given up, `client_fd`
  names a closed descriptor, and if the web server is given the number the device's
  data goes to a browser's connection.
* `OneLostPerCut` is exact as well: for each HID line longer than the buffer one
  byte is lost, that may be half of a character or the newline.
* `web_config_boot`: the network is set up by a POST only, not at boot as the
  repository's README says.
* `ImplementsMulticast`: the swap of the last entry into the hole cannot make a
  broadcast skip a client or serve one twice, because the loop holds the mutex; and
  a client that fails keeps nothing from the others.
* `KeptAsLoaded`: the many conversions of the form, each odd by itself, agree with
  `load_config`. An empty number becomes NaN, null and 0, which is what it was. What
  a save keeps is what was *loaded*: with two tabs, or a page that was filled before
  the last post was saved, it puts back what others changed, and after a failed
  `getConfig` it can overwrite every setting with a default. The page has no
  protection against either. `NothingInvented` is what remains: old values, defaults
  and what somebody typed, also through torn files.
* `Loadable`: a file written by hand may lack a key and crash `load_config`; one
  that the page wrote never does. A text that is too long for its array is another
  matter: the form takes it, and the next start may crash on it, as `Startup` has
  it.
* `ComesUp`: when the page's port cannot be bound, for one port for both servers or
  any other reason, the process ends, and after some starts systemd gives it up. The
  TCP server that cannot listen is missing in silence; nothing in the program
  notices, and no property says otherwise.
* `Applied` speaks of the profiles that could be deleted. With NetworkManager down,
  or without the right to change it, the old profile stays and the answer is `ok`
  all the same.
* `ReaderRuns` has its exception in the code: a device that is not there when the
  process starts is never opened later.
* Read off the code, with no run: the answer to a POST is `ok` whether the file was
  saved or not (the premise of `Applied` covers all these cases), and the table
  named QWERTZ has y and z where the American one has them.

## 4. Proofs

Most theorems are of the form `Spec => []Inv` and hold for every value of the
constants. The only assumptions are those the modules state of their constants:
sizes, limits and numbers of slots are positive, `NoFd` is no descriptor,
`WebConfigAssumption`, how the sets of texts lie in each other, and
`PageAssumption`, that the files the device is set up with have no item of a type
that its key is not meant to have, and that an edit is something that its input can
hold. In each module with a state `Invariance` is `Spec => []IInv` for an inductive
`IInv`; the others follow from it.

| module | theorem | says |
|---|---|---|
| `ForwarderProofs` | `TypeCorrect`, `BufferSafe`, `NothingLost`, `InOrder`, `OneSender` | `TypeOK`, `BufferBounded`, `Conservation`, `WireInOrder`, `SingleSender`: the five invariants of the run `forwarder` |
| | `Refinement` | `Spec => ImplementsPipe` |
| `TcpServerProofs` | `TypeCorrect`, `TableCorrect`, `TableLimit` | `TypeOK`, `TableSound`, `TableBounded` |
| | `Refinement` | `Spec => ImplementsMulticast` |
| | `CastNoGaps` | `CastSpec => []Gapless`, of the abstract multicast alone |
| | `NoGaps` | `Spec => []CaughtUp`, from the two before |
| `TcpClientProofs` | `TypeCorrect`, `NoLeak`, `NoStray`, `Contiguous` | `TypeOK`, `DescriptorOwned`, `StrayOnlyAfterGivingUp`, `NoGap`: the four invariants of the run `tcp_client` |
| `UsbHidProofs` | `TypeCorrect`, `Lines`, `InOrder`, `LossCounted` | `TypeOK`, `Framing`, `TypedOrder`, `OneLostPerCut`: all of the run `usb_hid` |
| `ConfigPageProofs` | `TypeCorrect`, `Kept`, `Nothing`, `CanLoad` | `TypeOK`, `KeptAsLoaded`, `NothingInvented`, `Loadable`: all of the run `config_page` |
| `WebConfigProofs` | `TypeCorrect`, `NeverMixed`, `AppliedOrMissing` | `TypeOK`, `OneText`, `Applied`: the three invariants of the run `web_config` |
| `ServerBridgeProofs` | `EndToEnd` | `DeviceOrder`, the invariant of the run `server_bridge` |
| | `CallsAlone`, `BufferKept` | no two calls of `tcp_server_send` overlap; `BufferBounded` and `Conservation` of the forwarder in the program |
| | `ServerRefines`, `ClientsCaughtUp` | `ImplementsMulticast` and `CaughtUp` of the server in the program |
| | `NothingLeftOut` | of the bytes taken by `forwarder_send`, a client has all since it was registered, but for the call under way and the buffer |
| `ClientBridgeProofs` | `EndToEnd` | `DeviceOrder`, the invariant of the run `client_bridge` |
| | `CallsAlone`, `BufferKept`, `ConnectionSound` | the same of `tcp_client_send` and the forwarder; `NoGap` and `StrayOnlyAfterGivingUp` of the client in the program |
| | `NothingLeftOut` | a connection that works has all bytes taken since it came up, but for the call under way and the buffer |

**Forwarder.** None of `Conservation`, `WireInOrder` and `SingleSender` is
inductive. `IInv` adds: `MutexHeld`, the mutex is held exactly while `flush_thread`
is past its lock, which rules out that the buffer changes under a send; `Modes`, a
direct send happens with the interval off only and a flush with it on only, which
gives `SingleSender`; and `Numbered`, the accepted bytes increase and come before
the chunk on offer, which holds the last bytes read; order follows when that chunk
is appended. The lemmas about sequences (appending keeps `Increasing`, concatenation
is associative) come first. The refinement proof maps each step: `SendBuffer`
accepts, `SendDirect` passes through, `FlushSend` flushes, `FlushDiscard` discards,
`DropOverflow` and `SendNowhere` refuse; all others leave the abstract variables
alone.

**TcpServer.** `TableSound` says that each entry of the table belongs to a
registered connection and each registered connection has an entry, once. It is not
inductive: closing a descriptor could leave an entry, and registering one could
repeat an entry. `IInv` adds `FdsDistinct`, no two open connections have one
descriptor, and `Held`: the connection the accept thread holds is open and has no
handler yet, and a connection with a handler is open. So what `Register` appends is
in no entry, what `Reject` and `HandlerCloses` close is in none either, and `Accept`
hands out a number that no entry has. `Unregister` rests on two lemmas: the search
finds the only index (`TakenOutIsSwapRemove`), and the swap keeps each other entry,
in one place (`SwapRemoveProperties`).

**TcpClient.** `IInv` adds `Cleared`, `client_fd` is -1 between two connections, and
`SocketOfThread`, what the socket can be at each place of the thread. Together with
`DescriptorOwned` they leave giving up as the only way to a send on another part's
descriptor. For `NoGap` the invariant says more about a connection that sends still
succeed on: it has carried everything since it came up but for what is pending
(`NothingMissed`). A send that fails ends that for good, because the socket never
works again before it is closed. The place of the piece in the stream is an
existential over sequences (`Piece`), turned into the `SubSeq` of `NoGap` by one
lemma.

**TcpServer, the refinement.** `JInv` adds to the invariant of the table that the
loop runs with the mutex held (`Locked`), that nothing was sent to a connection
before it was in the table (`Fresh`), and that a descriptor stands for a connection
(`Connected`). Most steps stutter; those that do not each have a lemma naming the
abstract step. What was hard is `Unregister`: it moves an entry, which would change
`Ahead`, were it not that the mutex keeps it out of the loop. `CastNoGaps` is proved
of the six abstract variables, and `NoGaps` holds of the server by the refinement
and nothing else.

**UsbHid.** A byte moves in three ways: into the line, with the line to what was
sent, or nowhere. `Framing`, `TypedOrder` and the set of lost bytes are stated for
any sequence of chunks and any line (`FramingOf`, `OrderOf`, `KeptIn`), with one
lemma for each way; `PutByte` is then four combinations of them (`Puts`, `Closes`,
`Cuts`, `CutsAndCloses`). `OneLostPerCut` is about two cardinalities: a cut adds one
number to both sets, and any other step none.

**ConfigPage.** Each file that is anywhere, on the disk, in an answer or behind a
form, is `Sourced`: well typed, and what it says of each key was there in the
beginning, is the default, or was typed, and so are its texts that are too long.
`FormOK` says of a form that saving an input writes back what the file it was filled
from gave (`Back`), unless the key was changed, and then something that was typed;
`BodyOK` says the same of a post and its items. All three only grow with `typed`
(`Grows`), which is why it does not matter how long a form or a post waits. One
lemma each takes a file to a form (`FilledForm`), a change into it (`EditedForm`), a
form to a post (`PostedForm`), and a post to a file (`BodySourced`). That an
unchanged key keeps its meaning on the way is proved once for a kind of key and of
input that suit each other (`Suits`, `SameMeaning`), and `SectionSuits` says that
all 29 keys of the two programs do.

**WebConfig.** `OneText` is not inductive: what is written is what has been
uploaded, so `Uploads` says that each upload holds the beginning of its own text,
and that beginnings stay beginnings is a matter of four lemmas about sequences. For
`Applied` the invariant follows the handler through its commands: `Loaded`, the
configuration it works with is that of the file, which nothing else writes while it
works; `WifiDone`, the profile of the network it has come to, if the old one could
be deleted, is missing, then made from this configuration without an address, then
perhaps with one; and `LanDone` likewise.

**ServerBridge.** The inductive invariant is the one of the forwarder, the one of
the server behind its refinement, and three parts that are about both. `Sent`: a
client has only bytes of the wire. `Call`: the bytes of a call under way are in
order, and later than all that a client has which the call has yet to come to.
`OneCall`: a call is under way only while a thread of the forwarder waits for it.
Nothing is proved anew of a part: a step of the bridge is a step of the forwarder,
for which `ForwarderProofs` has a lemma (`StepIInv`, `RestartedIInv`), a call with
any data, for which `TcpServerProofs` has one (`SendCallJInv`), or a step of the
server. What such a step does to a client is one formula (`Delivers`): it leaves
what the client has, drops it, or appends the data of the call and is not ahead of
the client any more. That the bytes of a call come after all older ones is
`WireInOrder` of the forwarder after the step. `CallsAlone` shows that the guard
`send_pc = "idle"` of a call, which is `TcpServer`'s, holds back neither thread: it
is true whenever one of them comes to its call. `TcpServer` alone calls with one
byte or none; `ServerRefines` has the refinement for the calls the forwarder really
makes. `NothingLeftOut` puts `Conservation` and `CaughtUp` together: what the
forwarder has taken ends with what the client has, what the call has for it, and the
buffer.

**ClientBridge.** The same with one connection after the other: `delivered` goes on
when a connection is lost, so `Call` compares with all that was ever sent, and a
step of the client appends the data of the call only with its return. An instance of
a module has its own copies of the library's operators (`CP!IsFiniteSet`), which
`SameSets` identifies.

Each proof has a lemma for every action, or for actions that disturb the same parts.

Every invariant, action property and refinement that a passing run checks is proved,
but for the `TypeOK` of `Startup`. Only model-checked besides are the liveness
properties, which rest on fairness and are out of TLAPS's reach, among them all that
`Startup` says, and the two disagreements, each a counterexample.

## 5. Not modelled

* The logger, `keyboard_ch.c`, `tcp_client_stop`, `secure_config_and_save`,
  `save_to_file`: nothing calls them.
* Static files and MIME types, `print_config`, `list_usb_devices`: they change no
  state that another part reads. The line settings of the serial port: they decide
  what the bytes are.
* Items of a wrong type in a file written by hand (a number in quotes): the crash
  they can cause is in `Crashes`, what the form makes of them is not stated. Numbers
  that are no integers, or too large for an `int`, which the two programs round in
  different ways.
* The length of any sleep, so `interval_ms` has no part; the port the kernel chooses
  for a port 0; how often a key that is held down is reported.
* A death of the machine, which could lose a file that was written and not synced.
* The profile of a wireless network that is no longer in the file, which stays.

External and assumed: a device opens if it is there and named; systemd counts starts
as documented and has the service ignore SIGPIPE; a browser either blanks a form or
puts back what was in it.

## 6. Plan

Done, in this order: the forwarder and the server, each with its abstract
specification, the refinement and proofs; the client with proofs; both compositions
with proofs; the HID reader with proofs; the handler of the web server with proofs;
the file between `load_config` and the page, and the page in several tabs, with
proofs; the start.

What is left: `ConfigPage`, `WebConfig` and `Startup` over one file, so that a post
that is torn or too long meets the handler's commands and the limit of starts in one
run; a slot of the client table that no handler gives back, and keys that a short
report leaves behind, which are in the models and of which no property says
anything.
