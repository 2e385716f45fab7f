# A verification of usbip-service-discovery

TLA+ models of the programs in `src/`, checked with TLC on small instances, and
theorems about them checked with the TLA+ proof system (TLAPS).  Paths below are
relative to `src/src/`.

## 1. The system

A *server* machine has USB devices; a *client* machine finds servers on the local
network and attaches their devices to its own virtual USB host controller.

| component | state | operations | talks to |
|---|---|---|---|
| **usbipd, requests** (`server/usbipd.c`, `libs/usbip_host_common.c`, `libs/usbip_host_driver.c` or `libs/usbip_device_driver.c`, `server/usbip_network.c`) | per forked child: one connection and a private list of exportable devices (`edev_list`) | receive a request; rebuild the list; export a device; reply | clients over TCP; the `usbip-host` stub driver, or a vudc, over sysfs (`usbip_status` read, `usbip_sockfd` written) |
| **usbipd, process** (`main`, `do_standalone_mode` and what they call, `server/usbipd.c`) | listening sockets, one per address family; the pid file; `terminate` | start, listen, `ppoll`, accept, fork, handle signals, end | clients; its children, which inherit its sockets; other instances through the pid file and the port |
| **message transfer** (`usbip_network.c` and `.h`, one copy in `client/` and one in `server/`) | the bytes of a message sent or received so far | `usbip_net_xmit`, `PACK_*` | the stream's other end |
| **bind / unbind** (`server/usbip_bind.c`, `usbip_unbind.c`, `utils.c`) | none; the kernel's driver of each device and the stub's table of bus ids | bind a device to `usbip-host`, give it back | sysfs |
| **metadata server** (`server/usb_metadata_server.c`, `device.c`) | a JSON description of the devices, made once at start | at start, unbind and bind every device; serve the JSON to whoever connects | bind/unbind; discovery clients over TCP |
| **event monitor** (`server/usb_event_monitor.c`) | a udev monitor | at a uevent: kill the metadata server, start a new one, broadcast | metadata server (signals), clients (multicast) |
| **discovery listener** (`server/discovery_listener.c`) | a UDP socket | answer every multicast query | discovery clients |
| **importing client** (`client/usbip_attach.c`, `usbip_detach.c`, `client/usbip_network.c`) | a socket descriptor; the state directory with one file per port | `attach_device`: query, choose a port, give the socket to the kernel; `detach_port` | usbipd; vhci driver library |
| **vhci driver library** (`libs/vhci_driver.c`, `sysfs_utils.c`) | the global `vhci_driver`: a copy of the kernel's port table | open (read all), choose a free port, attach, detach, close | sysfs |
| **discovery** (`client/discover.c`, `multicast_event.c`) | the answering nodes, one JSON list each | query, collect answers for as long as they come, fetch every list | listener, metadata server |
| **application** (`client/usbip_app.c`, `usbip_app_win.c`, `usb_desc.c`) | the displayed list: a description, a state and a port per device | refresh (thread + callback), attach / detach (thread + callback), refresh on broadcast | discovery, importing client |
| **name database** (`libs/names.c`) | hash tables of names | parse `usb.ids`; look up | a file |
| common library, interface detection (`libs/usbip_common.c`, `detect_iface.c`) | none | read a device's attributes; find a network interface | sysfs, the system |

What is hard in it: usbipd's children share nothing but the stub driver, whose state
they read and later write; a connection ends up owned by two kernels while the
processes that made it exit; clients and servers may go away between any two
messages; the metadata server is restarted by signals and shell commands, races its
predecessor for a port, and resets the very devices that are exported; discovery
relies on timeouts and unreliable multicast; the application runs blocking calls in
threads that share a global of the vhci library and descriptions that a refresh
replaces.  `PROJECT.json` lists these hazards one by one, at the lines where they bite,
with the properties that cover them.

What makes each component correct:

* usbipd: a client is told it has a device only if it has; no two clients have one
  device; a device is not left exported to nobody; every reply is well formed wherever
  it is cut off; every child ends.  Its process: the pid file names the daemon that runs, SIGTERM
  ends it, its successor gets the port, nobody stays in a backlog.
* message transfer: what is taken from the stream is what was sent, whole and in order, and both
  ends finish, in whatever pieces it comes and wherever it is cut off.
* name database: a look-up gives the file's first name for its key, and nothing else.
* importing client and vhci library: an attached port drives the device that was asked
  for, over a live connection; detaching gives the device back; threads do not use each
  other's freed port table.
* bind / unbind: a device always has a driver again, or the failure is reported; the
  table of bus ids agrees with the bindings.
* metadata server and monitor: at most one server listens, and after the last event one
  does; a client gets a list that describes the devices as they are.
* discovery: a fetch ends, with the whole list or an error; every answering node is asked.
* application: the list shows the state that the last finished operation left, and every
  attached device can be detached.

## 2. Modules

| module | models | proofs |
|---|---|---|
| `UsbipDaemon` | usbipd's request handling, with the stub driver or the vudc, the network and the client as environment | `UsbipProofs` |
| `DeviceLease` | abstract: what a server promises about its devices; `UsbipDaemon` implements it | in `UsbipProofs` |
| `UsbipImport` | `UsbipDaemon` composed with `attach_device`, `detach_port` and the vhci ports | `UsbipProofs` |
| `BindDriver` | `reset_bind_device`, `unbind_device`, `bind_device` on the kernel's drivers and table of busids, one read or write of sysfs at a time | with `MetadataServer` |
| `MetadataServer` | `BindDriver` composed with the life of the metadata server, the event monitor and the clients that fetch lists | `MetadataServerProofs` |
| `Discovery` | a refresh's query, answers and fetches, in several threads, with the listeners and the senders of lists | `DiscoveryProofs` |
| `AppWindow` | the displayed descriptions, refreshes, attach and detach tasks | `AppWindowProofs` |
| `VhciPorts` | the ports of one machine: threads that share the vhci library's driver, and the state files | `VhciPortsProofs` |
| `UsbipdMain` | usbipd's process: pid file, listening sockets, loop and signals, of several daemons one after the other or at once | `UsbipdMainProofs` |
| `NetStream` | the transfer of messages over a stream, byte by byte | `NetStreamProofs` |
| `Dialogue` | abstract: an exchange of whole messages; `NetStream` implements it | in `NetStreamProofs` |
| `NamesDb` | the parser of `usb.ids` and the tables it fills | `NamesDbProofs` |

Each module but `DeviceLease`, `Dialogue` and `BindDriver` has an instance for TLC, named `MC` and its name.

### UsbipDaemon

One connection `c` carries one request and is served by one child, so all of a child's
state is indexed by `c`; `pc[c]` is the place it has reached in `recv_pdu`.  An action is
the code between two points where other processes can be noticed: a receive, a send, or an
access to sysfs.

| action | code |
|---|---|
| `Accept`, `Refuse` | `do_accept`, `tcpd_auth`, `fork` in `process_request` |
| `RecvHeader`, `RecvHeaderFails` | `usbip_net_recv_op_common`; a good header starts `usbip_refresh_device_list` |
| `ScanDevice` | one turn of the loop of `refresh_exported_devices` with `usbip_exported_device_new` |
| `Dispatch`, `DispatchUnknown` | the `switch` of `recv_pdu` |
| `RecvImport`, `RecvImportFails` | the receive and the search of `recv_request_import` |
| `ExportDevice` | `usbip_export_device` with the stub's `store_sockfd` |
| `SendImportReply`, `SendImportPdu` | the two sends of `recv_request_import` |
| `SendDevlistHeader`, `SendNDev`, `SendEntry`, `DevlistDone` | `send_reply_devlist` |
| `SendReplyFails` | each failing send |
| `ExitChild` | the return of `recv_pdu` and `exit(0)` |
| `Connect`, `SendPart`, `ClosePeer` | any client (environment) |
| `StubReset`, `Bind`, `Unbind` | the stub driver and the administrator (environment) |

Abstractions.  A message is a record with what the code looks at.  A request has two
parts, because the code receives it with two calls.  `snap[c]` is the child's `edev_list`: the status
it read of each device, or `"absent"`; `"UNKNOWN"` stands for a number that is no
`SDEV_ST_*` value, which `atoi` of one unterminated character (`usbip_host_common.c:71`)
may return.  Sends do not block: a reply is assumed to fit the socket's buffer.  A send to
a closed peer may succeed or fail, as in TCP; being killed by `SIGPIPE` and returning an
error both end the child with its descriptor closed, and are one action.  Unplugging a
device is, for this code, `Unbind`.  With `-e` (`Vudc`) the daemon offers the controllers of
gadgets: the same control with another reader of the list, which leaves out no controller and
whose device the kernel refuses to export while it has no gadget.  `CutPath` is the devices whose
path in sysfs is longer than the 31 characters that `read_usb_device` leaves of it
(`libs/usbip_common.c:232`): the host back end cannot read their status and leaves them out
(`FoundHost`), whatever driver they have.

### UsbipImport

Extends `UsbipDaemon`: `Connect`, `SendPart` and `ClosePeer` are now taken by the code of
`attach_device`, so its behaviours are among those of `UsbipDaemon` (`DaemonSpec`).
`cpc[c]` is the place reached in `attach_device`; `fd[c]` whether the process still has its
descriptor; `vhci[m][p]` the connection whose socket port `p` of machine `m` owns.  The
connection is closed at the client's end when neither refers to it.  `free[c]` is the list
of ports read by `usbip_vhci_driver_open`, which `usbip_vhci_get_free_port` consults later
and again after an `EBUSY`.  Calls are made by processes of their own: the threads of the
application share one `vhci_driver`, which is the subject of `VhciPorts`.  The state files written by
`record_connection` have no effect on the devices; only its success or failure is kept.
`detach_port` is its check and its write to the kernel, with anything in between.

### BindDriver and MetadataServer

A process `s` is one execution of `usb_metadata_server`; `pc[s]` is the place it has reached,
first in `main`, then in `get_devices` and the functions it calls.  `driver` and `matched` are
the kernel's: the driver of each device and the busids registered with `usbip-host`.

| action | code |
|---|---|
| `UnbindDevice`, `UnbindHost`, `DelBusid`, `Rebind` | `unbind_device`: its check, then its three writes |
| `BindDevice`, `UnbindOther`, `AddBusid`, `BindUsbip`, `UndoBusid` | `bind_device`: the checks of it and of `unbind_other`, then the writes |
| `Listen`, `ListenFails` | `bind` and `listen` |
| `Enumerate`, `NextDevice`, `DeviceGone`, `ScanDone` | `populate_usb_devices` and the loop of `get_devices`; `DeviceGone` is the crash in `strcmp` when a device has vanished |
| `Accept`, `SendAll` | `accept`, `fork` and the child, which may send the whole list or only part of it |
| `ReceiveEvent`, `Killall`, `NothingToKill`, `StartServer`, `StartFails`, `Broadcast`, `Exec` | the loop of the event monitor and the shell it calls |
| `Die`, `Launch`, `Connect`, `HotPlug` | the signal's effect, a server started by hand, a client, a device (environment) |

`killall` sends a signal and returns.  A process that has one (`killed`) runs no more code, but
the write to sysfs it is in may still take effect (`Write` leads to `"dying"`), and its
sockets stay open until `Die`.  A process the shell has forked and not yet executed has another
name, and `killall` misses it; so it may miss a child that was forked while it looked.
`bind` and `listen` fail if and only if another process listens; two servers may both have
bound, `SO_REUSEADDR` being set, but only one of them passes `listen`, so they are one action.
Every write may fail.  `faulty[s]` is auxiliary: the devices a write of `s` failed for, or that
were unplugged, and that `s` has not bound since.  `plugs` counts hotplug changes and serves as the
date of an enumeration (`asOf`), of an event (`seen`) and of a broadcast (`announced`); a
broadcast may be lost, a client need not react to it.  The generic driver of the kernel takes a
new device, also one whose busid is registered.

`UsbipDaemon` sees of all this its `Bind` and `Unbind`, at any time.

### Discovery

A thread `t` is one execution of `discover_get_json`; `pc[t]` is the place it has reached,
first in the loop that collects answers, then in `discover_recv_usb_desc_json`.

| action | code |
|---|---|
| `ListenerStarts`, `Answer` | `discovery_listener.c`: its set-up, and one round of its loop |
| `AskFails`, `Ask` | the socket and the query, sent to any of those that listen |
| `TakeAnswer`, `ChildWrites`, `Wait`, `ReadNode` | one answer: `recvfrom`, `pipe`, `fork`; the child; `wait(NULL)`; the read of the address.  When the slots are full (`Full`), `TakeAnswer` overruns them |
| `TimesOut` | `recvfrom` after `SO_RCVTIMEO` |
| `Connect`, `ConnectFails`, `RecvSize`, `RecvFails`, `RecvList`, `RecvNothing`, `Return`, `FetchDone` | the fetch of each node's list |
| `SendSize`, `SendSome`, `SendDone`, `SendCut` | the metadata server's child with `sendall`, or its end at any point |

Threads share the process's children (`zombies` are those that have exited, whoever forked
them) and the static `usb_json` (`static`).  `Return` gives the parsed list or whatever the
static variable holds by then: the call of `close` between the assignment and the return lets a
compiler do either.  A list is `Size` pieces; `buf[t]` says which piece is where in `recvBuff`,
and what is parsed from anything but the pieces in their order is `Mixed`.  A buffer of size 0
holds a zero byte, as glibc's `calloc` makes it, and parses to NULL.  The first `recv` is content
with any part of the 4-byte size: none at the end of the connection, or the first bytes, after which the
rest of the size stands before the list (`torn`, piece 0).  What is then in `json_size` is any number up to
one more than the list has pieces.  `Slots[t]` is the number of entries of `node_addr` and `fd`, ten in the
code for every refresh.  One answer more is written behind them (`"overrun"`); what the process does then is
undefined, and no thread of it is followed further (`Overrun`).  A refresh closes its socket at the
timeout, so later answers come to nobody.  Not modelled: descriptors left open by the error
returns, the reuse of a closed socket's port while answers to it are on their way, duplicated datagrams,
an allocation that fails.

### AppWindow

A description `<<r, d>>` is the one that refresh `r` made for device `d`; `devs` is
the list and its rows.  The callbacks of the main loop (`StartRefresh`, `ShowList`,
`NothingFound`, `Click`, `ControlDone`) are one action each; a task's thread runs between them
and writes label, state and port one after the other (`SetLabel`, `SetState`, `SetPort`).
`att` is the kernel's ports: `Attach` covers also the `attach_device` that fails after the port was
attached, in `record_connection`; `Detach` frees the port whatever is there.  The history
variable `disturbed` collects the devices the window has lost track of, at the actions
where it does.  That one task's thread frees the string another is reading is not modelled, nor is
GTK's own state, which the code calls from threads.  Calls of the vhci library are as
if each had its own `vhci_driver` (see `VhciPorts`).

### VhciPorts

A call `c` is one execution of `import_device` with the rest of `attach_device`, or of `detach_port`;
it is a thread of `ProcOf[c]`.

| action | code |
|---|---|
| `OpenFails`, `Allocate`, `ReadStatus`, `ReadFails`, `ParseLine` | `usbip_vhci_driver_open`, up to one line of the kernel's table of ports |
| `Free`, `Forget` | `usbip_vhci_driver_close`, and the same two steps in a failed open |
| `GetFreePort`, `AttachPort`, `AttachBusy`, `AttachRefused` | the loop of `import_device` |
| `MakeDir`, `Create`, `WriteRecord`, `RecordFails` | `record_connection` |
| `CheckPort`, `RemoveFile`, `DetachPort`, `DetachRefused` | `detach_port` |
| `Crash` | a use of NULL or of freed memory |
| `PortDown`, `Quit` | a connection or a process ends (environment) |

`driver[q]` is the process's one `vhci_driver`; every use of it in the code goes through it again, so a
call that another has overtaken reads the other's list, a freed one (`Lists`: anything) or none.
A write to freed memory is taken to crash the process or to have no effect that another call
notices.  A state file has an inode, so that a write to a file that was removed meanwhile is
lost.  `remove` and `rmdir` are one action: whatever another does between the two has the same
effect before or after both.  Ports are those of one controller and one hub, and have numbers
below 256: with more the library's `uint8_t` would cut them.

### UsbipdMain

An instance `d` is one execution of usbipd; `pc[d]` is the place it has reached in `main` and
`do_standalone_mode`.  All are started on one host, with one port.

| action | code |
|---|---|
| `Start`, `Daemonize`, `WritePidFile` | `usbip_driver_open`; `daemon` and `set_signal`; `write_pid_file` and `do_getaddrinfo` |
| `Listen`, `Listens` | one turn of `listen_all_addrinfo`, and its result |
| `Poll`, `ProcessRequest`, `PollAgain`, `PollFails` | `ppoll`, `process_request` on each ready descriptor, and `ppoll`'s own failure |
| `RemovePidFile`, `Exit` | the way out of `do_standalone_mode` and `main` |
| `Kill`, `Term` | SIGKILL; SIGTERM or SIGINT with `signal_handler`, in `ppoll` (`TermInPoll`) or elsewhere |
| `Connect`, `SpeakOrLeave`, `ChildExits` | clients (environment), and the end of a child |

A child is here only what it has inherited: `kept[c]` is the listening sockets it does not close
(`process_request` closes the one it came from).  What it does is `UsbipDaemon`, whose
`ConnectionReclaimed` and `RequestServed` say that it ends once its client has spoken or left.
A socket is open as long as a process has it, and a second `listen` on an open one fails.
`do_accept` waits when the connection that `ppoll` saw has gone.  A signal outside `ppoll` sets
nothing: the handler only prints, and only a failing `ppoll` is looked at.  Signals to a child,
which at most end it, are left out.

### NetStream

The two processes of a connection take turns, as an exchange prescribes (`Exchanges`: a
sequence of turns, each with its sender, the size of its message and where the numbers in it begin
and end, the messages that may be sent and those both sides go on with).  A message is a sequence
of bytes, with its numbers as they travel, the most significant byte first; `told[k]` is what the
sender of turn `k` was given, `got[k]` what its receiver took.

| action | code |
|---|---|
| `BeginSend`, `BeginRecv` | the packing of a message and the call of `usbip_net_xmit`; nothing is moved for an empty one |
| `Send`, `Recv` | one turn of its loop: any number of bytes |
| `XmitFails` | `send` or `recv` fails or finds the end of the stream |
| `CloseSocket` | the exit of the daemon's child, the `close` at `usbip_attach.c:237`, or the end of a process |
| `NetworkFails` | the connection is lost (environment) |

A process that has ended, done or failed, has not closed its socket yet (`shut`), and as long as it has not
its peer sees no end of the stream (`NoMore`): an `attach_device` that fails returns without closing it
(`usbip_attach.c:231-235`), and the application that called it lives on.
`Pack` and `Unpack` are `PACK_*` on machines of either endianness: a little-endian machine has
each number in reverse, and reverses it again.  The copies of
`usbip_network.c` in `client/` and `server/` have the same `usbip_net_xmit`.

### NamesDb

The state is the parser's: the lines read (their number is the name they hold), the five
`last...` variables and the hash tables.  `Parse` reads one line, with one action per kind of
line (`Vendor`, `Class`, `Tab`, `TabTab`, `Section`, `Other`); `New` is `new_vendor` and
its like, with the failing `my_malloc`, and `Lookup` is `names_vendor` and its like.  Numbers are
kept in their widths, which are parameters; a number that reads as -1 in an `int` opens no section, as
in the code.  Duplicates are refused, so the first line wins.  `names_free` has no caller that
looks up afterwards, and nothing in the repository calls `usbip_names_init`, either.

### DeviceLease

A device is leased to at most one connection; a connection is told so only while it has the
lease; a lease ends before another begins.  `UsbipDaemon` implements it with the mapping:
`lease` is the connection whose socket the stub owns, `spent` the connections whose
`usbip_export_device` returned 0, `told` the pairs of a live connection and the device an
`ST_OK` reply was sent for.

### Dialogue

In each turn the sender is given a message and is then done with it (`Give`, `Sent`); the receiver
takes it, whole and as it was given, not before the sender is done if both go on with it (`Take`);
either may fail at any time (`Fail`).  `NetStream` implements it: `outcome` is whether a process is still at work,
and the bytes, the window and the connection are what it does not say.  This is what lets
`UsbipDaemon`, `UsbipImport` and the others take a message for one step that happens or fails.

## 3. Runs

| run | instance | properties |
|---|---|---|
| `replies` | 2 connections, 2 devices, every kind of request | `TypeOK`, `OkReplyBacked`, `NoOrphanExport`, `ReplyWellFormed`, `DevlistFramed`, refinement `ImplementsLease` |
| `live` | 2 connections, 1 device of a vudc, every kind of request, fairness | `ConnectionReclaimed`, `RequestServed` |
| `listing` | 2 connections, 1 device | `DevlistHidesExported`: **violated** |
| `paths` | 1 connection, 2 devices, one of them deep in sysfs | `BoundIsFound`: **violated** |
| `imports` | 2 calls on 1 machine with 1 port, 1 device, fairness | `AttachedIsExported`, `PortKeepsConnection`, `DeviceComesBack`, `AttachReturns` |
| `servers` | 3 servers, 1 device, 1 client, 1 hotplug change, fairness | `MetaTypeOK`, `ResetExclusive`, `BoundIsMatched`, `ServedIsBound`, `ListIsFresh`, `ConnectionSettles` |
| `refresh` | 2 servers, 2 threads, lists of 2 pieces, slots for one server in one refresh and for both in the other, fairness | `DiscTypeOK`, `NotedOnce`, `ListsAreWhole`, `ListsAreAttributed`, `RefreshEnds` |
| `window` | 2 devices, 2 ports, 2 refreshes, 3 clicks | `WinTypeOK`, `AttachedIsShown`, `NoNullPort`, `DescriptionsLive`, `ButtonComesBack` |
| `vhciports` | 2 processes, one of them with 2 threads; 2 attaches, 1 detach, 2 ports | `PortsTypeOK`, `LibraryIsSound`, `RecordIsOwners`, `DetachedWasFree` |
| `usbipd` | 2 daemons, one with both address families and one with `-4`, 2 clients, fairness | `PidFileIsTrue`, `TermEnds`, `PortComesBack`, `QueueDrains` |
| `stream` | an import and a device list, either endianness at each end, 6 bytes between them, fairness | `MessagesArrive`, `ExchangeEnds`, refinement `ImplementsDialogue` |
| `names` | every file of 4 lines, widths of 2, 3 and 6 values, 2 buckets | `LookupIsFirst` |

Bounds.  A race for a device needs two children; after an unbind and a bind, or the release
that follows a lost connection, the second may export it again on a list from before.  Two
devices are needed for lists of different lengths and for a client that asks for another
device than its neighbour; one port is the port two processes fight for, and the `EBUSY` that
follows.  `UsbipDaemon`'s and `UsbipImport`'s safety properties are theorems for any number of
connections, devices, machines and ports, so their instances only have to be large enough for
the liveness properties and for TLC to meet every action.
Three servers are one that dies in the middle of a reset, its successor that finds what it
left, and one that is started while they overlap; `MaxPlugs` bounds the hotplug changes, and the
set `Proc` the servers ever started.  One device is enough there because what `servers` checks of
safety is proved for any number of devices.
Each connection carries one request, as in the code; nothing else counts upwards.
In `refresh`, two threads are what it takes to reap each other's children and to overwrite
each other's list, two servers what it takes to file a list under the wrong node, two pieces what
it takes to receive a list in parts; one refresh has a slot less than there are servers, the other one
enough to fetch from both.  In `window`, the three
clicks attach, detach and overlap one another, two refreshes overlap and replace lists, and the
descriptions are as many as refreshes and devices allow.
In `vhciports`, the two threads of one process overlap in the library, and the second process
attaches a port that the first one's calls have just lost or freed; two ports make a list that is
read in part, and a directory that is not empty.
In `usbipd`, two daemons are a predecessor and its successor, or two that run at once; the second
family lets a child keep a listening socket its connection did not come from, and two clients fill
a backlog behind such a child.
In `stream`, messages are longer than what fits between the two processes, numbers have 1, 2 and 4
bytes and stand among raw bytes, one message is empty, one may refuse the request; they have
fewer fields than those of the code, which are of the same kinds.
In `names`, every width overflows, a number exists that reads as -1, and keys that differ share a
bucket; four lines are a header, a subclass, and two that want the same key.
`CHECK_DEADLOCK FALSE`: clients need not come and files end, so every behaviour may stop.

Fairness.  Children are processes the operating system runs (weak fairness of each child's
steps and of the parent's accept); the stub's event handler runs when its peer is gone; the
port's receiver runs when the connection is down; a call of `attach_device` that was begun
runs on.  Nothing is assumed of clients, of the administrator or of who detaches.
A metadata server and its children run, and a process that was killed ends; a client takes its
list or leaves; the monitor, hotplug and starts by hand need not happen.
A refresh's thread, its children and the sender of a list it is connected to run; `recvfrom`
returns within its timeout; no listener need answer.
A daemon of `UsbipdMain` and its children run; no client has to speak or leave, nobody has to
start, stop or kill a daemon, and `ppoll` need not fail by itself.
The two ends of a stream run, and a transfer over a connection that is lost or that the other end has closed
fails; a child of the daemon that has ended and a client that is done close their sockets, a client that
failed need not; the network may keep or drop the connection.

What the runs show is conditional in places, and the conditions are part of the result.
`AttachReturns` excuses a call whose port another process of the machine took (`Overtaken`): the loop of
`import_device` on `EBUSY` picks the same port for ever from a list it does not refresh
(`usbip_attach.c:104`).  `DeviceComesBack` excuses a call that failed and whose process keeps the
descriptor (`Leaked`): `attach_device` returns without closing it.  The same descriptor is why
`ExchangeEnds` excuses a child of the daemon whose client failed and keeps its socket open (`Forsaken`): it
waits for bytes, or for room to send, as long as that process lives.  A refresh does not end after
a failed `fork` (`discover.c:195`) or when a list does not arrive whole
in one `recv` (`discover.c:95`), and nothing is said of a process once a refresh has overrun its
slots: `RefreshEnds` says these are the only ways.  Nothing keeps an eleventh server from
answering (`discover.c:162-202`); `NotedOnce` says that a refresh overruns its slots exactly when more
different servers answered than it has slots, and not because one was noted twice.  Where the first `recv`
takes a part of the size only (`discover.c:82`), the parser may be given anything, and
`ListsAreWhole` says that it is only there.  A list may be filed under the
wrong node when another refresh assigns the static variable in between, and `ListsAreAttributed` says
that is the only way.  `AttachedIsShown` and `NoNullPort` hold of devices that are not
`disturbed`; each of the four causes recorded there (a refresh displayed while a task runs, a
refresh without the device, a second click while a task runs, a failed `record_connection`)
is needed: without any one of them TLC finds a property violated.  In the same way `LibraryIsSound`
and `DetachedWasFree` hold of processes whose calls do not overlap, and the application does
nothing to keep its own from overlapping; and `RecordIsOwners` leaves out the ports in
`muddled` and in the middle of a detach, and needs to.  `PidFileIsTrue` leaves out daemons that
ran beside another (`met`): the one that cannot listen overwrites and removes the other's file.
`TermEnds` leaves out signals handled outside `ppoll` (`lost`), after which the daemon goes on.
`PortComesBack` and `QueueDrains` leave out sockets that the child of a silent client has inherited
(`HeldBySilent`, `Unserved`), and the latter also a daemon that waits in `accept` for a connection
that has gone (`InAccept`: the sockets are blocking).  Without any of these TLC finds the
property violated, too.

Findings.  `listing`: the comment at `usbipd.c:175-181` says that devices already exported are
excluded from the list to avoid revealing them to another client.  They are excluded by the
status read when the child rebuilt its list; a device exported since goes out all the same.
`paths`: `usbip_common.c:232` terminates `udev->path` in place of `udev->busid`, at the length of a
busid; the device's status is then read from a path cut to 31 characters, and a bound device whose
path is longer is left out of the list and refused with `ST_NODEV`.  The path of a device on a PCI
controller (`/sys/devices/pci0000:00/0000:00:14.0/usb1/1-1`) is longer; the other runs with the host back end
are of devices whose path fits (`CutPath = {}`).

## 4. Proofs

`UsbipProofs` is about the daemon and about the system it makes with its clients.  Of the daemon,
for any set of connections, any finite set of devices and any set of
requests (`NoConnAssumption`, `DevAssumption`, `RequestsAssumption`):

* `TypeCorrect`: `Spec => []TypeOK`.
* `OkReplyIsBacked`: `Spec => []OkReplyBacked`.
* `NoExportIsOrphaned`: `Spec => []NoOrphanExport`.
* `DaemonImplementsLease`: `Spec => ImplementsLease`; `NoDeviceTwice` draws its consequence.
* `BoundIsFoundUnlessCut`: `Spec => BoundIsFound` if no path is cut or the back end is the vudc's: the
  finding of `paths` is the only way for a bound device to be left out of a list.

The argument.  `OkReplyBacked` is not inductive: nothing in it says why a reply `ST_OK` is
sent only after a successful export, or why another child's export cannot take the device
over.  `IInv` adds three parts.  `ChildInv` ties a child's place to what it has done: before
the export there is no result, before the reply nothing is sent, and an `ST_OK` was only ever
said by a child whose result is `OK`.  `HeldInv` describes the owner of a device: it is
bound, used, its connection is up and asked for it.  `GrantedInv` is the converse: a child
whose result is `OK` and whose connection is up owns its device; it survives the exit of the
child because the stub keeps the socket, and the stub's release because that takes the
connection down.  The refinement has one lemma per kind of step.

Of what it sends, under the same assumptions:

* `RepliesAreWellFormed`: `Spec => []ReplyWellFormed`.
* `ListsAreFramed`: `Spec => []DevlistFramed`.

The argument.  `Place` says what a child has received and sent at each place in `recv_pdu`; a reply is then the
beginning of the right one whatever happens next, since nothing but a child's own steps changes it.
`Counted` is the loop invariant of the entries: those sent and those still to send add up to the
count that was announced, from the list that both loops filter, and the last sent is none of those to
come.

Of the composed system, for any set of machines, any ports and any assignment of calls to
machines (`MachineAssumption`, `PortAssumption`, besides the above):

* `DaemonWithin`: `ImportSpec => DaemonSpec`, so that every theorem about the daemon holds
  in the composed system; each step of `attach_device` or of a port is a step the daemon's
  environment was allowed, or none of the daemon's variables'.
* `ImportImplementsLease`: `ImportSpec => ImplementsLease`, which follows.
* `ImportTypeCorrect`: `ImportSpec => []ImportTypeOK`; no run checks this one.
* `PortOwnsConnection`: `ImportSpec => []PortKeepsConnection`.
* `AttachedIsBacked`: `ImportSpec => []AttachedIsExported`.
* `DeviceIsDrivenOnce`: `ImportSpec => []DrivenOnce`, from the last two: no two ports of any machines drive one
  device over connections that are both up.

The argument.  `ClientInv` says who keeps a connection up: the process, as long as it has its
descriptor (which it has until the kernel took the socket), or the one port, on its own
machine, that the socket was given to.  `PortKeepsConnection` is read off it.  `PromisedInv`
says that a call past the reply, and every attached port, was sent an `ST_OK`; it is kept
because a child's output only grows (`OutGrows`, `OkStays`).  `AttachedIsExported` is
`PromisedInv` together with the daemon's `OkReplyBacked`.

`MetadataServerProofs`, for any processes, devices, clients and number of plugs
(`NoProcAssumption`; `Imported` and `Onboard` are arbitrary):

* `MetaTypeCorrect`: `MetaSpec => []MetaTypeOK`.
* `ResetsExclude`: `MetaSpec => []ResetExclusive`.
* `DriverAgreesWithTable`: `MetaSpec => []BoundIsMatched`.
* `ListsAreFresh`: `MetaSpec => []ListIsFresh`.
* `ServedAreBound`: `MetaSpec => []ServedIsBound`.

The argument.  `PortInv`: a process is past `listen` and has not ended exactly when it has the
port.  Exclusion follows, and with it the frame of all the others: nobody else changes a
driver to `usbip-host` or the table while a process is in a reset or serves.  `BusidInv` adds to
`BoundIsMatched` that the device is not bound wherever the code is about to write its busid.
`ServedInv` follows a scan: every enumerated device that is neither still to visit nor the
current one is bound, or faulty, or from `vhci_hcd`; `ResetOutcome` and `ResetDone` show that a
reset leaves its device so on every path, which is where healing is proved.  `FreshInv` relates
the three dates: a server not marked by a signal enumerated after the last event broadcast,
because the event's `killall` marked all that had enumerated before; and only such a server
accepts.

`DiscoveryProofs`, for any servers, any refreshes, any number of slots and any size of a list
(`SizeAssumption`, `NamesAssumption`):

* `DiscTypeCorrect`: `DiscSpec => []DiscTypeOK`.
* `NotedAtMostOnce`: `DiscSpec => []NotedOnce`.
* `ListsStayWhole`: `DiscSpec => []ListsAreWhole`.
* `ListsStayAttributed`: `DiscSpec => []ListsAreAttributed`.

The argument.  `TypeInv` adds to the types that a fetch is of a node the refresh has.
`SlotInv` says that, for each refresh, a server is in one place at most: its query unanswered, its
answer on the way, its address with the child or in the pipe, or noted down.  So no server is
noted twice; it is here that datagrams are assumed not to be duplicated.  `InSlots` is the count: a
refresh that is about to note a server has a slot left for it, and one that has overrun has one node too many.
`ContentInv` relates the buffer to the
connection: no piece was sent before the size, so, if the size was received whole, a `recv` of `json_size`
pieces is of all of them and from the first (`WholeList`), and what earlier `recv`s put in the buffer is no
longer than it.  `AttrInv` says of a refresh that was not overtaken that what it parsed is still in the static
variable and is its node's list, or `Mixed`.

`AppWindowProofs`, for any devices and refreshes, any finite set of clicks and any ports (`TaskAssumption`):

* `WinTypeCorrect`: `WinSpec => []WinTypeOK`.
* `DescriptionsStayLive`: `WinSpec => []DescriptionsLive`.
* `ButtonComesBackAlways`: `WinSpec => []ButtonComesBack`.
* `AttachedIsAlwaysShown`: `WinSpec => []AttachedIsShown`.
* `NoPortIsNull`: `WinSpec => []NoNullPort`.

The argument.  That a reference count is never below zero is not a matter of types alone: `RefInv` says that it is one for
the row and one for each task at work on the description, and `FreshInv` that a description whose
refresh is not over was used by nobody.  `ListInv` has three parts: a device has one row at
most (`OneList`); a task of a device that is not disturbed is the only one, and works on the
row's description (`TaskInv`); and how far it has come says what the row's label and port
are and whether the device is attached (`RowInv`).

`VhciPortsProofs`, for any processes, calls and ports (`CallAssumption`, `PortAssumption`):

* `PortsTypeCorrect`: `PortsSpec => []PortsTypeOK`.
* `LibraryStaysSound`: `PortsSpec => []LibraryIsSound`.
* `DetachedWasFreeIndeed`: `PortsSpec => []DetachedWasFree`.
* `RecordsAreOwners`: `PortsSpec => []RecordIsOwners`.

The argument.  `LibInv`: in a process whose calls do not overlap, the one call in the library has
the driver that it allocated, still there until it frees it, and no other is left of the process.
Such a call therefore reads its own list, and `FreeInv` follows a detach: what it read as free
was free when it read it, or since.  `OwnerInv` says that who has a port is past its attach;
`RecordInv` that the owner's open file is the one the port's name still leads to, and that
when the owner is done its record is in it, of the ports that are neither muddled nor being detached.

`UsbipdMainProofs`, for any daemons, families and clients (`FamilyAssumption`, `InstAssumption`):

* `MainTypeCorrect`: `MainSpec => []MainTypeOK`.
* `PidFileStaysTrue`: `MainSpec => []PidFileIsTrue`.

The argument.  `KnownInv`: two daemons that are alive have met.  `NamedInv`: whom the pid file names has written
it and was not past `remove_pid_file`, unless it was killed.  `AloneInv`: a daemon that wrote it and met no
other is the one it names, because any other that could have written or removed it since was alive beside it.

`NetStreamProofs`, for any exchanges, any window and machines of either endianness
(`ExchangesAssumption`, `WindowAssumption`, `MessageAssumption`):

* `NetInvInvariant`: `NetSpec => []NetInv`.
* `MessagesAlwaysArrive`: `NetSpec => []MessagesArrive`.
* `NobodyWaitsForNobody`: `NetSpec => []NotBothBlocked`; no run checks this one, but `ExchangeEnds` needs it.
* `NetImplementsDialogue`: `NetSpec => ImplementsDialogue`.

The argument.  What the wire carries depends on all the messages before, and on how much of each has been
sent.  `Before(t, r, k)` is the offset in `r`'s stream at which turn `k` begins; as the number of the
bytes before it (a cardinality, not a sum) it needs no recursion.  `Stream(r)` then says of every byte on
the wire which byte of which message it is, and how far in its messages the sender is; `Place(r)` says that
what is still to be sent is the end of the message, and what was received so far its beginning.  Both are only
claimed while the receiver may still take something: a message that ends the exchange for its receiver
leaves it behind the sender.  `OnePlace` says that an offset is of one byte, so that what is received is what
was sent; `Packing`, by `FlipTwice`, that packing and unpacking undo each other on whatever two machines, as long as a
message's numbers do not overlap.  `Lags`: who waits for a message whose sender is past it has bytes on the
wire, so at most one of the two waits.  For the refinement, `TakesWhole` says that a message which is
complete is the one that was given, and `TalkStep` has one step per action; a piece of a message is no step
of `Dialogue`.

`NamesDbProofs`, for any file, any numbers, any widths, any buckets and any hash function into them
(`WidthAssumption`, `IdAssumption`, `HashAssumption`):

* `NamesInvInvariant`: `NamesSpec => []NamesInv`.
* `LookupAlwaysFirst`: `NamesSpec => []LookupIsFirst`.

The argument.  `LookupIsFirst` is about the lines above each line, the parser about its memory.  `Memory` says that
`lastvendor`, `lastclass` and `lastsubclass` are those of the last header above the next line, or none, where the last
subclass only counts below a class.  So each line that is stored goes under the key that the file gives it
(`Reads`), and no other does.  `Chains`: a chain has one entry for a key, since a second one is refused.
`First`: that entry is the first of the lines that give the key a name and for which memory was had; it stays
so when a line is added, because the headers above the older lines do not change (`SameUnder`).

## 5. Only model-checked

Liveness (`ConnectionReclaimed`, `RequestServed`, `DeviceComesBack`, `AttachReturns`,
`ConnectionSettles`, `RefreshEnds`, `TermEnds`, `PortComesBack`, `QueueDrains`, `ExchangeEnds`) is
out of the prover's reach and checked by TLC.  Every invariant that a run checks, and both refinements, are
theorems; the two properties that are violated are no theorems, of course, but `BoundIsFoundUnlessCut` says
exactly when one of them holds.

## 6. Not modelled

* `detect_iface.c` asks the system for an interface: pure I/O.  `main.c` and
  `usbip_app_pkexec.c` start the application.
* usbipd's options, help and version, the parsing of `-t`; the daemons of `UsbipdMain` have the
  options as constants.
* Formatting and the parsing of sysfs attributes, the widgets, the property accessors of
  `usb_desc.c`; the application's activation and the socket its events come in by, which are only
  the cause of a refresh in `AppWindow`.
* Code without a caller in the repository: `check_device_state`, `announce_client_event`,
  `multicast_set_ip_reuse`, `usbip_names_init` and `usbip_names_free` (after which the tables of
  `names.c` would still point to what was freed), `usbip_vhci_refresh_device_list`,
  `usbip_vhci_imported_device_dump`, `read_record`, and the PDUs of `usbip_network.h` that nobody
  sends (device information, export, unexport, encryption keys).
* Whether the metadata server comes back when the monitor did not find it running, and whether
  restarts end that cause uevents themselves: both may go wrong in `MetadataServer`, and nothing in
  the repository promises otherwise.
