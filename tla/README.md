# Verification of csh, the CSP shell

TLA+ models of `csh` (the shell that operates satellites over CSP), the TLC
configurations that check them, and TLAPS proofs of their safety properties.
File names in this document are relative to `src/`; line numbers for every definition are in
`PROJECT.json` under `map`.

## 1. The system

csh is one process. The **shell** reads a line and runs one command at a time;
a command blocks the shell until it returns. Some commands start **threads**
that outlive them: the parameter sniffer, the Prometheus exporter, the Victoria
Metrics push threads, the two Loki threads. These share global variables with
the shell, most of them without a lock. Everything else is a conversation with
**nodes** over CSP: requests and replies that may be lost, nodes that reboot,
RDP connections that break. Beside the shell there is a second program, the
**ZMQ proxy**, which connects shells and nodes and has threads of its own.

| Component (source) | State | Operations | Meets | What makes it hard |
|---|---|---|---|---|
| Victoria Metrics exporter (`src/victoria_metrics.c`) | `vm_running`, `buffer`, its mutex, the static `victoria_metrics_args` | `vm start`, `vm stop`, `vm_push` threads, `vm_add` | sniffer calls `vm_add`; curl reads `buffer` by pointer | start and stop join nothing: several push threads live at once and share one argument record |
| Firmware update (`src/spaceboot_slash.c`, `src/walkdir.c`) | `bin_info` (survives a command), RDP options, parameter list, the node's flash and boot counters | `switch`, `program`, `sps` | vmem transfers, parameter pushes, the node's boot loader | unchecked pushes and reboots, lost replies, verification over the same link, a node that reboots by itself |
| File transfer (`src/vmem_client_slash_ftp.c`) | local file, status file, RDP options | `download`, `upload` | vmem library, RDP | broken transfers are resumed by later commands |
| RDP options (`src/csh_defaults.c`) | defaults, per-command values, what csp uses | `rdp opt`, set, reset | every transfer command | early returns that skip the reset |
| Loki logging (`src/loki.c`) | stdout, a pipe, `old_stdout`, message queue, error count | `loki start`, `read_pipe`, `post_thread`, execute hook | every `printf` of the program | the reader and the stop of the poster race for stdout |
| Parameter sniffer and consumers (`src/param_sniffer.c`, `src/prometheus.c`, `src/vts.c`) | flags, `prometheus_buf`, log file, VTS socket | `prometheus start`, `vts init`, `vm start`, sniffer loop, scrape | VmPush, HkEpoch | a buffer shared by two threads without a lock |
| Housekeeping epochs (`src/hk_param_sniffer.c`) | `hks`, `timesync_nodes` | `hk timeoffset`, `hk utcparam`, each sample of a packet | the sniffer's thread | check-then-write on an unlocked table |
| stdbuf monitor (`src/stdbuf_client.c`) | cached `stdbuf_in`/`stdbuf_out`; the node's ring; `log_f`, `log_name` and the log files | version 1: pull, peek, print, push; version 2: `stdbuf_v2`, its stream and its log | the node's writer, the disk | pulls, peeks and pushes get lost one by one; the log file outlives the session and csh |
| Parameter commands (`src/param_slash.c`) | `param_queue`, parsed offsets and values | `set`, `cmd new/add/run/done` | the node's parameter server | index and slice boundaries, a queue at its limit |
| Variables, hosts, scripts (`src/environment.c`, `src/known_hosts.c`, `src/slash_env_var_cmds.c`, `src/slash_nodes_cmds.c`, `src/slash_run_environment.c`) | two linked lists, the hosts file | `var set/unset/clear`, `node`, `node add`, `node save`, `run`, `ident`, `csp scan` | `src/main.c` runs the hosts file at start | nested scripts, failed allocations, restart |
| ZMQ proxy (`src/zmqproxy.c`) | the delay queue, two times of the half duplex node | main loop, delay thread, capture task | zmq sockets and queues | two threads take packets from one queue and put them back; a node that must not be interrupted |
| Extension modules (`src/slash_apm.c`, `src/python/python_loader.c`) | the ordered list of libraries, imported modules, `sys.path`, the path buffer | `apm load`, native and Python half | the disk, `walkdir` | loads of directories that change, a library that is listed already, one buffer reused for all paths |
| Required versions (`src/require_version.c`, `src/require_version_cmd.c`) | none | `require version csh` | scripts that stop on its result | a hand-written parser, sums that carry |
| Expansion of variables (`src/environment.c`) | a buffer that grows | `csh_expand_vars` on each line | the variables | index arithmetic at both ends of the buffer |
| Not modelled: CSP initialisation, parameter list commands, vmem commands, `stdbuf_mon.c`, small helpers | | | | see section 7 |

The properties that make these correct: no sample is lost or overwritten
between the sniffer and a server, no buffer is overrun, a command that reports
success has done its work, a resumed transfer yields the whole file, the right
options are in force, the terminal shows every line once and in order, samples
get the right clock, the elements a user names are the elements that are set,
names survive a restart, logs keep what reached them, no packet vanishes in the
proxy without a reason or waits there for ever, a library is initialised once,
and versions are ordered as versions. `PROJECT.json` lists the hazards behind
them, each at its line with the properties that catch it.

## 2. Modules

Each module models the whole of each handler it names. Conversions, printing
and URL or JSON text are abstracted to what the properties distinguish. A
definition ending in `Mut` is a deliberately wrong variant of the definition
after it; it is used by no specification, and shows, when put in its place,
that the property it belongs to fails.

| Module | Part of the system | Correspondence |
|---|---|---|
| `VmPush` | `victoria_metrics.c` | variables have the C names; `pc[t]` is the program counter of the `t`-th push thread. `vm start` is split where another thread can interfere: `StartArgs` (options and `strdup`), `StartSpawn` (`pthread_create`), `StartRun` (`vm_running = 1`); `vm stop` is `StopFree` and `StopFlag`. A push thread is `TestConnection`, `BuildUrl`, `LoopTest`, `LockBuffer`, `PushDone`, `Cleanup`. Strings in `vm_args` are the number of the start that duplicated them; `NewServer` gives the server a number when a start names it, so that a thread can be seen to send to an outdated one. `Implements` is the refinement of `MetricQueue`. |
| `MetricQueue` | – | the abstract specification of the exporter: samples are accepted, delivered in batches at least once, and confirmed only when the server has them. No thread, buffer or mutex. |
| `VmPushProofs`, `SpaceBootProofs`, `ZmqProxyProofs` | – | theorems about the module of that name |
| `TelemetryProofs` | – | theorems about `Telemetry` and `HkEpoch`, on top of `MCTelemetry`, which instantiates the latter |
| `FilesProofs` | – | theorems about `VmemFtp` and `Environment`, on top of `MCFiles`, which instantiates the latter |
| `ConsoleProofs` | – | theorems about `StdbufLog`, `Loki` and `Stdbuf`, on top of `MCConsole` |
| `SessionProofs` | – | theorems about `ParamQueue`, `ParamSet` and `ExpandVars`, on top of `MCSession`; and the lemmas about numbers and loops |
| `LoaderProofs` | – | theorems about `Apm` and `RequireVersion`, with those lemmas |
| `RdpOptions` | `csh_defaults.c` | `rdp_opt_add`, `rdp_opt_set`, `rdp_opt_reset`, `rdp opt`; the six options are one value because they always travel together |
| `SpaceBoot` | `spaceboot_slash.c`, `walkdir.c` | extends `RdpOptions`. `Begin` is one action per command line, `Body` the common steps of `program` and `sps` up to their early returns. `bin_info` keeps its old entries between commands, as the global does. The node (flash, boot counters, self-reboot) is external. |
| `VmemDownload`, `VmemUpload` | `vmem_client_slash_ftp.c` | extend `RdpOptions`. A byte is its position; the transfer itself is external and yields a prefix, or an error. |
| `VmemFtp` | both | composes the two: one shell, commands one after another, sharing the RDP options |
| `Loki` | `loki.c` | a descriptor is what it refers to (`Tty`, a pipe, `Closed`); one action per system call that another thread can observe |
| `Telemetry` | `param_sniffer.c`, `prometheus.c`, `vts.c` | `prometheus_add` is split into reading the length, writing the text and writing the length; the exporter into `accept`, `send`, `clear` |
| `HkEpoch` | `hk_param_sniffer.c` | `hk_set_epoch` is split into the decision and the write; `RowAppears` makes a new row visible before its epoch, because `count++` and the store have no order |
| `Stdbuf` | `stdbuf_client.c` (version 1) | pull, peek and push are separate actions with lost requests and lost replies; `out_push` is a `uint16_t` |
| `StdbufLog` | `stdbuf_client.c` (version 2) | the stream of a node, the log that stays open between sessions, numbered logs (`-f "?stem"`), what the C library has buffered, exit, kill and restart of csh |
| `ParamSet` | `param_slash.c` (`set`) | the token loop computes `offset_array` the way the code does; `Elements` is the independent reference definition it is compared with |
| `ParamQueue` | `param_slash.c` (`cmd ...`) | the global queue, a node that applies it, lost acknowledgements |
| `Environment` | variables, hosts, scripts, the start of `main.c` | both lists as sequences with the newest entry first; a restart empties the memory and keeps the hosts file. The history `changed` notes when somebody other than `run` sets or removes `__FILE__` or `__FILE_DIR__`. |
| `ExpandVars` | `environment.c` (`csh_expand_vars`) | the scan of a line, one action per character; the buffer is what was written and its capacity. `Expansion` is the independent definition of the text a line stands for. |
| `RequireVersion` | `require_version.c`, `require_version_cmd.c` | a string is a sequence of tokens (a run of digits is one); `parse_version`, `compare_version` and the command are translated; `WellFormed` and `Order` say independently what a version is and how two compare, and `DecidesAsDocumented` relates the two |
| `Apm` | `slash_apm.c`, `python_loader.c`, `walkdir.c` | `apm_load` is one action, as nothing runs beside it: `build_apm_list` with its reused path buffer, the insertion into the ordered list, `libmain`, then the Python half. `Install` changes a directory between loads. |
| `ZmqProxy` | `zmqproxy.c` (built with `ZMQ_PROXY_LOSSY`) | the main loop, `task_delay_send` and `task_capture` as three processes; each read or write of a shared variable is a step. Chance is an arbitrary choice; a packet is its number and its kind. |

`MC*` modules instantiate these for TLC. `MCConsole`, `MCTelemetry`,
`MCFiles` and `MCSession` put components side by side that share no state: every
behaviour is a behaviour of exactly one of them, the others stay in an initial
state. This is sound, as a component's behaviours and its properties are
unchanged, and no fair action of a component is enabled in its initial states,
so that the fairness of those that do not run asks nothing. Where components do
share state they are composed properly: `VmemFtp` (downloads and uploads meet in
the RDP options), `SpaceBoot` (with `RdpOptions`), `Loki` (its threads with the
shell), `VmPush` (with the sniffer).

## 3. Runs that pass

| Run | What it shows | States, time |
|---|---|---|
| `vmpush` | Two push threads, left behind by stop and start, share a buffer of 3 bytes with a server that refuses requests or loses its answers. `TypeOK`; `MutexInv`: the mutex belongs to the thread that is pushing; `NothingLost`: what `vm_add` stored is what was confirmed followed by what waits; `BufferFits`: the bytes and the NUL fit; `NeverOlderServer`: a thread never sends to the server of a session earlier than its own; `FrozenWhilePushing`: nobody changes the memory curl reads; `Implements`: all of this is a `MetricQueue`; `Delivery`: stored samples reach the server while a thread loops and nobody stops it; `StopEndsThreads`: once the flag stays down all threads end. | 47 k, 55 s |
| `spaceboot` | Any sequence of `switch`, `program`, `sps` and `rdp opt` with lost requests and a node that reboots by itself. `CrcSuccessMeansProgrammed`: with `-C`, success (and `sps` switching to the slot) means that the flash holds the chosen image; `SpsUsesOptions`; `OfferedFits`: a file the search offers fits behind the base address; `SwitchBoots`: the node runs the slot it was told to when push and reboot arrived. | 301 k, 75 s |
| `files` | What one command leaves in a file for a later one. `VmemFtp`: broken, resumed and restarted downloads and uploads in one session. `StatMatchesFile`: file and status file agree, `length - offset` never wraps, and a completed file is the area, unless a status file went stale; `NoHole`: below a suggested upload offset everything is stored, and an upload that succeeds has stored all. `Environment`: `NodesSurviveRestart`: a node has one name, and names survive save and restart; `FileIsInnermost`: `__FILE__` is the innermost running script. | 447 k, 110 s |
| `console` | `Stdbuf`: a ring of 4 cells read in peeks of 2, two lost requests, two sessions. `UnreadIntact`: no unread character is overwritten; `ShownInOrder`: characters are shown once and none is skipped; `AllShown`: while the monitor runs, everything written is shown. `StdbufLog`: `LogsKept`: over sessions, crashes and restarts no log loses text that reached it, and each session logs to the file it asked for. `Loki`, two sessions: `InOrder`: lines appear once and in order, and none vanishes; `StopRestoresStdout`: after the poster gave up, stdout comes back although nobody prints. | 234 k, 90 s |
| `telemetry` | `Telemetry`: consumers started in any order, scrapes at any moment. `BufferFits`; `ServedIsWritten`: a scrape sends only samples, and only the race or a lost answer loses one; `ReportedOnce`: one thread of each kind, and VTS gets increasing times. `HkEpoch`: shell and sniffer update the epoch table concurrently. `TableRightUnlessRaced`: complete and with one row per node unless they met; `TableLegal`: epochs lie between 2020 and now whoever wrote them, and no sample is logged before 2020; `AutoSyncNeverBack`. | 890 k, 110 s |
| `session` | `ParamSet`: `OffsetsAreElements`: the parser against the set of elements named, and what it refuses it refuses for a reason; `EveryOffsetSet`: no value is read beyond those given, and all offsets are set. `ParamQueue`: `Homogeneous`, `ReadOnlyKept`. `ExpandVars`: `ExpandsAsDocumented`: against a reference definition, inside the buffer. `RequireVersion`: `DecidesAsDocumented`. `Apm`: `ListedInOrder`: the list stays ordered and each library is in it once; `LibmainOnce`: `libmain` runs once, when a library is listed. | 394 k, 100 s |
| `proxy` | `Accounted`: every packet received is in one place: in hand, delayed, held, sent, or given up for a reason; `CapturedInOrder`: what is published is logged once and in order; `DelayedIsSent`: no packet is overdue for ever, though the queue rotates. | 389 k, 30 s |

### Bounds, and why they are enough

- `vmpush` (`MCVmPush`): two starts give the overlap of an old and a new
  thread; lines of 1 and 2 bytes and 3 bytes of buffer (one for the NUL) give a
  line that fits, one that fills the buffer exactly and one that is dropped.
  The proofs remove the bounds for the safety properties, here and for all
  other components.
- `spaceboot`: two slots, two files that fit slot 1 (one found by its marker,
  one by its first entry point) and one that is too long; a search list with
  two entries, so that the index typed can name an entry left by an earlier
  command. `Times = {257}` has a low byte of 1, the conversion to `uint8_t`
  being part of the model.
- `files`, transfers: lengths 1 and 3 allow a shorter and a longer command on
  the same file; two windows; packets of one byte. The constraint `ShortFile`
  stops TLC when a stale status file has made the file longer than the area:
  from there the same bytes can be appended forever, and `stale` stays true
  until the file is begun anew.
- `console`, Loki: one message in the queue and one tolerated error reach
  "full" and "too many"; four lines and two sessions let the second session
  read after the first has closed. The constraint `Sequential` stops TLC at an
  overlapping start; both properties are true by their premise from there on.
- `telemetry`, consumers: three cells are one sample, a second and the NUL;
  four samples fill the buffer and refuse one.
- `telemetry`, epochs: three nodes and two rows give a full table; clock values
  straddle `Y2020` and `DAY`. `WithinTable` stops TLC after a race has
  overflowed the table, where the arrays no longer mean anything.
- `console`, stdbuf: five characters and four cells wrap the ring; a peek of
  two is shorter than the text and cut at the end of the ring. Version 2: two
  numbered logs (so that the numbers run out), one named, three packets, four
  sessions.
- `session`, `set`: bounds -4 to 4 on arrays of 1 and 3 elements include every
  sign and both sides of each limit; three values for two places in a packet.
- `files`, environment: a name that is both a host and a variable, two nodes
  with the same name, a script that `realpath` cannot find, nesting of two, one
  failed allocation.
- `session`, expansion: all lines of up to five characters over `$`, `(`, `)`
  and a letter, with a value longer than the buffer grows at once (`Step` is 2
  instead of 16, so that each line crosses it).
- `session`, versions: all strings of up to three tokens and longer ones with a
  tail, all pairs of comparison characters, parts on both sides of 1000.
- `session`, modules: three directories, the third with a longer path; two
  libraries and a Python module; two changes between loads; a list of two
  before a load; `WALKDIR_MAX_ENTRIES` 2, so that the limit is met.
- `proxy`: three packets, from the half duplex node, to it and too short; a
  queue of two is full with a third in hand; delays of 1 and a clock up to 4
  let a packet be early, due and overdue. The clock begins above
  `hdx_powerdown_delay`, as `csp_get_ms` does on a machine that has been up for
  a while.

Deadlock is not checked: a session may stop at the prompt, and the bounds end
behaviours.

### Fairness

- `VmPush`: weak fairness of the shell's steps inside a command (it does not
  stop half way) and of each thread (the scheduler runs it, and a request
  returns: curl limits the time to connect, and the models assume that a server
  which accepted a request answers it or drops the connection, as the code sets
  no `CURLOPT_TIMEOUT`). Strong fairness of taking the mutex, for a
  push thread and for `vm_add`: after every push the thread sleeps a second
  with the mutex free, so a waiter is served. `FairServer`, strong fairness of
  a successful push, is an assumption about the server: one that is asked again
  and again finally answers. No fairness is assumed for starting or stopping.
- `Loki`: weak fairness of each thread (a `read` returns when there is data,
  an HTTP request returns, with the same assumption) and of finishing a start. Not of printing:
  `StopRestoresStdout` rests on the message the post thread itself prints.
- `Stdbuf`: weak fairness of the monitor's loop. Losses are finite because
  `MaxLosses` bounds them; the user is never forced to start or to stay, and
  `AllShown` says "again and again".
- `ZmqProxy`: weak fairness of each of the three threads (the scheduler runs
  them; none holds a lock) and of the clock. Packets need not come.

## 4. Runs that find a disagreement

- `vmpush_running_means_thread`: `vm start` raises `vm_running` after
  `pthread_create`. A new thread that tests the flag first ends, and so does
  one whose connection test fails first; then the flag is raised without a
  thread. The next `vm start` is refused as already running.
- `vmemftp_complete_means_copied`: declining to resume truncates the file and
  keeps the status file. If the new transfer fails at once, the next command
  resumes at the old offset in an empty file and reports completion.
- `version_hierarchical`: `compare_version` compares
  `major * 1000000 + minor * 1000 + patch`, so that a part of 1000 or more
  carries into the one above: 1.1000 equals 2.0.
- `apm_every_path`: `build_apm_list` copies each path but the last into the
  buffer of the one before without a NUL; of three paths the middle one is not
  searched unless it is as long as the first.
- `param_all_values_used`: `set p[0:2] 1 2 3` without brackets is accepted and
  sets all elements to the first value; the unit test lists such a command as
  invalid.

## 5. Proofs

A theorem here speaks of every value of the constants that the assumption of
its module allows, so of any number of threads, nodes, packets, sessions,
files and lost messages. The assumptions say what sort of thing a constant is
(a natural number, a set of lengths, a buffer with at least one cell); those
that say more are named below. Each safety theorem has the same form: an
inductive invariant that initial states have, that each action keeps (one step
of the proof per action), and that contains the property or implies it.

**Exporter** (`VmPushProofs`; `VmAssumption`: a buffer with room for the NUL,
lines of at least one byte).

- `VmTypeCorrect`: `Spec => []TypeOK`. `TypeOK` is inductive because it holds
  two facts beyond types: a configured start still has a thread number left,
  and a sniffer that is adding has a line.
- `VmMutex`: `Spec => []MutexInv`. Inductive relative to `TypeOK`; besides
  "pushing iff holding the mutex" it says that threads not yet created are in
  state `none`, which is needed when `StartSpawn` creates one.
- `VmNothingLost`, `VmBufferFits`: inductive relative to `TypeOK`. The lemma
  `VmBufferSteps` reduces every step to three: the buffer is unchanged, a push
  returned, or `vm_add` ran.
- `VmFrozenWhilePushing`: the action property, from `TypeOK /\ MutexInv` and
  the same lemma. A step that changes the buffer needs the mutex or is the end
  of the push of its holder, and the holder is the thread that is pushing.
- `VmNeverOlderServer`: inductive together with the server of a session that is
  configured and has no thread yet (`ServerInv`).
- `VmImplements`: `Spec => Implements`, the refinement of `MetricQueue`. The
  lemma `VmFresh` (a line handed to `vm_add` was never stored before) gives the
  guard of `Accept`; `VmBufferSteps` leaves three cases to map: storing is
  `Accept`, a confirmed push is `Deliver`, a push whose answer is lost is
  `DeliverUnconfirmed`, and everything else is a stutter.

**Firmware update** (`SpaceBootProofs`; `SpaceBootAssumption`: slots and an
entry of `bin_info` exist, the files have the form of a file record).

- `SpaceSwitchBoots`: inductive with the types alone. The lemmas say that
  `reset_to_flash` pushes counters of which only the chosen slot's can be other
  than zero, and that the boot loader takes that slot. Its low byte may be zero,
  which is the premise of the property.
- `SpaceCrcMeansProgrammed`: relative to that, the step from `verify` is the
  only one that reports success, and only a transfer changes the flash.
- `SpaceSpsUsesOptions`: needs `OptionsInv`, that from its first step on `sps`
  has its own options in force: what earlier commands left in `rdp_tmp` and
  `rdp_active` is overwritten before a transfer can start.
- `SpaceOfferedFits`: needs `FoundInv`: after the search the first `count`
  entries of `bin_info` are valid for the slot. Those behind them may be stale.

**File transfer** (`FilesProofs`, from `FtpSpec`).

- `FtpStatMatchesFile`: `DownloadInv` adds that a command that begins has not
  completed a file yet. The lemmas on `Area` say that a prefix of the area with
  the next piece appended is the next prefix.
- `FtpNoHole`: `UploadInv` adds what a running transfer relies on: nothing is
  missing below its offset, and its window is the one in force. The latter is
  why the suggested offset is right although commands share the RDP options.

**Scripts** (`FilesProofs`, from `E!Spec`).

- `FilesInnermost`: knowing the innermost script is not inductive, as ending it
  restores what its context holds. `EnvInv` therefore says of every level of
  nesting that its context holds what the level that ran it will find again
  (`ContextsRight`), and that the list of variables has each name once
  (`IsEnv`), without which removing an entry could uncover an older one. The
  depth of nesting is a parameter.
- `FilesNodesSurvive`: `HostsInv` says that the table of hosts and the table
  that was saved name each node once (`IsTable`), and that while csh starts and
  no allocation has failed, the hosts are the lines of the file read so far,
  newest first (`Loading`).
  Reversing such a table finds the same name for every node; only between two
  nodes of one name the order decides, which the property leaves out.

**Telemetry** (`TelemetryProofs`).

- `TelemetryBufferFits`: the property is nearly inductive; `FitsInv` adds that a
  sniffer which handles a sample has one.
- `TelemetryServed`: `WrittenInv` says which cells hold samples, also between
  the halves of `prometheus_add`; `NoneLostInv` says where a stored sample is
  while nobody raced: in the buffer, or in an answer.
- `TelemetryReportedOnce`: `OnceInv` adds that the reported seconds do not
  exceed `last_time`.

**Epochs** (`TelemetryProofs`; `HkAssumption`: at least one node).

- `HkTableLegal`: `LegalInv` says that a thread that has decided holds a legal
  epoch, and that a row with epoch 0 is being written at this moment.
- `HkTableRight`: `RightInv` says, until two threads meet, that the decision a
  thread has taken is still true when it writes (`StillDecided`). The lemma
  `MinIsLeast` stands in for an induction: a nonempty set of row numbers has a
  smallest, by the well-foundedness of finite sets.
- `HkAutoSync`: the action property, from both.

**Console** (`ConsoleProofs`; `StdbufAssumption`: a ring of at most 65536 cells,
as `out_push` is a `uint16_t`).

- `ConsoleLogsKept` (version 2 of stdbuf): `LogInv` relates three places: what
  the files hold is what reached them, what the C library has buffered continues
  the file that is open, and a numbered log has only text of its own session.
- `ConsoleInOrder` (Loki): `OneSession` says that without an overlapping start
  the living reader belongs to the last session and the shared descriptors are
  that session's; `LinesRise` orders screen, copy buffer and pipe one behind
  the other; `NoneLost` says that a line printed is in one of them.
- `ConsoleUnreadIntact`, `ConsoleShownInOrder` (version 1): `Abreast` says that
  while pulls are answered the monitor is where the node is and asks for no more
  than there is, `RingHolds` what each cell of the ring holds, and `Shown` and
  `Once` relate what was printed to what the push under way claims. The lemmas
  `Wrap`, `InRing`, `Gap` and `Apart` are the arithmetic of positions modulo
  `SIZE`.

**ZMQ proxy** (`ZmqProxyProofs`; `ProxyAssumption`: room for one packet in the
queue, and a clock that gets beyond `hdx_powerdown_delay`, where it starts).

- `ProxyAccounted`: `AccountInv` says that every packet received is in exactly
  one place (`OnePlace`) and occurs there once (`QueueOnce`, `SentOnce`,
  `GoneOnce`), that no other packet is anywhere (`Known`), and that a round of
  the delay thread ends before the queue does (`RoundInv`), so that it never
  takes from an empty one.
- `ProxyCapturedInOrder`: inductive relative to the types; the lemmas say that
  publishing appends to what the capture task will read, and reading takes the
  head of it.

**Parameters** (`SessionProofs`; `ParamSetAssumption`: arrays have elements, a
token list is read as some numbers).

- `SetOffsetsAreElements`, `SetEveryOffset`: `SetInv` says that the offsets
  kept so far are different and, once the bracket is closed, are the elements
  named, and that what was queued are the first of them in order. The token
  loop is one recursive function in the model; its invariant (`taken`, token by
  token) is proved for every list.
- `SessionHomogeneous`, `SessionReadOnlyKept`: `QueueInv` adds to both
  properties that a write of a read-only parameter which is still queued was
  forced. How much of the queue an edit keeps is decided by the buffer, and a
  queue of any length is applied entry by entry.

**Expansion** (`SessionProofs`; `ExpandAssumption`: values are strings and the
buffer grows by at least one).

- `SessionExpandsAsDocumented`: `ExpandInv` says that what was written, followed
  by the expansion of the rest of the line, is the expansion of the line, and
  inside `$(` that no parenthesis has closed it yet. The buffer is never shorter
  than what was written, because it grows before each piece.

**Extension modules** (`LoaderProofs`; `ApmAssumption`: a directory that is
missing holds nothing, and a name is a library or a Python module, not both).

- `ModulesListedInOrder`, `ModulesLibmainOnce`: one invariant, `ApmInv`, for
  both: any two entries of the list are in order, and `libmain` of a library ran
  once if the list holds it and never otherwise. That holds because a search
  lists no library twice and none that is loaded, across all its directories,
  and because inserting before the first name that is not smaller keeps the
  order. Both halves of a load are loops over what the search found; the
  invariant is carried through each of them.

**Required versions** (`LoaderProofs`; `VersionAssumption`: the characters
differ, no two numbers stand side by side, and a constraint begins with at most
two comparison characters).

- `VersionDecidesAsDocumented`: one command decides, so the weight is in the
  lemmas. `StageStep` follows the parser token by token against the grammar, and
  `TagParsed` concludes that it accepts exactly the versions, of any length, and
  reads their parts. `SumsCompare` is the arithmetic of sums of parts below
  1000, `OrderIs` the first part that differs, `OperatorIs` and `MeantIs` the
  operators. Without the premise `Small` the statement is false, which
  `version_hierarchical` shows.

Induction: the library's rules take an operator as a parameter, which the
provers cannot instantiate. Where a proof needs one over positions in a sequence
it uses the lemma `UpTo` (a set of numbers that holds 0 and each successor holds
all up to n, because the smallest it lacked would have a predecessor, from the
well-foundedness of finite sets), and `Iterates` for the existence of the
recursive functions the modules are written with. Loops are therefore functions
over positions in the models, not `RECURSIVE` operators or folds.

Only model-checked: the liveness properties `Delivery`, `StopEndsThreads`,
`AllShown`, `StopRestoresStdout` and `DelayedIsSent`, as fairness and `ENABLED`
are beyond the prover. Every safety invariant and every action property that a
passing run checks is a theorem.

## 6. Observations

Behaviours that the models reproduce and that the properties exclude by an
explicit premise, or that a maintainer should know:

- `vm start -P` stays in the static record: a later start without `-P` uses the
  old port. `vm stop` joins no thread; a stop and a quick start leave two.
- `sps` ignores whether its boot parameters were pushed and whether the reboot
  arrived. The index typed for a binary is not compared with the number of
  hits, so that an entry of an earlier search can be chosen.
- Without `-C`, verification ignores the result of `vmem_download` and compares
  memory that may hold an earlier copy.
- `program` parses RDP options and does not pass them to csp; early returns of
  the transfer commands leave their options in force, and `rdp opt` then makes
  them the defaults.
- Loki: a line printed between the reader's close and the restore of stdout
  raises SIGPIPE; a start during the end of a session mixes the descriptors of
  both; a full queue drops messages.
- Prometheus: a scrape between the two halves of `prometheus_add` loses or
  repeats samples. The log option of a consumer is ignored when the sniffer
  already runs. A `vts init` that fails closes the socket in use.
- `hk`: an epoch that was rejected is still used for the sample that implied
  it; two threads can append a row for the same node, or one row too many; a
  row can be read before its epoch is stored.
- `stdbuf`: a lost pull is not noticed, and the cached positions are used again.
  Version 2 keeps logging into the file of an earlier session when `-f` is not
  given; if that file cannot be opened, the first line is written to NULL.
- `set`: an empty pair of brackets and an index beyond the array are accepted
  by the parser in some positions; a full packet silently ends the list.
- `cmd new` without a name changes the type of the active command.
- Reloading the hosts file reverses the order of the table, which decides
  between two nodes of one name. `known_hosts_add` removes the old name before
  it knows whether there is memory for the new one.
- The completer of variable names compares each match with the first one and
  keeps only the last length: with three or more matches it can complete to
  more characters than all of them have in common.
- `csp add tun` counts the interface and leaves its name unset; an alias of an
  unknown interface dereferences NULL.
- `require version`: three comparison characters fill `operator` without a NUL.
- `apm load`: a library without `apm_init_version` makes `load_apm` call NULL,
  so that the message that refuses it is never reached. The Python half runs at
  every load, adds its modules to the list again, and its result replaces a
  failure of the native half.
- ZMQ proxy: two threads send on one socket, which zmq does not allow. While
  packets keep being delayed or lost the loop continues before it looks at
  `backend`. A probability of 0 still drops when `rand()` yields 0. The half
  duplex node reorders its packets, and a packet too short for a header keeps
  the id of the one before. In the lossy build `-a` and `-k` take no argument,
  so that no key is ever read.
- `fwrite` in `download` may store less than was fetched; the status file counts
  what was fetched.

## 7. Not modelled, and the plan

Modelled in this order, the most important first: the exporter (with its
abstract specification and proofs), firmware update, file transfer, Loki,
telemetry, epochs, stdbuf with its log, parameters, environment and expansion,
versions, extension modules, the proxy; then the theorems, component by
component. What is left, in order:

1. `get` and `cmd pull` (`src/param_slash.c`).
2. The order of options and one-shot commands in `src/main.c`.
3. The completers, which edit the line under the cursor.

Not modelled, and why:

- CSP initialisation (`src/csp_init_cmd.c`): each command parses options and
  makes one call into libcsp, which keeps the interfaces and routes. Of its own
  the file has a counter per kind of interface.
- Parameter list commands (`src/param_list_slash.c`), vmem commands
  (`src/vmem_client_slash.c`), `src/slash_csp.c` but `ident`: one request or one
  call into a library, and printing.
- `src/stdbuf_mon.c`: the build does not compile it.
- Printing, option tables, the C API of Python, and the libraries (libcsp,
  libparam, slash, curl, zmq), which appear only through the way csh uses them.
- The plain proxy, which is one call into zmq, and its two monitor tasks, which
  print socket events. That two threads send on one zmq socket is the one
  hazard without a property: what happens then is inside zmq, and `ZmqProxy`
  takes each send as one step.
