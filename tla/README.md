# Verification of esp32-hermes-voice

TLA+ modules, TLC configurations and TLAPS proofs for a push-to-talk voice
assistant: an ESP32-S3 device records a question, uploads it as a WAV to a bridge
server, and shows and plays the answer. The device reaches the bridge over a
tailnet, with a WireGuard stack and a tailnet client of its own. This directory
says what the concurrent parts of that program do, what makes them correct, and
what of it is checked or proved.

Paths below are relative to the repository. `PROJECT.json` lists, for every
definition that models code, the file and lines it stands for.

## 1. Inventory

| Component | State | Operations | Talks to |
|---|---|---|---|
| Audio player, `firmware/main/audio_player.c` | `s_playing`, `s_abort`, speaker codec open, audio enabled, volume | `stream_begin`, `stream_write`, `stream_finish`, `stop`, `set_audio_enabled` | recorder (pauses it before and after a stream) |
| Audio recorder, `audio_recorder.c` | `s_recording`, `s_task`, `s_completing`, microphone codec open, callbacks | `start`, `stop`, `pause`, the recorder task | player (refuses while it plays), application (callbacks) |
| Application, `app_main.c` | operation tokens, pending WAV and request id, last answer, action queue | record, release, cancel, retry, volume, toggle; the upload and audio-retry tasks; recording callbacks | everything on the device |
| Voice client, `voice_client.c` | one request at a time per task | `run` (POST and polling), `play_speech` (streamed download) | bridge over HTTP, player |
| UI, `voice_ui.c` | the screen, the record gesture and its timers | `show_*`, touch callbacks | application (queued actions) |
| Wi-Fi manager, `wifi_manager.c` | network index, failures in a row | handler of the driver's events, choice of the network | link (events) |
| Tailscale link, `tailscale_link.c` | event queue, pending rebind, MicroLink handle | the link task | MicroLink (start, rebind, destroy) |
| MicroLink life cycle, `microlink/src/microlink.c` | tasks, sockets, event group | start, rebind, stop, destroy | its four tasks |
| MicroLink coordination, `ml_coord.c` | `coord_state_t`, control socket, Noise nonces, HTTP/2 streams, challenge, commands | connect, handshake, register, fetch peers, long poll, watchdogs | control server, STUN, relay, peer queue |
| MicroLink STUN, `ml_stun.c`, `ml_net_io.c` | transaction ids, retries, public endpoint, verdict on the NAT, answer queue | probe, retry, take an answer | STUN servers, control server |
| MicroLink relay, `ml_derp.c` | TLS socket, connected flag, event bits, transmit queue | connect, read, write, queue a packet | relay, rebind, coordination |
| MicroLink peers, `ml_wg_mgr.c`, `ml_peer_nvs.c` | slots, update queue, cache in NVS | add, remove, evict, restore | coordination, WireGuard |
| MicroLink paths, `ml_wg_mgr.c` | best address and trust of a slot, pending DISCO probes | ping, pong, call-me-maybe, fall back to the relay | peers, WireGuard |
| WireGuard, `components/wireguard_lwip` | keypairs, replay windows, handshakes, timestamps | initiation, response, transport data, timers | lwIP, paths |
| Voice bridge, `server/voice_bridge` | jobs table, audio and speech files, one task per job | POST and GET jobs, GET speech, clean-up, recovery, shutdown | STT, Hermes and Kokoro over HTTP |
| WAV builder, configuration, cryptography, font, build and CI | | | |

What is hard here, with its lines, is the `hazards` list of `PROJECT.json`. In
short: on the device several kinds of FreeRTOS tasks share flags, WAV buffers,
tokens and the screen, mostly by reading under a lock and acting after it;
MicroLink has four tasks that tell each other of one network by event bits, bounded
queues and sockets they close under one another; the networks lose, repeat and
reorder; on the server one event loop is interleaved at every `await`, with files
changed in worker threads, and may be killed and restarted at any of them.

What makes each component correct:

* player and recorder: capture and playback never use the shared audio path
  together; a capture keeps its microphone and its callback; no flag that blocks
  later use stays raised without somebody to lower it;
* application: a WAV buffer is freed once and never lost, and is only sent under
  the id drawn for it; the globals never point to a freed token; a cancel, a
  release and a barge-in have the effect `README.md` promises;
* bridge: a job always has a task while it is active, ends, and then keeps its
  outcome; an answer survives a failure of the speech; files are deleted, and
  announced speech exists;
* link: a device with a good network gets back to it, and after every change of
  the network each socket of MicroLink moves to the new association;
* coordination: after any failure it listens again, on one socket, with nonces,
  frames and streams in step with the server;
* relay: no half-open connection is forgotten, nothing is read or written past the
  middle of a frame, handshakes are not stuck behind data;
* peers and paths: the table, WireGuard and the server name the same peers, and a
  packet is not sent to the address of another one;
* WireGuard: both ends file the same keys, a nonce is used once, a packet is
  delivered once, a restart does not lock a peer out.

## 2. Modules

| Module | Models | Role |
|---|---|---|
| `AudioPath` | `audio_player.c`, `audio_recorder.c` | the shared audio hardware, with callers as permissive as the firmware |
| `VoiceApp` | `app_main.c`, with `voice_client.c` and `voice_ui.c` as it sees them | the application; composed with `AudioPath`, every step of which is one of `AudioPath` or leaves it alone |
| `RecordGesture` | the record buttons of `voice_ui.c` | how touches on a panel that jitters become one press and one release |
| `JobContract` | `models.py` | what a device is promised about the status of a job |
| `VoiceBridge` | `main.py`, `service.py`, `storage.py` | the bridge, an implementation of `JobContract` |
| `MlLink` | `wifi_manager.c`, `tailscale_link.c`, `microlink.c` | from the Wi-Fi to the start, rebind and destruction of MicroLink |
| `MlCoord` | `ml_coord.c`, `ml_noise.c`, `ml_h2.c`, `microlink.c` | the connection to the control server |
| `MlStun` | `ml_stun.c`, `ml_net_io.c`, the STUN part of `ml_coord.c` | the public endpoint and the kind of the NAT |
| `MlDerp` | `ml_derp.c`, its callers | the connection to the relay and its queue |
| `MlPeers` | the peer part of `ml_coord.c`, `ml_wg_mgr.c`, `ml_peer_nvs.c` | how the table follows the server |
| `MlPaths` | the path part of `ml_wg_mgr.c`, `wireguardif.c` | which way packets go to a peer |
| `WgReplay` | `wireguard_check_replay` | the sliding window as a pure operator |
| `WgSession` | `wireguard.c`, `wireguardif.c`, the platform file | two devices and an unreliable network; uses `WgReplay` |
| `AudioPath_proofs`, `VoiceApp_proofs`, `VoiceBridge_proofs`, `MlDerp_proofs` | | theorems about the module before the underscore |
| `WgSession_proofs` | | theorems about `WgReplay` and `WgSession` |
| `MlControl_proofs` | | theorems about `MlCoord` and `MlPeers` |
| `MlUdp_proofs` | | theorems about `MlStun` and `MlPaths` |
| `Device_proofs` | | theorems about `MlLink` and `RecordGesture` |
| `MC*` | | symmetry sets, views and functions for TLC |

**AudioPath.** An action is one critical section of `s_lock` of the player or
the recorder, or one unlocked access. `stream[s]` is the control point of a task
inside `voice_client_play_speech`: `stream_begin` takes three steps (claim, pause
the recorder, open the speaker), `stream_finish` two. `capture`, `speakerJammed`
and `completing` record who a callback is for and that a close has failed.
`s_playing` and `s_abort` are `volatile` and are accessed one at a time.

**VoiceApp.** A recorded question is one value that stands for its WAV buffer
and its request id. `tokens` is the heap of `operation_token_t`; `pc` is the
control of the `ui_actions` and the recorder task, `task` of every upload or
audio-retry task. Where the code reads a token under `s_state_lock` and acts
after the unlock, the model has two steps. `screen` is the last `voice_ui_show_*`
call, and `RecordReachable`, `CancelReachable` and `RetryReachable` say which
controls that call leaves within reach, so that the user only presses what can be
pressed. Each screen clears the gesture as the code does.

**RecordGesture.** `active`, `requested` and `timer` are `s_record_gesture_active`,
`s_record_release_requested` and `s_record_release_timer`; `shown` is what the screens
leave of the two buttons. `VoiceApp` has the gesture as a flag; this module has what is
under it. LVGL is external: it tells a disabled button nothing, so a finger that is
lifted on the working screen leaves the gesture active until the idle screen, and the
next press only ends it.

**VoiceBridge.** A step runs from one `await` to the next. `post` and `task` are
the control points of each handler and each `_process`; the jobs table and the
files are separate, because only they survive `Crash`. A written file is
`partial` between truncation and the end of the write. A row keeps of its paths
whether they are set, and `old` tells that `updated_at` lies before the
retention cutoff. A request id stands for one device's file names. A shutdown cancels
every task once: one at work goes on to its `finally` (`"leave"`), and one that awaits
the unlink there leaves it to a worker thread, which may not have begun
(`UnlinkCancelled`); `abandoned` remembers whose recording was left.

**MlLink.** `wifi` is the driver with `s_network_index` and `s_failures`, `events`
the event loop, `queue` the bounded `s_events`, `link` the point the link task has
reached, and `ml` the handle, tasks, sockets and signals of MicroLink. Every
address opens a new association and a socket is the number of the association it
was made in, so that a stale one is seen as a smaller number. `microlink_rebind`
is three steps, between which the other tasks run. `microlink_stop` waits three
seconds for the tasks; that they have left by then is an assumption on times
(`Destroyed`), not a result. `forgone` remembers what the code drops and does not retry: an event from a full queue, a failed start, a failed
socket, a command from a full queue.

**MlCoord.** One step is one turn of the loop of `ml_coord_task`: a command if one
is queued, and the case of the state with its I/O. A connection is a number;
`conn` keeps whether the next read and write fall on a frame's boundary with the
nonce the other end has. A wait is a choice of whether what is awaited came in
time. The server answers in order and closes when a frame does not decrypt.

**MlStun.** An answer under way is current or not: a probe overwrites the
transaction id, and an accepted answer makes the id invalid, after which the code
lets any answer pass. A mapping is what a NAT shows to one server for one socket;
`Symmetric` says whether it shows each the same port.

**MlDerp.** `io` is the control point of `ml_derp_tx_task`, which alone touches TLS.
`connected`, `sockfd` and the bits are separate variables, because the I/O task,
`microlink_rebind` and the coordination task each change some of them.
`ml_derp_queue_send` is a loop of a producer whose steps interleave with the task
that drains the queue. A dead socket still takes writes. `stream` says what has
torn the stream in either direction. A frame that stays away for five seconds makes
`poll_derp_read` fail; the end of the stream makes it return 0, in the middle of a
frame too, which the task takes for a timeout (`PollEnds`): it stays connected, with
nothing more to read, until a write fails.

**MlPeers.** The server's list, the stream of responses, the queue, the slots and
the cache. `parse_map_response` turns a response into updates, each of which may
find the queue full; `wg_mgr_process_peer_updates` puts one into the slots, and
evicts. `unsure` remembers about which peers an update was lost, and `since` which
addresses were saved to the cache since an address last was.

**MlPaths.** One variable, `dev`, holds the slots, the peers of WireGuard and the
pending probes, since the task `wg_mgr` changes them together; `answers` are the
pongs a probe can still get. Slots are reused while probes that name them by index
are out. Time is the number of periodic calls a path is trusted for.

**WgReplay, WgSession.** The window is the set of distances whose bit is set; a
distance is cut to `Modulus`, as the 32-bit shift does. A session key is the pair of
the indices it was derived from. The network keeps every message for ever and
delivers any of them any number of times. `wireguardif_output` of the lwIP thread is
two steps, between the use of a counter and its increment, because it takes no
lock.

Left out everywhere: contents of audio and text, logging, layout, the volume,
authentication, encryption itself, and time other than through the choices it
enables.

## 3. Runs

| Run | Asks | Bounds |
|---|---|---|
| `audio` | do the two locks and the flags keep capture and playback apart, leave nothing raised without an owner, and let a cancelled playback be forgotten? | 2 streaming tasks, 2 contexts, closes may fail |
| `app` | are WAVs, tokens and ids consistent, and does the application use the audio modules as `AudioPath` says? | 2 tokens, 3 recordings, queue of 2, 4 touches of every button, 1 failed allocation or task creation, closes may fail |
| `app_cancel` | does CANCELAR do what `README.md` says? Violated | the same, CANCELAR only, no failures |
| `record_gesture` | does a recording end once, when the finger is lifted and not when the panel jitters? | grace of 3 ticks, any number of touches, screens and failed allocations |
| `bridge` | jobs, recordings, speech and answers across crashes; implementation of `JobContract`; does every accepted job end? | 1 id, 3 handlers, 3 ends of the process, storage errors and malformed replies or not |
| `wg_session` | do both ends agree on keys, nonces, duplicates and initiations? | 2 devices, 1 application, window 2, modulus 8, 4 units of uptime, 1 restart, 4 handshake messages, 1 packet besides keepalives |
| `ml_coord` | does the coordination stay in step with the server and its sockets, and always come back? | queue of 2, 2 faults, 2 rebinds, 2 unread frames, stream ids up to 11 |
| `ml_stun` | is the verdict on the NAT sound, and is the present endpoint told in the end? | queue of 2, 1 retry, 1 change of the network, 2 answers under way, IPv6, a cone NAT |
| `ml_derp` | is the relay's connection always known, whole and found again? | queue of 2, 1 producer, 3 attempts, 1 outage, 2 rebinds, 1 request |
| `ml_peers` | does the table follow the server and the cache the table? | 4 nodes, one with a second key, 2 slots, cache of 3, queue of 3, 4 changes, 2 lost streams or reboots |
| `ml_paths` | do the tables agree, and where do packets go? | 2 peers, 2 slots, 2 probes, 1 period of trust, 2 updates, 1 blocked path |
| `ml_link` | is the good network found, and does MicroLink follow it through a rebind? | bad primary, good fallback, 2 retries, modulus 4, queues of 2, 2 losses, 1 failed call |

Some properties are conjunctions, so that one run asks one question.
`CaptureKeepsItsOwn`: types, the microphone and the callback of a capture. `PlayerIsOwned`:
`s_playing`, `s_abort` and the open speaker each have a stream that will reset
them. `AppConsistent`: types, and operation globals that name live tokens.
`WavsAreKept`: no WAV shared, none lost, none under a foreign id. `FilesHaveOwners`:
recordings and speech. `RowsAreWorked`: types with the coherence of a row, and
active jobs with a task. `GestureHoldsTogether`: the gesture, its timer and its button.
`SocketStateOK`, `ListensInStep`, `SetUpInOrder`: sockets;
nonces, frames, streams and rebinds; challenge and peers. `VerdictIsSound`,
`ConnectionIsTold`, `TableIsWhole`, `PeersAgree`, `EndsAgree`, `LinkConsistent` each
hold the type invariant of their module and the relation their name says.

Why the bounds are enough. In `audio` a third stream adds one more refused claim;
the theorems remove the bound. In `app` two tokens are what can be live when one
operation has been superseded and the next one runs; three recordings are a
pending one, a superseded one and a new one; four touches reach record, release,
cancel, record in every order with the tasks of the first operation still
running. The real queue holds sixteen actions: a queue of two also reaches its limit.
In `bridge` three handlers give concurrent duplicates behind a third, and three ends
of the process a crash inside a recovery and one after it; ids share no row, file or
task, and the theorems hold for any number of them. In `record_gesture` a grace of three
ticks lets a release be asked for before, at and after its end. In `wg_session` four handshake messages are two handshakes that
cross, or one that is repeated after a restart, and with a window of two a packet
can be new, remembered or too old. In `ml_coord` two faults are one in the set-up
and one that meets the way back; two rebinds meet a full queue of commands. In
`ml_derp` the two rebinds meet each other and an attempt to connect. In `ml_peers`
two slots for four nodes make evictions, and three places in the queue make it
overflow. In `ml_paths` one slot can be taken over while its two probes are out.
In `ml_link` two losses meet the rebind of the first, a queue of two overflows
with them, and the modulus is the number of failures after which an `uint8_t`
would wrap.

Some properties hold only where something does not go wrong, and say so:
`WavsAreKept` about leaks and ids while no upload task had to be given up
(`failures = 0`), `RowsAreWorked`, `FilesHaveOwners` and `AnswerSurvives` while the
storage works (`trouble`), `FilesHaveOwners` about recordings while nothing has
crashed, but for one whose unlink a shutdown cancelled after the row had let the
path go (`abandoned`), and about speech before the first restart, `TornIsAbandoned` of
streams that have not ended, `OnlyReuseMisleads` while no slot of a probe was taken over,
`PlayerIsOwned` while the
speaker closes, `TableFollows` of peers no update of which was lost (`unsure`),
`LinkConsistent` while nothing was given up (`forgone`). Each of these runs also
has the behaviours where it does go wrong.

`CHECK_DEADLOCK FALSE`: `MaxTouches`, `MaxFailures`, `MaxRestarts`, `MaxChanges`,
`MaxBreaks` and `MaxUptime` end behaviours of `app`,
`app_cancel`, `bridge`, `ml_peers` and `wg_session` in which the program
would go on to wait, and the coordination task of `ml_coord` exits after a stop.
The other runs check deadlock. No run replaces a definition. The `VIEW` of the
`MCVoiceApp` runs leaves out what a dead token and an ended stream hold; symmetry
is used where only invariants and action properties are checked.

### Fairness

All of it is weak fairness of steps of the program, but for what is said of the
networks. FreeRTOS is preemptive, and no task waits while it holds a lock that
another one of these steps needs.

* `AudioPath`: every task inside `play_speech` moves on, since downloads have
  timeouts; a capture ends when its buffer is full. Nothing of the user.
* `RecordGesture`: time goes on, and LVGL calls a timer that is due. No finger has to move.
* `VoiceBridge`: the event loop and its threads run on, every upstream client has a
  timeout (`upstream_timeout_seconds`), `docker-compose.yml` restarts the container.
  No request has to arrive.
* `MlLink`: the event loop, the link task and MicroLink's tasks run. An attempt to
  connect ends, and a good network lets the device in when it tries again and
  again (strong fairness of `Obtains`). This is an assumption on the driver:
  `wifi_manager.c` has no timeout of its own for an association that gives no
  address, and does not look at the result of `esp_wifi_connect`.
* `MlCoord`: the task runs, its five-second waits end, TCP gives up a dead peer.
* `MlStun`: the tasks run, the rebind ends, the network delivers what it does not
  lose. `NetworkIsQuick` is where it stops losing; `EndpointIsTold` is about then.
* `MlDerp`: the I/O task runs, and a task inside a call goes on. That the relay is up
  is the condition of `Reconnects`.
* `MlPaths`: the periodic work is done (only for `ReturnsToRelay`, below).
* `WgSession` and `MlPeers` state safety only.

### Findings

The run `app_cancel` is expected to fail, and does. `README.md:138` says that CANCELAR
"aborts the active operation, releases its resources, ignores late callbacks, and
returns to a recording-ready idle screen". `CancelKeepsItsWord` states this and is
violated: a cancel while `recording_complete` wraps the WAV shows the idle screen
and the upload starts all the same (`app_main.c:310`).

The modules hold more statements of docs and comments that the code does not keep.
They have no run of their own. To see a trace, put the definition in place of the
properties of the cfg that is named:

| Definition | cfg | What the code does instead |
|---|---|---|
| `CancelIsEffective` | `MCVoiceApp` | after a playback the `Reproduciendo` screen stays, and CANCELAR does nothing (`app_main.c:195`) |
| `ReleaseEndsRecording` | `MCVoiceApp`, `QueueDepth = 16` | a late idle screen swallows the release of the next recording (`voice_ui.c:416`); with a queue of 2 the shortest trace is that of a full queue, which drops the release (`app_main.c:487`) |
| `LateTasksKeepQuiet` | `MCVoiceApp` | a cancelled download that returns late stops the next playback (`voice_client.c:542`) |
| `RepliesEndJobs` | `MCVoiceBridge` | a Hermes reply with null content leaves its job active until the next restart (`clients.py:103`) |
| `DuplicatesAreHarmless` | `MCVoiceBridge` | POSTs of one id in flight together destroy each other's recording (`main.py:143`) |
| `RecordingsAreDeleted` | `MCVoiceBridge` | a crash between the row's update and the unlink leaves a recording for ever (`service.py:134`), and so does a shutdown that cancels the unlink before its thread begins (`service.py:84`, `138`) |
| `AlreadyHasPeers` | `MCMlCoord` | when the response to the registration is late, the long poll is entered without peers, and asks the server to omit them (`ml_coord.c:1840`) |
| `ChallengeOfThisHandshake` | `MCMlCoord` | without EarlyNoise in time, the challenge of an earlier connection is answered (`ml_coord.c:42`) |
| `VerdictComparesServers` | `MCMlStun` | a late second answer of one server is taken for the other's (`ml_coord.c:2360`) |
| `ClosesFirst` | `MCMlDerp` | an attempt to connect overwrites a socket that is open (`ml_derp.c:734`) |
| `ZeroMeansNoData` | `MCMlDerp` | the end of the relay's stream reads as 0, "No data available / timeout", and the device counts as connected until a write fails (`ml_derp.c:407`, `618`) |
| `ReturnsToRelay` | `MCMlPaths`, `PathsFairSpec`, no symmetry | a blocked direct address comes back as the endpoint and stays (`ml_wg_mgr.c:1427`) |
| `TasksShareNothing` | `MCWgSession` | lwIP and `wg_mgr` change one keypair, and a nonce is used twice (`microlink_internal.h:6`) |
| `RestartIsHeard` | `MCWgSession` | a timestamp is the uptime: after a restart a peer refuses initiations for as long as the device had run before (`wireguard-platform-esp32.c:23`) |
| `DeliveredOnce` | `MCWgSession` | the packet that confirms a keypair is accepted once more (`wireguardif.c:490`) |

Seen in the models without a definition of its own: the playing screen hides both
record controls (`voice_ui.c:471`), so the barge-in of `README.md` can only come from a
press that was queued before; and a rebind that cannot make its socket reports
success, so that nothing makes one until the next rebind (`microlink.c:428`,
`"socket"` in `forgone`).

## 4. Proofs

All theorems are about the specification of their module, for every value of the constants that the named
assumptions of the modules allow: sets of any size, any bound on faults, any depth
of a queue.

**`AudioPath_proofs`.** `CapturesKeepTheirOwn` (`CaptureKeepsItsOwn`),
`CaptureAndPlaybackExclude` (`CaptureExcludesPlayback`) and `PlayerFlagsHaveOwners`
(`Spec => []PlayerIsOwned`). The inductive invariant is `IInv == TypeOK /\ CaptureInv /\
PlayerInv`. The properties alone are not inductive: that a capture keeps its
microphone depends on a stream in `paused` or `open` excluding a recorder task, which
in turn holds because a start looks at `s_playing` and a claim sets it before the
recorder is asked to pause. `CaptureInv` states that order, `PlayerInv` who owes which
flag a reset. Assumptions: `CloseCanFailAssumption`, `NoContextAssumption`.

**`VoiceApp_proofs`.** `OperationsHangTogether` (`AppConsistent`), `RecordingsAreKept`
(`WavsAreKept`), `AppUsesAudioPath` (`UsesAudioPath`) and `AppInheritsAudio`: by the
refinement, the theorems about `AudioPath` hold of the application. The invariant is
`AppInv == TypeOK /\ OwnerInv /\ RecorderInv`. Tokens are heap blocks without a
reference count that several threads hold, so no property about them is inductive
without saying who may free one: `HolderInv` (in `OwnerInv`) gives each live token one
of the thread that starts or undoes its operation, the recorder task that reports
it, or its own task. A WAV travels in a token, hence `BufferInv`; ids and leaks hold until
something failed, hence `FailureInv`. `RecorderInv` ties the place of the recorder task to
the flags of the audio modules: no capture starts before the last one has reported. Assumption: `ConstantsAssumption`.

**`VoiceBridge_proofs`.** `RowsAreAlwaysWorked` (`RowsAreWorked`),
`AnnouncedSpeechExists` (`ReadySpeechExists`), `FilesAreOwned` (`FilesHaveOwners`),
`AnswersSurvive` (`AnswerSurvives`) and `ImplementsContract` (`KeepsContract`, the
refinement of `JobContract` with the status column as the mapping). The invariant is
`IInv == TypeOK /\ StageInv /\ ActiveInv /\ SpeechInv`. `update_job` overwrites any
status, so a final status is final only because a task at a given `await` has a row
in the one status that goes with it (`StageInv`), and a restart finds no tasks;
speech is there when it is announced because a task about to store has renamed its
file already, and files to unlink belong to rows that have expired (`SpeechInv`). For
the files `RecoveryInv` is added: a task that is cancelled before it begins never
unlinks its recording, and the next start does only because the row of every working
task still has the path. A task whose unlink is cancelled is the exception of the
property: by then the row has let the path go. Assumption: `ConstantsAssumption`.

**`MlDerp_proofs`.** `TypeCorrect`, `NoHalfOpenConnection` (`ConnectionIsTold`),
`TornStreamsAreAbandoned` (`TornIsAbandoned`) and `HandshakesStayFirst`
(`HandshakesFirst`). The invariant is `SocketInv == TypeOK /\ StageInv /\ SignsInv`: the
flag, the socket and the event bit part whenever a rebind or an attempt is under way,
and agree again because whoever parts them leaves `RECONNECT` behind and because an
attempt knows from which stage on it has a socket. The order of the queue is an
invariant on top, from lemmas about what queueing, dropping and taking do to
sequences. Assumption: `DerpAssumption`.

**`Device_proofs`, the link.** `LinkIsConsistent` (`LinkConsistent`). `RebindIsOwed` looks
only at devices that have Wi-Fi, so it is no help for the step that obtains an address.
The invariant adds that the last of the events not yet handled is what the driver did
last (`OrderInv`), that what MicroLink has of an earlier association is marked as such
until it is replaced (`StaleInv`), what can be in the event loop in each state of the
driver (`DriverInv`), and the steps of the start (`FirstInv`, `StartInv`, `CommandInv`).
Assumption: `LinkAssumption`.

**`Device_proofs`, the gesture.** `GesturesHoldTogether` (`GestureHoldsTogether`) and
`NoJitterEnds` (`JitterEndsNothing`), for any grace. `GestureInv` adds what the properties
do not say: a gesture knows which button it began on (`KnowsItsButton`), a release that
is owed has no finger on a button that listens (`OwedIsLifted`), and the timer is never
due before the grace is over, counted from the press (`GraceIsKept`). Without the last
one a step that fires the timer could end a gesture that the panel only let go of for
a moment. Assumption: `GraceAssumption`.

**`MlControl_proofs`, the connection.** `SocketIsKept` (`SocketStateOK`), `ListensAsTold`
(`ListensInStep`) and `SetUpIsOrdered` (`SetUpInOrder`). The invariant is `IInv ==
TypeInv /\ CommandInv /\ SocketInv /\ StateInv`. What a listening task relies on was
arranged some states before it listens, hence `StateInv`: what each state knows of
the streams asked for, of the challenge and of answers still to come. `CommandInv`
keeps `CONNECT` the first command until it is handled, so that no later one finds the
task idle, and `SocketInv` says that a socket older than the last rebind has a
command in the queue that ends it. Lemmas say what sending, acknowledging and each
kind of reading do to a connection. Assumption: `CoordAssumption`.

**`MlControl_proofs`, the peers.** `PeersAreFound` (`TableIsWhole`), `PeersFollowServer`
(`TableFollows`) and `PeersCachedAreRecent` (`CacheIsRecent`). `TableFollows` speaks of an
empty queue and is silent in between, so `PeersInv` says what the queue will do:
the last update of a peer in it agrees with the server, and the table does for a
peer of which there is none (`QueueTells`). That every peer is found by a search that
ends at `peer_count` is kept by compaction and by eviction, about which there
are lemmas of their own (`PlacedOK`, `CompactedOK`). The cache is known by `CacheInv`: its
counters are in the order of the saves, and an address that was saved and is not there
has left when all places were taken by later ones. `PeersCachedAreRecent` assumes
`~ClockWraps`, which is fewer saves than the 16-bit counter has values; with more, an
entry written after the wrap looks like the oldest and is the one replaced.
Assumption: `PeersAssumption`.

**`MlUdp_proofs`, the NAT.** `VerdictsAreSound` (`VerdictIsSound`). The verdict compares the
last result with the one before it, whoever gave them, so it is not inductive that a
cone NAT is never called symmetric. It rests on the answers: while there was no other
network, every IPv4 answer under way or in the queue shows the one port the NAT has
(`Genuine`), and the public endpoint is that port once a server has given one
(`Sound`). Assumption: `StunAssumption`.

**`MlUdp_proofs`, the paths.** `PathsTablesAgree` (`PeersAgree`), `PathsMisledByReuse`
(`OnlyReuseMisleads`) and `PathsRetryForASession` (`NoEndlessRetries`). The invariant is
`PathsInv`, in which `Agrees` gives every peer of WireGuard a slot, and one key to one
slot and to one peer. The two action properties are about calls that go through all
slots: lemmas say of each helper that it is mild, which is to say that it changes no
key, takes an endpoint away at most and makes only a peer with a session active, and
that two mild calls in a row are one. `disco_periodic_probes` visits the slots in order, as a recursive
function of the slot; that the whole visit is mild is shown by the least slot at
which it would not be, since the induction rule of the library cannot be applied.
Assumption: `PathsAssumption`.

**`WgSession_proofs`.** `FreshMeansNew` and `WindowRemembers` are about the operators of
`WgReplay` alone: with `Remembers(w, accepted)` as the relation between the bitmap and
the set of counters accepted so far, the window accepts no counter twice, drops none
that is new and not too old, and keeps the relation, for any window and word width
(`WindowAssumption`). Nothing is claimed once a counter has reached `Modulus` (2^32),
where the code cuts the distance.

`SessionEndsAgree` (`EndsAgree`), `SessionNonces` (`NoNonceReuse`), `SessionHearsNewer`
(`NewerInitiationIsHeard`) and `SessionDelivers` (`OnlyConfirmersRepeat`) are about two
devices, for any number of packets, restarts and messages, each delivered any number of
times in any order. No property is inductive, since each compares messages that were
sent long ago; the invariant therefore says what the messages on record prove. `SessionInv`:
every index was drawn once, a response answers an initiation of the device it goes
to, every keypair is rooted in one response, nobody uses a key before its initiator,
and no two slots hold a session. `NonceInv`, with `Spent` in `SessionInv`: a counter on
record is below that of the keypair, but for the packets of the race between
`wireguardif_output` and `wg_mgr`. `PacketInv` and `CounterInv`: a packet is on record once,
and no counter exceeds one for each packet of an application and one for each unit of
time in which a keepalive can leave (`Most == MaxUptime + MaxPackets`).
`InitiationInv`: the timestamps of one run of a device grow with the index.
`DeliveryInv`: what a packet was delivered under refuses it, unless the packet confirmed a
keypair, whose window the code leaves empty. `SessionDelivers` uses the window, and
so assumes `Most < Modulus`: no counter gets to 2^32, as none does in the 180 s after
which a session is refused. The cfg has 5 < 8. Assumptions: `SessionAssumption`, `WindowAssumption`.

A module of proofs stands for one component, or for two that are neighbours in the
program and share no variable; the names of the one are then those of the source, and
those of the other have its prefix (`PathsInit`, `PeersNext`, `GestureSpec`).

Only model-checked: liveness (`AbortIsTransient`, `JobsEnd`, `AlwaysReconnects`,
`StopsCleanly`, `EndpointIsTold`, `Reconnects`, `Connects`, `FollowsWifi`, `LiftEndsGesture`),
which is out of the prover's reach. Every invariant and action property of a run that
passes is a theorem. `CancelKeepsItsWord`, which is violated, is not.

## 5. Not modelled

* The arithmetic of the cryptography and its assembly (`crypto.c`, `nacl_box.c`,
  `x25519.c`): numbers of 255 bits are out of reach of both tools. The generated
  font, the build and the deployment have no behaviour.
* `ml_udp.c`, `ml_tcp.c`, `ml_zerocopy.c`, `ml_at_socket.c`: the application uses plain lwIP
  sockets and calls none of them, and the options that need them are off here.
* `wav.c` and `config.py`: pure functions, read once.
* Of what is modelled in part: the endpoints that travel in `PeersChangedPatch`; the
  answer to the pings of others (`process_disco_ping`), which changes nothing; cookies,
  which are sent only under load; allowed addresses; the label that shows the state
  of the tunnel; the cutting of a downloaded WAV into header and even chunks
  (`voice_client.c:96`); the buttons other than the two that record, whose events are one
  call each; the volume.

## 6. What is left

1. The header and even chunks of a streamed WAV (`voice_client.c:96`) against the bytes
   sent, as a function of how the stream is cut.
2. `RecordGesture` as an implementation of the gesture flag of `VoiceApp`.
3. A composition of `MlLink`, `MlCoord` and `MlDerp`, which now each have the others as
   their environment.
