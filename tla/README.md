# Homeboard, specified in TLA+

Homeboard is a set of small C daemons for a picture frame: one serves photos,
one shows them, one owns the display, one decides whether somebody is in the
room, one talks MQTT. Each is a process of its own; they meet on the system
D-Bus. This directory holds TLA+ models of them, the TLC configurations that
check the models on small instances, and proofs, checked by TLAPS, of what holds
for every value of the constants.

All paths below are relative to `src/` unless they end in `.tla` or `.cfg`.

Run a check or a proof from this directory:

    tlc -workers 2 -config PhotoProvider.cfg MCPhotoProvider
    tlapm PhotoProviderProofs.tla

## 1. The system

```
 occupancy-sensor -----Report----> presence-service --Display.On/Off--> display-mgr
                                          |                                  ^ fd lease
                                          +--PresenceChanged--> ambience ----+
 wwwslide / immich <--HTTP-- photo-provider <--GetPhoto...---------+
                                                 dbus-mqtt-bridge --- MQTT broker
```

| component | code | state it keeps | operations | status |
|---|---|---|---|---|
| photo cache and its D-Bus service | `photo-provider/cache.c`, `dbus.c`, `main.c` | ring of memfds (head, cursor, tail), generation, shutdown; one mutex, one condition variable, two threads | worker loop; GetPhoto, GetPrevPhoto, SetTargetSize, SetEmbedQr, SetAlbumFilter; shutdown | partly (`PhotoRing`, `PhotoProvider`, `PhotoAlbum`, `AlbumFilter`): dump_to_disk is left out |
| wwwslide backend | `photo-provider/wwwslide_backend.c` | wanted size and QR flag, needs_register, client id, last activity (atomics) | fetch_next, reregister, two setters | modelled (`WwwslideBackend`) |
| immich backend | `photo-provider/immich_backend.c` | filter, picker | fetch_next, set_album_filter | partly (`AlbumFilter`): album refresh and metadata are left out |
| photo-provider configuration | `photo-provider/config.c` | the file | load, save | partly (`AlbumFilter`): the album filter, in a file that can be cut short |
| presence policy | `presence-service/presence.c` | stable and pending value, counters, latch, last announcement | report, ForceOn, ForceOff, sensor up and down | modelled (`Presence`) |
| presence glue, Display client | `presence-service/main.c`, `dbus.c`, `display_client.c` | none of its own; order of effects | dispatch, startup, shutdown | modelled (`PresenceDisplay`) |
| display-mgr, power | `display-mgr/main.c`, `dbus.c`, `drm.c` | `g_display_on`, the power state to restore | On, Off, startup, shutdown | modelled (`DisplayPower`) |
| display-mgr, framebuffer lease; client library | `display-mgr/dbus.c`, `lib/drm_mgr/drm_mgr.c` | `g_lease_track`, the handles' connections and mappings | AcquireLease, ReleaseLease, loss of the holder | modelled (`DisplayLease`) |
| name watching | `lib/dbus_helpers/dbus_helpers.c` | none | NameOwnerChanged to up and down; is a name owned | modelled where it is used (`Presence`, `PresenceDisplay`, `DisplayLease`, `Slideshow`) |
| ambience slideshow | `ambience/render.c`, `main.c`, `photo_client.c`, `dbus_listeners.c` | active, dirty, semaphore, framebuffer, frame being built; two threads | presence and service events, Next, Prev, SetRenderConfig, render loop, startup | partly (`Render`, `Slideshow`): sizes, the SVG layer and the transition time are abstracted |
| ambience overlay and e-ink | `ambience/overlay.c`, `eink_meta.c` | two layers with expiry; last text shown | announce, SVG, expiry | partly (`Render`): the announce layer, its expiry, which text goes to the e-ink strip |
| MQTT device claim | `dbus-mqtt-bridge/mqtt_claim.c`, `mqtt.c` | session, place in the claim, render configuration published | connect, inspect, claim, republish, resign | modelled (`MqttClaim`), the broker external |
| MQTT bridge | `dbus-mqtt-bridge/device_state.c`, `main.c`, `dbus_client.c`, `mqtt.c` | the device record, the one published last, connection | main loop, signals, commands, reconnection, wifi poll | partly (`Bridge`): wifi_rssi, slideshow.active and photo descriptions are left out |
| occupancy sensor | `occupancy-sensor-ld2410s/` | response slot, command queue, what the reader waits for, vacancy count, night calibrated; three threads | session_cmd, reader, poller, parameters at startup, calibration | partly (`SensorSession`): frames are whole, distance and calibration progress are left out; external to `Presence` |
| JPEG and image placement | `lib/jpeg_render` | none | rotation and alignment of indices | at most its arithmetic |
| e-ink driver, cairo, GPIO, network helpers, the other configuration files, command-line tools, doctor, scripts | `lib/eink`, `lib/rpigpio`, `lib/misc`, `*/config.c`, `show-img` ... | none that outlives a call | I/O, parsing, drawing | not modelled |

### What is hard, and what makes each part correct

*photo-provider.* Two threads share the ring under one mutex and three atomics
without it. A fetch takes seconds and runs with no lock; meanwhile the cursor
moves both ways, the configuration changes and the process may be told to stop.
Correct means: nobody is served a photo rendered for a configuration that was
replaced; no thread sleeps when it has work; the photo at the cursor and those
not delivered yet are never evicted; each memfd is closed exactly once; the
worker gets back to a full prefetch after any failure of the server; SIGTERM
ends the process. The album filter is in four places, the backend, its picker,
the configuration in memory and the file, which change one after the other while
a fetch is under way: once SetAlbumFilter replied no photo picked under another
filter is served, and the filter is still there after a restart.

*presence-service.* One thread, but a long memory: overrides write the same
pending run that sensor reports build up, thresholds change with the hour, the
sensor restarts in the middle. Correct means: only the sensor's own consecutive
reports, or an override, change the announcement; a ForceOff holds until
something that may clear it does; a steady room is announced at last; the panel
and the subscribers agree with the policy between dispatches.

*display-mgr.* It dies and comes back, and with it the panel's power and every
client's mapping of the framebuffer. Correct means: the panel follows what was
last asked of it; one client at a time writes to the framebuffer; a lease ends
with its holder, however it ended, and a client that
follows display-mgr ends up with the framebuffer of the one that runs.

*occupancy sensor.* A command is three frames on a serial line that loses and
garbles them, each waited for by one thread against one clock and by another
against another, while reports come in between. Correct means: success is only
reported for what the sensor did; it is not left in configuration mode, where
it may stop reporting; and no lost answer or death silences the service.

*ambience.* The D-Bus thread pauses, resumes, swaps the framebuffer and asks for
next and previous photos while the render thread is waiting, fetching, decoding
or writing to the framebuffer. Correct means: paused and idle, the screen shows
the fallback; no request is lost; a frame is never written to memory that was
unmapped; the photo service knows the size before the first fetch;
the slideshow runs when presence-service, as it is now, says somebody is there.

*dbus-mqtt-bridge.* Bridges that share a topic prefix, by mistake or because a
frame was replaced, meet in one retained record at the broker. What they send is
unacknowledged, connections break at either end first, and the broker speaks for
the dead by the will they left. Correct means: a bridge is refused while another
has the prefix; the record says online exactly for the device that is; the state
published last is the state the services had last.

## 2. Modules

| module | models | EXTENDS / INSTANCE |
|---|---|---|
| `PhotoRing` | the ring buffer as operators on a record | |
| `WwwslideBackend` | the setters' atomics, registration, fetch stages, the server's memory of us | |
| `PhotoProvider` | worker and D-Bus thread over the two | PhotoRing, WwwslideBackend; INSTANCE PhotoAlbum |
| `PhotoAlbum` | what callers are promised: a bounded album with a bookmark | |
| `PhotoProviderProofs` | proofs about PhotoProvider | PhotoProvider |
| `Presence` | the policy, one action per handler | |
| `DisplayPower` | display-mgr's power switch | |
| `PresenceDisplay` | presence-service calling display-mgr, both mortal | Presence, DisplayPower |
| `Slideshow` | ambience's startup and the services that turn its slideshow on and off | PresenceDisplay |
| `PresenceProofs` | proofs about Presence, PresenceDisplay and Slideshow | Slideshow |
| `Render` | ambience's D-Bus thread and render thread | |
| `RenderProofs` | proofs about Render | Render |
| `MqttClaim` | bridges, broker and network around one prefix | |
| `MqttClaimProofs` | proofs about MqttClaim | MqttClaim |
| `Bridge` | the bridge after its claim: bus, commands, device record | |
| `BridgeProofs` | proofs about Bridge | Bridge |
| `DisplayLease` | display-mgr's lease, the client library, ambience and tools as its clients | |
| `DisplayLeaseProofs` | proofs about DisplayLease | DisplayLease |
| `SensorSession` | the occupancy sensor's service, its line and the sensor | |
| `SensorSessionProofs` | proofs about SensorSession | SensorSession |
| `AlbumFilter` | SetAlbumFilter through backend, cache and configuration file | |
| `AlbumFilterProofs` | proofs about AlbumFilter | AlbumFilter |
| `MCPhotoProvider`, `MCPresence`, `MCPresenceDisplay`, `MCMqttClaim`, `MCSensorSession` | constants for TLC | |

### From code to actions

`PhotoProvider`. A step is a critical section of `pp_cache.mu`, one atomic
operation of a setter or of `reregister`, or the end of a blocking call.
`worker` says where `worker_main` is: `start`, `wait` (asleep), `woken`,
`fetch` (in the backend, whose own progress is `call`), `fetched` (back, waiting
for the mutex), `backoff`, `done`. `dbus` says where the D-Bus thread is; it
serves one call at a time. Every critical section of the worker ends where the
code next drops the mutex, so the tail of one iteration and the head of the next
are one action (`LoopTop`). A condition variable is modelled by who sleeps: a
broadcast turns `wait` into `woken`; `SpuriousWakeup` is there too. The broadcast
of `StoreFetched` wakes a caller, the ones of `Deliver`, `Invalidate` and
`Shutdown` wake the worker; `GetPrevPhoto` has no broadcast, as in the code.
`dup` may fail in `Deliver` and `GetPrevPhoto`: the cursor has moved by then.
Callers are answered Unavailable then as when there is no photo; `NoCopy` and
`NoPhoto` tell the two apart, since in the second case nothing may have moved.
A photo is a descriptor and the configuration it was rendered for; `fds` is the
set of descriptors open. The client id is represented by the configuration that
was pushed for it; `known` says which of our ids the server still knows.

`Presence`. Each handler runs to its end and ends in `evaluate`, so each is one
action. `Report` splits on `Stabilize`, `Commit` and `KeepStable`, the three ways
through `presence_on_report`. `raw` and `run` are history variables: what the
sensor itself last said and how often in a row. `ClockMoves` sets the minute to
any other, since NTP and DST do.

`PresenceDisplay`. `on_presence_change` makes a Display call and emits a signal,
in the order that depends on the direction; both block the thread but not
display-mgr, so each is a step of its own (`SwitchDisplay`, `EmitChanged`), and
either process may die between two of them. `missed` records that the last
Display call visibly failed or that display-mgr came back since.

`DisplayPower`. All outputs are switched in one loop and count as one.
`drmModeSetCrtc` may fail, which the code logs; `g_display_on` changes all the
same. At the end of the process the outputs are wherever the kernel leaves them,
because `drm_free` removes the framebuffer that `main` may just have lit again.


`Render`. `rt` says where `render_thread_main` is, `bus` where the D-Bus thread
is. A step is one load or store of an atomic, one critical section, or the end
of a blocking call; the handlers of `main.c` and the setters of `render.c` are
sequences of such steps that end in a post. The render thread's critical section
under `drm_mutex` is the one with steps of its own: it is held exactly in
`write`, so the D-Bus thread's `SetsFb` and `PaintsFallback` wait while
`rt = "write"`. `fb`, `mapped` and `ctx_fb` are the three things the code keeps
of a framebuffer: the copy in the render context, whether the memory behind it
is still mapped, and `main`'s own handle with the lease. `on_drm_mgr_updown`
unmaps through the handle before the render context hears of it, so a frame may
be written to memory that is gone (`WritesUnmapped`): the process dies, or
writes into whatever was mapped there since. `layer` is the announce layer,
`photo_error` what `main` remembers to have put on it. `last_text` and `panel`
are set in two steps, by either thread, without a lock, as in `eink_meta.c`.
Decoding is part of fetching, an
interrupted `sem_timedwait` does not occur, and SetRenderConfig counts as the
Next it ends with.

`MqttClaim`. The one model with an external half: the broker and the network are
modelled from what `mqtt.c` and `mqtt_claim.c` expect of libmosquitto. Each
`mosquitto_connect` is a session, since client ids are the broker's
(`mqtt.c:135`). `inbox` is what the broker has yet to read of it, in order;
`Breaks` cuts off any end of that, and from then on `NoticesLoss` (the bridge)
and `MissesSession` (the broker, which publishes the will) come in any order.
A bridge is `connecting` until its CONNACK, `waiting` in the claim's window,
then `up`, `lost`, `reconnecting`. `Resigns` is `cleanup_failed_init` and
`Stops` is `rc_mqtt_free`: both disconnect in order, which discards the will.
QoS 0 is `Sends`: into the queue, or nowhere. A malformed record counts as free,
as in `inspect_retained`. No fault is excluded: a connection may break, and a
bridge die, while it claims, and a bridge may be back before the broker has missed
its last session. Four history variables let the properties say what comes of
that: `served` are the sessions whose bridge had claimed the prefix, `torn` those
that broke without it, `silenced` says whose offline records the broker read after
a session's last, and `contended` that two bridges had the prefix at once.

`Bridge`. `pc` follows `main`'s loop: `poll`, `drain` (sd_bus_process until it
finds nothing), `mqtt` (at most one packet read), `call` and `next` (inside a
command, blocked in one D-Bus call and then in `Next`), `misc`, `wifi`. sd-bus
reads its socket one message at a time; while `sd_bus_call` waits it puts what
is not its reply into a queue of its own (`rqueue`), which poll does not see.
Publishing succeeds unless the socket is gone (`link = "down"`); while the
connection is broken and nobody noticed (`"cut"`) it succeeds and is lost, which
`lost` remembers. `Reconnects` is the connection and its subscription together.
`FilterAccepted`, `FilterRejected` and `FilterTimesOut` are what becomes of
`SetAlbumFilter` in photo-provider; `answered` remembers the filter it accepted
last, and whether a call timed out since. `measured` is the sensor's last report, `sent` and `done` count commands. A command a bridge
cannot parse or does not know is `IgnoresCommand`; every other one but
`set_album_filter` is one call without a trace here.

`Slideshow`. `boot` follows `dbus_listeners_init` one bus call at a time: each
`sd_bus_add_match` and each `GetNameOwner` is a step of its own, with the other
services stepping in between, and what is delivered from a subscription on waits
in `pending` until `main` runs the listeners. `active` is what
`render_slideshow_set_active` was last given, `source` for whom. `PresenceSpeaks`
and `Unheard` are all the steps of `PresenceDisplay`, with what ambience hears
of them. `blind` remembers that presence-service ended between the subscription
to its signal and the one to its name.

`DisplayLease`. `inbox` is what display-mgr has yet to handle: calls, and word
from the bus that a name it watches is gone. A handle (`struct DRM_Mgr`) is a
connection, which the bus names anew each time; `place` says where its client is,
`GetsNothing` and `Released` also stand for calls that time out, and `again` is
`on_drm_mgr_updown` renewing the handle. `mapped` is the framebuffer mapped,
numbered by the start of display-mgr that made it: an old one stays mapped until
its client lets go of it. `refused` is history.

`SensorSession`. `step` says which of a session's three frames `session_cmd` is
at and `waiting` whether it is in its wait; `slot` is the single response slot
that the reader overwrites, `awaited` what the reader waits for. The two wait by
two clocks, so they give up apart (`TimesOut`, `GivesUpAwaiting`). `tx` and `rx`
are the frames on the line. `main` is where the main thread is: `read` and
`write` (apply_sensor_params), `loop`, and the two joins of `ld2410s_free`. What
the byte scanner may make of a damaged line is a fault of `LosesAnswer`: no
frame, one of another kind, or a footer without a header. `executed`, `unset`
and `calls` are history.

`AlbumFilter`. `call` follows `method_set_album_filter` through the flush and the
save; the file is truncated when it is opened, so a death in `write` leaves it
`Torn`, and a start that finds it so fails. A filter of `Rejected` is one the picker
does not take: a call with it is refused, and a start that finds it in the file
goes on without a filter. `worker` is the cache worker,
`hand` the filter its photo was picked under, and `cached` the filters of the
photos in the cache. `unsaved` remembers a write that failed or was cut short.

## 3. What is checked

Every run is `tlc -config X.cfg M`, with M the module given. The type invariant
of a module is checked as the first conjunct of its main invariant: `Inv`,
`SystemInv`, `RecordRight`, `CommandsOnce`, `LeaseInv`, `SessionInv` and
`FilterInv`. That of `Render` is proved and not run.

| run | module, configuration | asks | result |
|---|---|---|---|
| photo_provider | MCPhotoProvider, PhotoProvider.cfg | is what is cached and served always of the configuration wanted; is each memfd owned once; can both threads sleep; is a photo lost; do callers see an album with a bookmark | holds |
| photo_provider_live | MCPhotoProvider, PhotoProviderLive.cfg | does the prefetch refill after the last request, and does SIGTERM end the process | holds |
| presence | MCPresence, Presence.cfg | is every announcement justified by reports, overrides and the latch; is a steady room announced at last | holds |
| presence_display | MCPresenceDisplay, PresenceDisplay.cfg | do panel, subscribers and policy agree between dispatches, and ambience's slideshow once it has handled what was sent, while any of the services dies and returns and ambience boots | holds |
| render | Render, Render.cfg | does a pause end with the fallback up; is a post lost; do errors leave the screen; are presses and announcements served without the timer; does SIGTERM end the process | holds |
| render_unmapped | Render, RenderUnmapped.cfg | is the framebuffer mapped while a frame is written, as `ambience/main.c:153-154` says | no |
| mqtt_claim | MCMqttClaim, MqttClaim.cfg | when messages have settled, is a connected bridge online with its latest configuration and a gone one not; what does one that never had the prefix leave; is a claim next to a connected bridge refused | holds |
| bridge | Bridge, Bridge.cfg | does the record follow the sensor and the filter in force, reach the broker when MQTT is back, are commands carried out once, are signals that came during a call handled | holds |
| sensor_session | MCSensorSession, SensorSession.cfg | is a command that returns success carried out; are the wanted parameters set; is configuration mode left; is a steady room reported; does SIGTERM end the process | holds |
| sensor_stale_ack | MCSensorSession, SensorStaleAck.cfg | is an answer to another command discarded, as `session.c:23-24` and `63-64` say | no |
| display_lease | DisplayLease, DisplayLease.cfg | is the framebuffer mapped by one process at a time, the one with the lease; does a lease end with its holder; does ambience follow display-mgr | holds |
| album_filter | AlbumFilter, AlbumFilter.cfg | is a photo of an excluded album served after SetAlbumFilter replied; is the filter there after a restart | holds |

### Bounds, and why they are enough

*photo_provider.* `HistoryDepth = 0`, `CacheDepth = 0` give the smallest ring the
code builds, two slots: the first fetch and two pops already fill it, and the
next `StoreFetched` evicts, all within three calls. Two widths and heights and
the QR flag are what it takes for a fetch to be torn between three stores of two
setters. Four descriptors are two in the ring, one in hand and one to find
leaking; they are interchangeable, so they are declared symmetric, and the
liveness run, where symmetry would be unsound, has none of it. `MaxCalls`
bounds D-Bus calls and server restarts together.
*photo_provider_live.* One size, `CacheDepth = 1` so that the prefetch is two
photos and refilling takes two rounds, and two calls or restarts.
*presence.* Thresholds 2 and 3 by day, 4 and 0 at night (0 stands for 1), a
delay of 3, and counters that stop at 4, where every comparison is decided; a
day of three minutes with a window over midnight, so that each kind of jump of
the clock exists.
*presence_display.* Small thresholds, and two restarts in total, of any of the
services: enough for one process to come back and another to die during what
follows, with ambience booting at any point. `MaxPending` is how far the services
may run ahead of ambience: a change, an end and a start.
*render.* Three calls or signals: a pause, a resume and a press is the longest
story the properties tell (plus startup and shutdown, which are not counted).
One announcement and one error, since texts are only compared for equality.
With `HasFallback = FALSE` the invariants are proved, not run.
*mqtt_claim.* Two bridges, since a claim is judged against one other record, and
three sessions: one that claims or is cut off in its claim, one to reconnect before
or after the broker missed the first, and one for the rival. One render
configuration beside the initial one tells a stale record from a fresh one. These
are five million states, and the largest run; the theorems have no bound.

*bridge.* Two distances a step apart, none, and one no `int32_t` holds (TLC's own
numbers are that wide, so `INT32_MAX` stands for a smaller limit); two filters, one in force and one
to set. One command, one loss of the connection, and one message in each of the
D-Bus socket and sd-bus's queue: two signals wait when a call returns, which is
what it takes to handle them in the wrong order. The backend is immich; section 5
has what is found with wwwslide.
*sensor_session.* One parameter, wanted at the second of two values, so that it
may have to be set; one fault of the line or refusal, one night with a
calibration, one death or SIGTERM, each at any point. A report is received and
unread at most, since the reader runs for each byte; the queue has its eight
places. Of the faults, `late` is left to `sensor_stale_ack`, and `end_lost` to
section 5.
*display_lease.* ambience and one tool, three starts of either, two starts of
display-mgr: a holder dies, its successor asks, and the service returns.
*album_filter.* Three filters, to go away from one and to another, and back, and one
the picker rejects; three calls and two ends of the process.

### Fairness

*PhotoProvider.* Each thread is scheduled (weak fairness). `curl` has timeouts,
so a call always ends; the server answers again and again when asked again and
again, which is strong fairness of success, and without which nothing can be
prefetched. Callers, restarts and SIGTERM need not happen.
*Presence.* A sensor on the bus reports once a second. Nothing else is fair.
*Render.* Each thread is scheduled and each call to photo-provider or
display-mgr ends by its timeout: weak fairness of `RtStep`, and strong fairness
of `BusStep`, because the mutex it may want is free in the seconds between two
frames. Nothing is assumed of the transition timer, so "served" means served
without it.
*Bridge.* The process is scheduled and its calls end; it drains its socket faster
than once-a-second reports fill it, and wifi falls due every ten seconds
whatever else happens (strong fairness of `Drained` and `PollsWifi`); the sensor
reports. Reconnection, commands and photos need not happen.
*SensorSession.* The three threads are scheduled and their deadlines pass; the
sensor obeys what reaches it and, while not in configuration mode, reports again
and again (strong fairness, as the reader has to have room). systemd starts the
service again (`Starts` is in `MainStep`). Faults, nights and people are not fair.
*DisplayLease.* display-mgr and its clients are scheduled: weak fairness of what
they do when a message or an answer is there. No call need time out, and nothing
need start, finish or die.
*MqttClaim, Slideshow, AlbumFilter.* None: nothing they state is about progress.

## 4. What is proved

`PhotoProviderProofs`, for any depths, sizes, descriptors and number of calls:

| theorem | says |
|---|---|
| TypeCorrect | `Spec => []TypeOK` |
| ThreadsRelyOnInv | `Spec => []Inv`: also, the threads are in step with the backend, fetches are of the configuration in force, sleepers have nothing to do |
| RingKeepsShape | head, cursor and tail keep their order and every live slot holds a photo |
| OutdatedPhotosNeverServed | once a setter replied, no photo of an older configuration is cached or served |
| NeverMutualSleep | a caller asleep and the worker asleep never wait for each other |
| PhotosAlwaysKept | storing a photo never drops the current one or one not delivered |
| MemfdsAlwaysOwned | every photo's memory has one owner and is closed once |
| ProviderImplementsAlbum | the service with its threads implements `PhotoAlbum`, step by step |

`PresenceProofs`, for any delay, thresholds and silent window:

| theorem | says |
|---|---|
| Invariant | `Spec => []Inv`: types, the three that follow, and `PendingIsReported` |
| PresenceTypeCorrect | `Spec => []TypeOK` |
| ForceOffHolds | while the latch is set, presence is announced false |
| AnnouncementsCurrent | no handler leaves an announcement out of date |
| FlickerNeverAnnounced | a report changes the announcement only with a full run of the sensor's own reports |
| LatchClearsRightly | what may clear the latch |
| SilentWindowIsCyclic | `in_silent_period` is membership in a cyclic interval, for every start, end and minute |

and there, about the service with its display and ambience's slideshow, for any
hours, deaths, restarts and backlogs besides:

| theorem | says |
|---|---|
| DisplayFollows | between dispatches the panel is lit exactly when presence is announced |
| ForcedOffStaysDark | types of all processes; a ForceOff keeps panel and listeners off |
| LitFirst | presence is signalled true only once the display is lit, or known not to be |
| ShowInStep | a slideshow set for presence-service runs exactly when that announced presence |
| PresentAlwaysShown | somebody present and photos there: the slideshow runs |

`RenderProofs`, for any texts and number of calls, with and without a fallback:

| theorem | says |
|---|---|
| RenderTypeCorrect | `Spec => []TypeOK` |
| PauseAlwaysPaints | a handled pause leaves the fallback on the screen |
| WakeupsNeverLost | the render thread never sleeps through what it was told to do |
| ErrorsAlwaysClear | an error is on the screen only while it is the last one given, never on a photo |

`AlbumFilterProofs`, for any filters and number of calls and ends of the process:

| theorem | says |
|---|---|
| NoExcludedPhotoServed | between calls every photo that can be served is of the filter in force |
| FilterAlwaysSurvives | the filter accepted last is in force with backend, picker and memory, and is what the next start reads unless it could not be written |

`DisplayLeaseProofs`, for any clients, ambiences and tools, and starts of each:

| theorem | says |
|---|---|
| LeasesAgree | `Spec => []LeaseInv`: one process at a time has a framebuffer, by the lease on record, of a connection that is watched |
| DaemonsFollow | ambience has the framebuffer of the display-mgr that runs or has asked it in vain |

`BridgeProofs`, for any distances, filters, bounds and lost connections:

| theorem | says |
|---|---|
| NeverReplayed | a command is carried out once or not at all |
| OccupancyTold | with every signal handled the record says what was measured last |
| FilterReportedRight | `Backend = "immich"`: the filter reported is the one accepted last, and the one in force unless a call timed out since |

`SensorSessionProofs`, for any parameters, faults, nights and restarts:

| theorem | assumes | says |
|---|---|---|
| AcksMeanDone | no late answers | `[]SessionInv`: a session that returns success did what it was for |
| StartupApplies | no late answers | what startup did not report as failed, the sensor has |
| ModeAlwaysLeft | no late answers, no lost end | no session leaves the sensor in configuration mode |

`MqttClaimProofs`, for any machines, configurations and number of sessions, and for
connections that break, processes that die and wills that come late, at any step:

| theorem | says |
|---|---|
| SessionsWellFormed | types; who has which session; what may be on its way, and in which order, at each place of a bridge |
| LosersNeverSeen | a bridge that never had the prefix leaves no record there but the will of a claim that was cut off |
| GhostsNeverSeen | once the broker has caught up, a bridge that is gone is online for nobody |
| RecordAlwaysRight | and a connected one nobody contends with is online with its latest configuration, unless another session's offline record came after its own |
| ClaimsNeverShared | a claim is accepted next to a connected bridge only while that one's record is on its way to the broker or behind the one that settled the claim, or once another's will replaced it |

Three hypotheses are more than bounds. The wwwslide backend accepts filters it
does not have, so `FilterHonest` is a statement about the other one. A late answer
does make success of a lost command: that is what the run `sensor_stale_ack`
finds. And nothing can take a sensor out of configuration mode when the one frame
that does it is lost; sensors are not asked twice. Other properties have an excuse
where the code has no answer, and hold again from where it has one: `missed` until
presence-service's next call to a display-mgr that works, `unsaved` until the next
filter that is written, `silenced` until the bridge's next record.

The assumptions are the named ASSUMEs of the modules: depths and bounds are
natural numbers, thresholds are within the counters' range, the "no photo" and
"no client" values are not photos and configurations, texts are told apart.

*Arguments.* What photo-provider promises is not inductive. A photo in the ring
is current only because the fetch that made it was, and a fetch is current at
each of its stages for a different reason: the generation it started with, or
the registration flag that was down or raised since. `FetchesAreFresh` states
this stage by stage, relative to how far a setter's own stores have come;
`ThreadsInStep` ties the two program counters to what is in hand, and
`SleepersIdle` says why a sleeping thread has nothing to do. With `TypeOK` and
`RingShape` they are `Inv`; `TypeOK`, `RingShape` and `ThreadsInStep` are inductive
by themselves (`StateOK`), and the other two on top of them.
In the policy, `FlickerSuppressed` is about the sensor's own reports while the
code counts in `pending_count`, which overrides preset: `PendingIsReported` says
that a pending run which could commit is never longer than the sensor's.
In ambience each invariant has a strengthening of its own: `PauseInHand` (the
D-Bus thread still owes the fallback, or it is up and nobody is composing),
`WakesDue` (with no post made or due, everything the render thread read on its
way to sleep still holds), `TextsAgree` (a photo is composed only while no error
is remembered) and `Bounded` (each call adds at most one press and one post).
For the album filter, `PicksCurrent` says that from the flush on, the cache and
what a fetch of this generation picked are of the picker's filter; `CopiesFollow`
follows one change through its four copies, backend, memory, file and reply.
Memory is counted by `OwnedOK`: the descriptors in the ring's live slots, the
worker's hands and the caller's are pairwise different, and those are all that
are open. For the refinement, the album's `Shelf` is the ring from its head to
its end and its `Mark` how far the cursor has come; a step of the worker that
callers cannot see is a stutter of the album.

`PresenceDisplay` keeps the policy's `Inv`, which `ForgetInv` carries through
a restart, and adds what the glue owes at each of its places (`GlueOK`) and what
was heard last (`HeardOK`). What ambience has been told is in its queue or in
`active`: `LastSays` says that the last event of a kind in the queue, or, with
none there, the last one it was set by, is as the service is now. It is kept for
presence (`PresenceTold`) and photos (`PhotosTold`) separately, one needing that
ambience watches the name already, the other that it was not `blind` between its
subscriptions.
The lease is right because a connection has one owner (`PlacesOK`), because
nothing is under way from a connection that is closed but news of that
(`InboxOK`), and because a framebuffer granted and not yet mapped counts as had
(`GrantsOK`). `DaemonOK` says of each place of ambience why it will yet ask the
display-mgr that runs.
In the bridge only the first command after a subscription can be the broker's
retained copy, so those that will be carried out can be counted (`CommandsOK`,
`Live`). sd-bus's queue and its socket are one queue, in the order handled, and
its last report is what the sensor measured last (`OccupancyOK`).
A sensor's session has one frame anywhere between main and the sensor and back
(`LineOK`), and its answer, wherever it is, tells of what was done (`Truthful` in
`AcksOK`): a late answer breaks exactly this. `ParamsOK` says that a value read or
written stays, so that a key is right when startup is past it; `ModeOK` that
configuration mode goes with a frame under way that will end it.
For the claim, `PlaceOK`, `InboxOK` and `ClaimOK` say where everybody is: the
session a bridge takes for its own is the broker's too, or was cut, and a claim has
one message under way at a time (`ShapeOK`). What the record will be is not in the
record but in what is on its way: `Says` is about the last record a session's queue
still publishes or, if it publishes none, the one retained. With it `LastWordsOK`
says that the queue of a bridge that left ends in an offline record, and
`BackedOK` that an online record is that of a session the broker has yet to close,
by such a queue or by its will: with nothing on its way, nobody who is gone is
online. `SaidOK` says that the queue of a connected bridge ends in what it is, and
`OnlineOK` what becomes of that record once it was read: it stays, unless an
offline one came after it (`silenced`) or is yet to come from another session.
`LosersOK` has a session cut either served or torn, so a will that
comes is of one of the two. A claim is told the record as it was when its
subscription was read, and each one since (`WaitOK`), and unless two claims were
accepted at once only one bridge has said anything (`SoleOK`): so what settles a
claim next to a connected bridge was read before that one's record (`NamedOK`).

*Only model-checked:* liveness, which is out of the prover's reach like anything
that needs ENABLED. Every invariant and every action property of the passing runs
is stated by a theorem, and so is the refinement.

## 5. Where the code and its documentation part

Each of the two runs above whose answer is no shows one. The others were met
while modelling; where a constant of a model or a line of it is named, TLC shows
them when it is changed:

- `presence-service/main.c:94-96` says the display must reflect "no presence"
  until decided otherwise; a display-mgr that restarts shows its framebuffer on
  every output (`drm.c:239`), and presence-service, which calls Display on a
  change only, does not send the Off again.
- `render.c:219-220` has the reason land on the same frame as the fallback it
  explains; `ambience/main.c:124` does nothing for a message that equals the last
  one, even if an announcement replaced it on the layer and has expired since.
- `dbus-mqtt-bridge/README.md:140` reports the filter last applied;
  `wwwslide_backend.c:280-286` ignores filters and returns success, so the bridge
  publishes one that nothing applies (`FilterHonest` with `Backend = "wwwslide"`).
- `mqtt_claim.h:42-44` has the broker apply the old will before a reconnection;
  sessions have no client id in common (`mqtt.c:135-136`), so it may come later,
  and `mqtt.c:67` publishes online once: a connected device stays offline
  until it is configured or connects again (the exception for `silenced` in
  `OnlineWhenQuiet`).
- `ambience/main.c:245` pauses when a service is missing at startup and nothing
  makes up for it when presence-service had announced somebody before: the
  slideshow waits for the next change (the exception in `PresentIsShown`).
- presence-service announces somebody and ends between ambience's subscription to
  its signal and the one to its name (`dbus_listeners.c:252-263`): the end is not
  heard, the slideshow starts, and nobody is there to stop it (`blind`).
- `ambience/main.c:247-248` says of the framebuffer "If it fails, we'll connect
  later"; refused because a tool has the lease, it asks again only when
  display-mgr restarts (`refused` in `FollowsDisplayMgr`).
- `photo-provider/README.md:44` has the filter written back; the result of
  `pp_config_save` is not looked at (`photo-provider/dbus.c:167`), the caller's
  retry with the same filter is not saved either (`immich_backend.c:123`), and
  the file is rewritten in place: one cut short is refused at the next start.
- With the `end_lost` fault, a lost end of the configuration mode is not repeated
  and leaves the sensor in it (`LeavesConfigMode`); with `late` and a restart, a
  late answer of the process before makes a parameter count as set
  (`ParamsApplied`).
- `ld2410s.c:147` looks at the vacancy count once, and it counts from before: a
  calibration may start when somebody has just come in. A calibration whose
  answer is lost is started again the same night (`occupancy main.c:196`).
- `ld2410s.c:30-31` stores occupancy and distance apart, so a report may pair one
  with the other's predecessor. `session.c:155-156` reads `s` after freeing it;
  `ld2410s.c:69-72` leaks it when there is no callback.

- `photo-provider/README.md:36` promises `history_depth` photos of history;
  `cache.c:156` evicts from the head whenever the buffer is full, so after steps
  back the photos kept behind the cursor can be fewer.
- `photo-provider/README.md:36` says of `history_depth` "0 disables `prev`";
  `cache.c:270` compares the cursor with the head only, which stays behind until
  the ring is full, so early on GetPrevPhoto steps back all the same.
- `display-mgr/README.md:13` says the startup power state is restored;
  `main.c:34` reads it after `drm_create_framebuffer` lit the outputs.
- `mqtt_claim.c:222` sets the will before the claim is decided: a bridge whose
  connection breaks while it claims overwrites the owner's record with its own
  offline one (the exceptions for `torn` in `LosersLeaveNoTrace` and for `silenced`
  in `OnlineWhenQuiet`), and the
  owner is refused its own prefix at its next start.
- `presence.h:44-45`: a ForceOff is "as vacant until hysteresis commits to false
  (clearing the latch)"; `presence.c:117` sets the stable value to vacant, so no
  number of vacant reports clears the latch before the room was committed
  occupied.
- `presence.h:49-51` says the next N reports are not announced; the N-th is, since
  the count is taken first (`presence.c:102`), and so is an override meanwhile.
- `presence-service/README.md:16-17`: "occupied" needs a run of reports; the
  report that ends the delay needs none.
- `render.c:386` makes a resume visible before it marks the configuration dirty;
  the comment at 393 says it is pushed before the next fetch.
- `render.c:176-177` promises a single step for presses queued before a photo; a
  press counted after the semaphore was drained, whose post comes after the
  count was taken (`render.c:181`), makes a second photo follow at once.
- A new framebuffer of another size is not told to photo-provider before the
  next resume (`render.c:313`).
- `eink_meta.h:18` and `eink_meta.c:40-42`: two threads write the strip and the
  text remembered; they can part, and a photo's place can stay up while paused.
- `ambience/main.c:148` and `245` start the slideshow without asking whether
  anybody is there; `ambience/README.md:4-5` ties it to presence.
- `dbus-mqtt-bridge/README.md:194` has state forwarded when MQTT is back. A
  record accepted after the connection broke and before that was noticed is not:
  `device_state.c:118` takes it for published (`lost` in `Bridge`; line 196 of
  that README disclaims delivery in general). The photo's description is not
  published again at all, though line 121 has late-joining clients see it.
- `dbus-mqtt-bridge/README.md:34` says the bus is drained on every wake;
  `main.c:461` does so only when its socket is readable, so signals read during
  a call wait for the next message on the bus.
- `dbus-mqtt-bridge/README.md:139` reports `slideshow.active` from ambience's
  SlideshowActive, which ambience declares and never emits.
- `dbus-mqtt-bridge/README.md:195` has the last record stay after a restart until
  something changes; the first wifi poll replaces it by one of nulls.
- `ambience/README.md` calls the daemon single-threaded.
- `render_free` joins the render thread even when `render_init` failed before
  it was created.

## 6. What is not modelled

Drawing, decoding, the e-ink and GPIO registers, most configuration keys and the
command-line tools keep no state that outlives a call. The picture choice of the
immich backend is in a submodule that is not part of this repository. The byte
scanner of the sensor's line is abstracted to whole frames and the faults it may
make of them; the getters and setters of `ld2410s_uart.c` that nothing calls are
left out. Sizes in pixels, distances of the radar, dates, places and MQTT payloads
are data that no property so far tells apart. The table of section 1 and
`components` in `PROJECT.json` list the rest.

## 7. Plan

1. A property over the text remembered and drawn on the e-ink strip.
2. The composition of ambience with photo-provider, for the sizes both keep.
3. That `SensorSession` implements what `Presence` assumes of its sensor.
