# Models and proofs of the wayland-cxx framework

`wayland-cxx-scanner` is a code generator for Wayland protocols together with a
header-only client framework (`include/wl/`) and some twenty programs that are
built on it (`examples/`). The state is in two places. The framework has
handlers that keep something between events, managers that own protocol objects
while the compositor creates and withdraws them, and two loops that wait on file
descriptors. The programs have a life: a setup of many requests, each of which
may fail, handlers that remake what the setup made, and a teardown that has to
undo whatever is there. This directory models both in TLA+, checks the models
with TLC on small instances and proves part of them with TLAPS for every value
of the constants.

The source is the reference. Each action is one handler, one step of a loop or
one step of a program; `PROJECT.json` ("map") names the lines behind every
definition.

## 1. The system

Everything runs on one thread. `wl::RunEventLoop` polls the Wayland socket and
a few auxiliary descriptors (key repeat, cursor animation, the App's own), and
libwayland calls the handlers from `wl_display_dispatch`. What interleaves is
not threads but *actors*: the compositor sends events while requests are in
flight; timers expire between two dispatches; the App calls into the managers
from its own callbacks, hooks of the managers included; a protocol object may
be destroyed while events for it are in the socket.

| Component | State | Operations | Interacts with | What makes it correct |
|---|---|---|---|---|
| Keyboard (`keyboard.hpp`) | key that repeats, rate, delay, last serial, keymap, timerfd | key, enter, leave, keymap, repeat_info; `DispatchRepeat` | event loop polls its timer; SeatManager creates and destroys its proxy, not the handler | a repeat belongs to a key that is down; none starts at rate zero |
| Pointer (`pointer.hpp`) | position, scroll of the current frame per axis | enter, leave, motion, button, axis events, frame | SeatManager creates and destroys its proxy, not the handler | one event per axis and frame, with all that was scrolled; a frame starts from nothing |
| Touch (`touch.hpp`) | array of contacts and a count | down, up, motion, cancel | SeatManager | the array is the set of contacts on the surface |
| Seat (`seat.hpp`) | four owned proxies, version | bind, capabilities, release | creates keyboard, pointer and touch | a proxy exists exactly while its capability does; none is left behind in the compositor |
| Event loop (`display.hpp`) | the phase of an iteration, what the last poll saw | flush, poll, drain, callbacks, dispatch | every handler runs under it; `FdSource`s | nothing unsent and no stop unseen while it waits; no dispatch blocks; nobody starves |
| Roundtrip (`display.hpp`) | the sync callback, a flag on the stack | flush, poll, dispatch until the marker | the same socket and the same queue | a late answer writes nothing; it returns |
| Cursor (`cursor.hpp`) | theme, surface, shape, borrowed pointer and serial, timerfd | Set, Hide, Reset, SetScale, DispatchFrame | borrows SeatManager's `wl_pointer`; the loop polls its timer | what it keeps belongs to the last enter and the loaded theme; what the App asked for is shown |
| Clipboard (`data_device.hpp`, `ext_data_control.hpp`) | pending offer, one slot per selection, one source | Start, Offer, OfferPrimary, Release; offer, selection, cancelled, send | other clients, through the compositor | every proxy has one holder; slots follow the announcements; the App knows what it owns |
| Presentation (`presentation.hpp`) | a pool of slots, the clock | Arm, Release; clock_id, presented, discarded | the App arms from inside the hooks | each frame is resolved once, under its own number |
| DMA-BUF feedback (`dmabuf_feedback.hpp`) | format table, advertisement being received, committed one | Bind, StartDefault, StartSurface, Release; table, tranche and done events | the App reads `Current()` at any time | the App sees whole advertisements, in order |
| Ring of dma-buf slots (`examples/skia-vulkan-dmabuf`, `vk-common/explicit_sync`) | slots, what each was drawn for, damage, the frame callback | RenderFrame, release events and points, frame done, resize, dropped buffers | compositor, GPU, view tree | no slot is drawn while the compositor has it; every frame shows the scene |
| Programs (`examples/*`), decorations (`examples/csd-common`) | some fifty members that own objects | `Run`, the handlers, `~App` | registry, seat, shell, EGL, Vulkan, Skia, plug-ins | use only what exists; overwrite nothing; destroy children first; leave nothing |
| Ownership (`wl_ptr.hpp`, `proxy*.hpp`) | a proxy and its listener | Attach, Swap, Reset | all managers and programs | a proxy is destroyed once; no event after it |
| Text input (`ime/`) | activation, focus, serial | Activate, Deactivate, Commit; enter, leave, preedit, commit | UI toolkit and compositor | enabled exactly when active and focused |
| Scanner (`src/`) | none between protocols | parse, name, generate | - | wire signatures and type slots match the XML |

The hard behaviours, each at its line, are the "hazards" of `PROJECT.json`. Five
kinds recur: a handler outlives the protocol object it was made for
(keyboard, touch, pointer, cursor); an answer arrives after the question was
given up (roundtrip, clipboard, presentation, a release for a ring that was
remade); a decision is taken on a poll that callbacks have made stale (event
loop, cursor timer); a slot is shared by two things that the protocol keeps
apart (the one source of two selections, the types of all offers); and a
sequence of requests is broken off half-way (every program).

## 2. Modules

| Module | Models | Checked by |
|---|---|---|
| `Keyboard` | key repeat and its timer, with the compositor's side of focus, keys and capability | `MC_Keyboard` |
| `Pointer` | scroll frames and the `wl_pointer` that comes and goes | `MC_Pointer` |
| `EventLoop` | `RunEventLoop`, one action per phase | `MC_EventLoop` |
| `Roundtrip` | `RoundtripWithTimeout` with a discrete clock | `MC_Roundtrip` |
| `Touch` | the contact array with swap-remove; implements `Contacts` | `MC_Touch` |
| `Contacts` | abstract: a set of contacts | - |
| `DataDevice` | clipboard and primary selection with requests and events in flight | `MC_DataDevice` |
| `Presentation` | the pool of feedback slots; implements `Feedback` | `MC_Presentation` |
| `Feedback` | abstract: the set of frames without an answer | - |
| `DmabufFeedback` | the streamed feedback events; implements `Snapshots` | `MC_DmabufFeedback` |
| `Snapshots` | abstract: whole advertisements, committed one by one | - |
| `Cursor` | `CursorManager` composed with the gain and loss of the pointer | `MC_Cursor` |
| `Slots` | the ring of dma-buf slots, its damage and its pacing | `MC_Slots` |
| `Script` | the vocabulary for programs, and what they share from `include/wl` | - |
| `Client` | runs a program, with every outcome of every step | `MC_Client` |
| `ShmApps`, `CanvasApps`, `GlApps`, `VkApps`, `ToolApps`, `Decorations` | twenty-four programs as data: their setup, handlers and teardown | `MC_Client` |
| `Review` | tests on the text of a program, from which `Program_proofs` concludes how it behaves | `MC_Client`, with `MC_Client_review.cfg` |
| `Input_proofs`, `Pointer_proofs`, `Program_proofs`, `Cursor_proofs`, `Presentation_proofs`, `DataDevice_proofs`, `DmabufFeedback_proofs`, `Slots_proofs` | theorems; those of `Input_proofs` are about `Keyboard` and `Touch`, those of `Program_proofs` about both waiting functions of `display.hpp`, `EventLoop` and `Roundtrip`, and about `Client` | TLAPS |

### How the models correspond to the code

**Dispatch.** In `DataDevice`, `Presentation`, `DmabufFeedback`, `Cursor` and
`Slots` the compositor appends to a queue of events and one action takes the head
and runs the whole handler: this is libwayland's order, and the gap between
sending and dispatching is where the hazards are. Events of a destroyed proxy are
taken and dropped, as libwayland does. In `Keyboard`, `Pointer` and `Touch` an
event and its handler are one action: those handlers send no requests that an
event could cross, and the only thing concurrent with them is the timer, which is
an action of its own.

**`Keyboard`.** `repeat`, `timer`, `lastSerial` are the members; `timer.armed`
and `timer.expired` are the two things a timerfd knows. `Expire` is the kernel.
The compositor holds `held` (keys down) and `focus`. `DispatchRepeat` runs only
when the seat has a keyboard, since `GetRepeatFd` returns -1 otherwise; the
expired timer waits meanwhile.

**`Pointer`.** `axes` and `source` are `axes_` and `source_`; a wl_fixed_t is an
integer in units of `Scale`. Which events exist depends on the version: before 5
there is no frame, and each axis event is a frame of its own; value120 replaces
discrete from 8 on. `frame` and `closed` record what the compositor sent, and
`TellsEachFrame` compares the events the App got (`scrolled`) with a definition
that does not use the axis state. `Capabilities` constructs a proxy when there is
none, which may fail, and the next capabilities event tries again; it releases
the proxy from version 3 on, and below that the protocol has no way to tell the
compositor.

**`EventLoop`.** `pc` is the place in an iteration: check, flush (with its wait
for room), drain of what is already queued, poll, the auxiliary callbacks in
order, dispatch. The three overloads of `RunEventLoop` are the same loop with
zero, one and many sources. `Callback` is the code of handlers and callbacks: it
may queue requests, ask the loop to stop, and empty other descriptors; the
callback of a source reads its own descriptor.
A callback may also read the socket on a queue of its own, as `eglSwapBuffers`
does: what it finds for the default queue then waits there, where the poll does not
see it. Two history variables tell where that matters: `leftover`, that the default
queue was not empty when the last flush was done, so that a handler runs between
flush and wait; and `taken`, that somebody took from the socket what the last
poll had seen.

**`Roundtrip`.** `waited` is the time in the current poll and `elapsed` that of
the call. Signals, other events and a full socket wake the poll. After the call
returned, a late marker is delivered by whatever dispatches next. Names that the
loop has too carry a prefix (`callPc`, `CallFlush`), because one module of theorems
speaks of both.

**`Touch`.** `points` keeps the whole array, dead places included, so that a
wrong swap shows. The compositor's `down` is the truth it is compared with. The
specification is `TouchSpec`, and so on, because one module of theorems speaks of
`Keyboard` too.

**`DataDevice`.** `HasPrimary` chooses between the policies of `wl_data_device`
and `ext_data_control_device_v1`. `MimeSet`s are attached to the handler of a
slot, not to the proxy, as in the code: `Swap` moves proxies between handlers.
The compositor processes requests in order and knows an owner per selection. The
types are any finite set (`MimesAssumption`): a list of them is what an offer sends.

**`Presentation`.** A slot is free, live or answered; `handler` is the pointer
to the slot that libwayland keeps in the proxy's listener. `hook` is the answer
whose hook is running; an App that arms inside it is `ArmInHook`. Timestamps are
reduced to what the App is told: usable, or not (a seconds-high word).

**`DmabufFeedback`.** An advertisement is streamed event by event and the App may
release in between. A table that cannot be mapped reads as an empty table
(`FormatTable`'s early return). Versions 0 (no global), 3 (legacy formats) and 6
(feedback, clamped to what the header knows) cover the three paths.

**`Cursor`.** The App is any of the examples: it resets the shape when the pointer
enters (`simple-egl/main.cpp:895`, `xdg-csd/main.cpp:888`,
`decorated_frame.hpp:115`) and then, or with a later motion, sets one; the Dear
ImGui back end also resets on leave (`imgui_impl_wayland_cxx.cpp:522`). `pointer` is
the raw `wl_proxy*` that the manager keeps, `wlptr` the one SeatManager holds, and
`entered` the one through which the App was last told of an enter. The
capability may go at any time, with or without a leave. A theme resolves any of the
names (`known`), so `Set` may find nothing (`cursor.hpp:145`), also when `SetScale`
applies the shape to a new theme; and an image may have no buffer, in which case
`ApplyImage` sends nothing (:252). The frame timer has a window of its own
(`polled`): the loop has seen it expire and the callback has not run yet.

**`Slots`.** The window is cut into four regions that change together: a button,
the spinner that moves in every frame, the overlay, and the rest. A slot's pixels
are reduced to the regions in which they differ from the scene (`stale`, which
the code does not have); `accum` is the record the code keeps of what the other
slots were drawn for. `held` is the compositor's side, and `events` what it sent
and the client has not read. `RenderFrame` is one action with three outcomes:
drawn and committed, dropped because the slot is busy, or, when the ring could
not be remade, the end of the program. `Free` reads the release flag or the
release point, by path; a point on the timeline that is signalled stands for
every point before it. A new size or modifier remakes the ring on the way through
`RenderFrame`, while the compositor still has old slots and releases of theirs
are in flight. The compositor may ask for the next frame before or after it
releases the buffer that was replaced; `early` notes that it did so before.

**`Script`, `Client` and the programs.** Every program is a class `App` with the
same shape: `Run` is a pipeline of functions that return false to give up, the
event loop runs handlers, `~App` and the members' destructors undo what is there.
What differs is what they create, in which order, and on which conditions. So a
program is a record of three sequences of steps (`setup`, the handlers `on`, and
`teardown`), and `Client` is the interpreter that gives every step each of its
outcomes; `todo` is what is left of the routine under way. A step names the objects it needs, creates and destroys, the conditions
it depends on, and what its failure leads to: the end of the program, a return
from the handler, or nothing. Members of a class are destroyed in the reverse
order of their declaration (`Destroyed`), locals on every way out of their
function (`Locals`), and an object is named like the member that owns it. A list
of objects (outputs, textures) is one name. `Decorations` is the
`DecoratedWindow` class of `csd-common` with the plug-in frame.

## 3. Runs

| Run | Question | Result |
|---|---|---|
| `keyboard` | Does any interleaving leave a repeat behind, end one early, or start one at rate zero? | passes |
| `pointer` | Is every scroll frame told once, whole and in its direction, and nothing carried over a lost pointer? | passes |
| `loop` | Does the loop ever wait wrongly, block, or starve somebody, unless another reader of the socket makes it? | passes |
| `roundtrip` | Does a late answer write; does the call return, and after how long at most? | passes |
| `touch` | Is the array the set of contacts, also after a crowd? | passes |
| `clipboard` | Do slots, offers and ownership stay right with one selection? | passes |
| `clipboard_types` | Is the App told the types of this offer only? | refuted: section 4 |
| `presentation` | Is each frame resolved once, and dropped only when the pool is full? | passes |
| `dmabuf` | Does the App see whole advertisements, in order? | passes |
| `cursor` | Is what the App asked for shown; what may the manager still point to that is gone? | passes |
| `slots` | Is a busy slot ever drawn; does a frame ever show something old; which one order of events keeps it from coming? | passes |
| `apps` | From wherever a program is broken off, is everything undone once and in order, but for the known flaws? | passes |

The type invariants (`TypeOK` of each module) are not among the properties of the
runs: those of the ten components that have theorems are proved, and the others serve to
document the variables.

### Bounds

Each bound is a constant, and the smallest instance in which the hazards occur:

- `keyboard`: three keys of which two may repeat, two keymaps that disagree on
  one of them, rates {0, 25}, delays {0, 300}, four serials: two keys held
  together, released in either order, with a focus change or a keymap between.
- `pointer`: versions 2, 5 and 8 (no frames and no release; discrete clicks;
  value120); frames of at most three scroll events; a wl_fixed_t of eight parts
  (256 in the code) and an int32 that ends at 150, so that two clicks or two
  notches leave its range, in either direction.
- `loop`: three sources, of which the third is beyond a limit of two (the code's
  limit is 16), two events: a source that is ready again and again, an event
  behind another, a source that is never polled.
- `roundtrip`: a timeout of two units, two other events, two signals: the poll is
  restarted both by events and by signals, before and after half the timeout.
- `touch`: four contacts for three places, two positions: the middle one is
  lifted, a crowd forms and dissolves.
- `clipboard`: three offers, two sources, three events in flight, two types: a
  pending, a held and a replaced offer at once; a cancelled event that crosses a
  new offer.
- `presentation`: two slots and four frames: saturation, answers in both orders,
  each slot reused.
- `dmabuf`: two advertisements, tables of length zero, one and two, indices of
  which one is beyond the shorter table; two formats where the version is below 4.
- `cursor`: three pointers, three enters, three themes, a static and an animated
  shape: two unplugs with the theme reloaded in between.
- `slots`: two slots, the number in the code; frames and inputs are not bounded,
  since all that grows is what the compositor holds, and that is at most two.
- `apps`: twenty-four programs, seventeen globals each announced or not, every
  step with every failure its code tests for, handlers any number of times and in
  any order. No outcome is left out: the state is which objects exist.

Counters of serials, frames, enters and offers are bounded in the guards of the
environment only. Where that stops the system (`CHECK_DEADLOCK FALSE`) the run
either ends by itself (the loops, the programs) or the environment has used up
its bound.

### Assumptions about the environment

Named constants, so that the runs can turn them around:

- `LeaveBeforeLoss` (keyboard, pointer) and `LiftBeforeLoss` (touch): the
  compositor ends focus, frames and contacts before it withdraws the device. Real
  compositors do; the protocol does not demand it.
- `ArmInHook = TRUE`, `ClockFirst = FALSE`: the least disciplined App.
- `StartOnce`: one feedback object per `DmabufFeedback`; the model also has
  `CommitLegacy` called once, after the events of the roundtrip, as documented.
- `Downgrades = FALSE` (slots): with explicit synchronisation the modifier stays
  available.

The runs `loop`, `cursor`, `slots` and `apps` go through what their code gets wrong
as well: no behaviour is assumed away, and the property names the one exception,
which section 4 describes. In `apps` the exceptions are data, `MCFlaws`:
for a program, one of its routines and one object.

### Fairness

- `loop`: weak fairness of the loop's own steps (the thread runs), strong
  fairness of a poll that finds something (`EINTR` cannot win for ever), weak
  fairness of the compositor reading requests. None for errors, interrupts,
  new events or sources becoming readable: nothing obliges them to happen.
  `SourcesServed` and `StopEnds` except the behaviours in which another reader
  leaves the dispatch without an event (`HeldUp`), or a handler runs too late for
  the flush and the stop (`LateWait`), for ever.
- `roundtrip`: weak fairness of the call and of time. The answer is not fair: it
  may never come, which is what the timeout is for.
- `presentation`: dispatch and hooks go on, and the compositor answers every
  feedback, as the protocol obliges it to.

The other specifications are safety only. `FrameOnItsWay` (slots) is the safety
side of progress: a program that waits for a frame callback has committed the
request for it, or the frame was dropped as section 4 describes.

## 4. Where the code and its documentation disagree

One disagreement is a listed run. `clipboard_types`: the MIME types of earlier
offers, drags included, stay in the handler of the pending slot and are reported
with every later selection (`data_device.hpp:346` resets the proxy and not the
set). Types are never missing; they are too many.

### Kept as configurations beside the runs

`tlc -config <cfg> <module>` reproduces each of them.

| Configuration | Refutes | Because |
|---|---|---|
| `MC_Keyboard_serial` | `TickCarriesPressSerial` | `KeyEvent::serial` is documented to carry, on a repeat tick, the serial of the press that repeats (`keyboard.hpp:103`); any other key event overwrites it (:244) |
| `MC_Roundtrip_time` | `BoundedByTimeout` | `RoundtripWithTimeout` "never blocks longer than timeout_ms" (`display.hpp:70`); each wake-up restarts the timeout (:109). What does hold is `BoundedByWakeups` |
| `MC_DataDevice_told` | `OwnerOrTold` | clipboard and primary selection share one source (`data_device.hpp:460`): offering one destroys the other, and the App, which is to hear of it (:255), is not told. With one selection (`clipboard`) the same property holds |
| `MC_Cursor_dangling` | `NothingDangles` | the manager keeps a `wl_pointer` that was unplugged until the next enter, since the Apps reset on enter only, and `DispatchFrame` (`cursor.hpp:256`) and `SetScale` use it; and after a change of the scale whose look-up finds nothing (:146) `cursor_` points into the theme that was destroyed. What does hold is `HoldsLiveObjects` |

### What an assumption or an exception is for

Each assumption can be turned around in the configuration of its run, and each
exception taken out of its property; TLC then answers with the behaviour it stands
for.

| Run, with | Refutes | Because |
|---|---|---|
| `keyboard`, `LeaveBeforeLoss = FALSE` | `TickOnlyWhileHeld` | a keyboard withdrawn without leave: the repeat survives into the next keyboard |
| `keyboard`, with `NoTickAtZeroRate` as invariant | `NoTickAtZeroRate` | the rate becomes zero while a key repeats: `OnRepeatInfo` leaves the timer running (`keyboard.hpp:299`), against the comment at :44. What does hold is `ZeroRateStartsNothing` |
| `keyboard`, with `PressArms` as property | `PressArms` | a delay of zero disarms the timer that is meant to start |
| `pointer`, `LeaveBeforeLoss = FALSE` | `NothingPending`, `TellsEachFrame` | a scroll whose frame never came is told as part of the first frame of the next pointer |
| `loop`, without `leftover` | `NothingUnsentWhileWaiting`, `NoWaitAfterStop` | a callback that read the socket left events in the default queue, whose handlers run between the flush and the wait |
| `loop`, without `taken` | `DispatchNeverBlocks` | a callback read the socket after the poll had seen an event in it |
| `roundtrip`, with `FailureHasCause` as invariant | `FailureHasCause` | a signal during the wait for room ends the call as an error |
| `touch`, `LiftBeforeLoss = FALSE` | `NoPhantoms` | contacts survive the loss of the touch capability |
| `presentation`, with `TeardownOutsideDispatch` | `TeardownOutsideDispatch` | an App that arms in a hook makes `Reap` destroy the proxy whose event is running (it holds with `ArmInHook = FALSE`) |
| `presentation`, with `LatencyOnOneClock` | `LatencyOnOneClock` | a frame armed before `clock_id` was timed with the default clock (it holds with `ClockFirst = TRUE`) |
| `dmabuf`, `StartOnce = FALSE` | `ImplementsSnapshots` | a second Start: two feedback objects write one snapshot |
| `cursor`, with an `OnPointerEnter` that sets without `Reset` | `HoldsLiveObjects`, `ShapeShown` | the usage example of `cursor.hpp`: the second enter shows nothing |
| `slots`, `NumSlots = 3` | `HeldOnce` | with three slots a release point that is signalled frees an older slot the compositor still has |
| `slots`, without `early` | `FrameOnItsWay` | the compositor asks for a frame before it has released what the last one replaced; the frame callback is requested, the slot is busy, the frame is dropped, and the request never committed (`skia-vulkan-dmabuf/main.cpp:1592`) |

With `Downgrades = TRUE` the run `slots` passes, but the commits on the path
without modifiers then carry no points although the surface has explicit
synchronisation (`main.cpp:1201`), which that protocol makes an error.

### What the programs get wrong

`MCFlaws` (`MC_Client`) lists them: in `misses`, what a routine uses although it is
not there; in `remakes`, what it creates over an object it still holds; in `leaves`,
what is there when the connection is closed. Fourteen of the programs are not in the
list. With an entry taken out, `apps` finds it.

| Program | Entry | The flaw |
|---|---|---|
| `presentation-shm` | misses `configured` | draws after one roundtrip, when the first configure may still be on its way |
| `presentation-shm -p` | remakes `feedkick` | the feedback of the next frame replaces one that is still outstanding (`main.cpp:1038`), whose handler is deleted and whose proxy is not |
| `presentation-shm`, `sdl3-presentation-shm` | remakes `last_presented`, `discarded`; leaves `discarded` | the answered feedback of a frame is moved over that of the last one, or dropped, without its proxy being destroyed (`main.cpp:969`, :983). No request is missing, only memory is lost |
| `ivi-presentation-shm` | misses `bufs`, remakes `frame_callback` | a frame event handled inside the roundtrip of a configure draws when the old buffers are gone, and requests a second callback |
| `DecoratedWindow` | misses `frame_subsurface` | `Init` returns false when it gets no subsurface, with the surface made already (`decorated_window.cpp:500`): `decorated_frame.hpp:61` says the window is never half-built |
| `imgui` | leaves the objects of the platform back end | if the GL3 back end fails to start, `imgui_up_` is not set yet and nobody shuts down the platform back end that was started (`main.cpp:472`) |
| `xdg-csd`, `xdg-ssd`, `skia-shm-canvas`, `skia-skottie-canvas` | misses `pool_mem`, `pool_bufs` | `BufferPool::Create` notes the new size before it has the new pool (`xdg-csd/main.cpp:302`), so after a failure in a handler the next frame draws without one |
| `skia-vulkan-dmabuf` | remakes `dmabuf_feedback` | starts the feedback twice (`main.cpp:585`, :670); the first object is forgotten and goes on receiving events (`dmabuf_feedback.hpp:321`) |

Met while reading, and not expressed as a property:

- `clipboard` notes the selection as its own even if `Offer` failed
  (`main.cpp:838`).
- Flags that a buffer is busy survive the buffer (`key-input`, `text-input`,
  `clipboard`, `ivi-presentation-shm`, `xdg-ssd`): a release of an old buffer frees a new one, or
  a new one is thought busy.
- `ivi-presentation-shm`, `agl-presentation-shm` and `skia-shm-canvas` return from `CommitFrame` without a new
  callback when no buffer is free, and stand still until something else draws;
  `subsurfaces` draws into buffers without asking whether they are free.
- `xdg-csd` and `DecoratedWindow` keep one retired pool: a second resize drops it
  while the compositor may still show it.
- `wayland-info` pairs xdg_outputs with outputs by index, and the indices shift when
  a request fails (`wayland-info.cpp:733`).
- `minimal`: if the server fails before it writes the socket's name it waits for a
  client that waits for that name (`roundtrip.cpp:100`, `server.cpp:143`); and it
  runs for ever if the client dies before it has connected (`server.cpp:179`).

## 5. Proofs

| Theorem | Says | Assumes |
|---|---|---|
| `Input_proofs!TypeCorrect` | types | - |
| `HeldRepeat` | a repeat belongs to a key that is down | `LeaveBeforeLoss` |
| `TicksAreHeld` | ticks are of keys that are down | `LeaveBeforeLoss` |
| `ZeroRateIsPassive` | while the rate is zero no timer is started | - |
| `RepeatGoesOn` | a repeat ends only with its key, the focus, or another key taking over | `LeaveBeforeLoss` |
| `Pointer_proofs!PointerTypeOK` | types | - |
| `ClicksArePlaced` | a button event carries the position the pointer is at | - |
| `FramesStartFromNothing` | nothing is gathered between two frames | `LeaveBeforeLoss` |
| `NoPointerStrays` | no `wl_pointer` of version 3 or later is left in the compositor | - |
| `EachFrameTold` | the App is told, per axis, exactly what the frame amounts to, however long it is | `LeaveBeforeLoss` |
| `DirectionKept` | the clamp to an int32 never turns a scroll around | - |
| `Program_proofs!TypeCorrect` | types | - |
| `SentBeforeEveryWait`, `StopBeforeEveryWait`, `NoBlockingDispatch` | the loop waits with nothing unsent and no stop unseen unless another reader had left events in its queue, and its dispatch does not block unless another reader took the event | - |
| `Overtaking` | no source overtakes a waiting event more than twice | - |
| `Input_proofs!TouchTypeCorrect`, `OnePlace` | types; no contact has two places | - |
| `WholeContacts` | the App is told of motions and lifts only of contacts it was told of | - |
| `Implementation` | the array implements `Contacts` | - |
| `Phantoms`, `Mirror` | the array holds only, and exactly, what is on the surface | `LiftBeforeLoss` |
| `Program_proofs!RoundtripTypeOK` | types of `Roundtrip` | - |
| `TimeIsBounded` | a call lasts at most one timeout per poll that was woken, and one more | - |
| `FlagNotWrittenLate` | after the return nobody writes the flag that was on its stack | - |
| `Cursor_proofs!CursorTypeOK` | types | - |
| `WhatIsHeld` | the shape that is kept belongs to the last enter, and to the loaded theme exactly while `current_` names it | - |
| `AskedIsShown` | what the App asked for is what the compositor shows | - |
| `Presentation_proofs!PresentationTypeOK` | types | - |
| `DroppedOnlyWhenFull` | a frame is dropped only when as many as the pool holds wait for an answer | - |
| `ReportedOnce` | each frame is reported once, under its own number | - |
| `PoolImplementsFeedback` | the pool implements `Feedback` | - |
| `DataDevice_proofs!DataDeviceTypeOK` | types, also of every request and event in flight | - |
| `EveryProxyHeld` | every proxy that is not destroyed has one holder, so `Release` leaves none | - |
| `LastAnnouncedHeld` | with nothing in flight, the slots hold the offers announced last | - |
| `HearsOfOwnSources` | the App hears only of sources it believes to offer | - |
| `ToldWhenSuperseded` | with nothing in flight, the App owns what it believes to own | `~HasPrimary` |
| `DmabufFeedback_proofs!FeedbackTypeOK` | types, also of every event in flight | - |
| `WholeAdvertisements` | the consumer of streamed events implements `Snapshots` | `StartOnce` |
| `Slots_proofs!SlotsTypeOK` | types | - |
| `NoSlotHeldTwice` | no slot is drawn while the compositor has it | at most two slots, or no timeline bridge |
| `EveryFrameShowsScene`, `EveryChangeIsTold` | a frame that is shown has nothing old in it; its damage names all that changed | - |
| `FrameComes` | a program that waits for a frame callback has committed the request for it, unless the compositor asked for the frame before it released a slot | at least two slots |
| `Program_proofs!ClientTypeCorrect` | types of `Client` | - |
| `UsesWhatExists` | no step uses what is not there | `NeedsNothingMore` of the program |
| `OverwritesNothing` | no member that holds an object is given another one | `CreatesAfresh` of the program |
| `DestroysChildrenFirst` | no parent is destroyed before its child | `DestroysInOrder` of the programs |
| `LeavesNothingBehind` | nothing outlives the connection | `UndoesAll` of the program |

They hold for any programs, any sets of keys, keymaps, sources, contacts, shapes, types, versions,
formats, format tables, advertisements, positions and amounts of scrolling, any
timeout, and any contact table, pool, ring, number of offers and bound, with the assumption of the right column where there is one.

**Keyboard.** `RepeatOnlyWhileHeld` is inductive only together with
`TimerExists` (a timer that runs is one the handler could create). A tick is
handed to the App only by `DispatchRepeat`, which needs an expired timer, so the
statements about ticks follow from those about the timer in the state before.
`RepeatGoesOn` needs `RepeatOnlyWhileHeld` for one case: a key that is pressed
while a repeat runs is not the one that repeats, since that one is down already,
so what ends is the repeat of another key.

**Pointer.** `IInv` is the types, `NothingPending`, `NoStrayPointer` and
`NoFrameBefore5`: on a pointer that knows no frame events every axis event is
flushed by itself, so there is never a frame under way that a lost pointer could
break off. Only from version 5 on does `NothingPending` need the compositor's
good will (`Pending`), so types and proxies are proved without it. For clicks it
takes `Placed`: the position is right while the pointer is on the surface. The types need that each event leaves the record of its axis well-formed
(`GatherType`) and that a flush leaves nothing (`FlushResets`).
`EachFrameTold` compares the accumulators of the code with sums over the frame's
events. `Gathered` says that they agree after every event so far; a frame that is
one event longer has the same sums up to there (`Counts`), which takes an induction
over the length. The library's induction theorems take an operator as a parameter, so
`Least` and `Induction` obtain it from the well-foundedness of the naturals, for
a set of numbers. A source event counts for the frame only if an axis event is in it
(`Touched`), and `Known` keeps value120 out of versions that lack it.

**Event loop.** `IInv == TypeOK /\ Phases /\ OvertakenSoFar`. `Phases` says for
each place of the loop what is already known there. From the flush to the wait the
default queue is empty unless `leftover` says otherwise (`QueueEmpty`), so no
handler runs there, and neither unsent requests nor a raised stop flag can appear;
after the poll there is something in that queue only if a callback of this pass
has read the socket (`taken`). What the poll said of the Wayland descriptor
stays true until it is acted upon, or somebody takes from the socket
(`VerdictHolds`). `OvertakenSoFar` refines the bound of two by phase: before
the poll a source has at most one callback on its account, after it two only if the
poll saw the event, and then the dispatch comes next; and when a callback has
emptied the socket, what waits came after that.

**Touch.** `TableInv == TypeOK /\ OnePlacePerContact`: without the second part the
swap in `Remove` could leave a twin behind, and the table would not be a set.
`AllTold` adds that the App was told of what the table has; the converse is
false, since a contact beyond the cap is down and untold. `MirrorInv` adds that the table is a subset of what is down, and all of it while
there is no crowd: "no crowd" must count contacts, so the cardinality lemmas of
the library come in there.

**Roundtrip.** `CallbackInCall`: the callback exists only while the call is on the
stack, so a marker that comes later finds nobody, whoever dispatches it.
`TimeSpent` splits the time by phase: every poll that was woken cost at most one
timeout, and the one under way has cost `waited`. The products are kept behind
`TimeOf`, whose one fact, `OneMorePoll`, is all the steps need.

**Cursor.** What the manager holds (`HeldShape`), what the App wants of it
(`WantedShape`) and what the compositor shows (`OnScreen`) agree only as far as the
App was told of the last enter, through the `wl_pointer` it still has (`Told`). While
the pointer is over the App, either that is so or the queue still makes it so:
`Settled` looks for the last event in the queue that matters and says that nothing
after it undoes it. It speaks of every position of the queue, and has a
lemma each for what appending an event and taking the first one do to it. That
nothing dangles is not proved, since it is not so (section 4); what `HeldShape` says
is how far `pointer_` and `cursor_` can be behind.

**Presentation.** `Owned` pairs the slots that are not free with the objects that
are not destroyed, in both directions, so that an answer finds the slot of its own
frame. `NotAnsweredTwice` does the same for the answers under way: they are to
different frames, none of them resolved. `SlotsInStep` ties the state of a slot to
whether its frame was answered; from it, and `LiveCounted` (as many live slots as
outstanding frames), follow the steps of `Feedback`, whose bound is a cardinality.

**Slots.** `InOnePlace`: a slot is free, or held, or in one release that is on its
way. On the path with points a signalled point stands for all before it, which is
harmless only as long as the compositor holds at most two slots, hence the
assumption; the configuration with three slots in section 4 shows it is needed.
`SceneInv` needs no such thing: what a slot lacks is on its own record or has
changed since the last commit (`OnRecord`), and what changed since the last commit
is in the damage of the next frame unless that frame draws everything (`Pending`).
`FrameComes` counts the ring: `Accounted` says that every slot that is not free is
held or in a release that is on its way, and `Coming` where the frame callback is:
committed and with the compositor (`Awaited`); in the queue, once, and behind the
release of the slot that its commit replaced unless it came early (`Sent`); or, only
if it came early, requested again and not committed (`Dropped`). So when one that
was not early is dispatched only the slot on screen is busy, and the next one, one
further round the ring (`AfterLast`), is free.

**Clipboard.** The client acts on events that are old when it sees them, so the
invariant `QInv` is about the channel: what each event in flight will find when its
turn comes. The ids of offers only grow (`Fresh`); an announcement comes behind the
introduction of its offer with no other introduction between, so it finds it in the
pending slot (`Follows`, `Adoptable`); and the last announcement in flight, or the
slot when there is none, is what the compositor has now (`Catches`). Appending to
the channel and taking its head have a lemma each, and everything the compositor
does is one of four ways of growing it (`Posted`). For the App's own offers,
`Believed` says that the source the client holds is believed in, and `Standing` that
it has the selection already, is going to claim it, or is going to be told that it
lost it (`Bid`). With two selections this is false: both use the one source, so
the second offer destroys what the first one claimed
and no cancelled comes; `MC_DataDevice_told` is the counterexample.

**DMA-BUF feedback.** A handler sees one event at a time and knows nothing of the
advertisement it is part of, so the invariant is about the events in flight:
reading them to the end leads, commit by commit, through the snapshots the
compositor described (`Leads`). It is stated for a reader that has every table
(`Reading`); `Gathered` ties the handler's members to that reader, or to what it
has with all formats taken out (`Bare`) once a table could not be mapped. A new
advertisement only adds to the end, and that its own events lead from one snapshot
to the next (`StreamRead`) is shown batch by batch and tranche by tranche, each
list by induction on its length (`Least` and `Induction`, as for the pointer). That
the parts of a flattened list come one behind the other (`Flattened`) is the one
fact about `FlattenSeq` this needs. Below version 4 nothing is committed until
the App says so, and the events still to come complete what was gathered
(`Legacy`). `StartOnce` is needed: two feedback objects write into one snapshot.

**Programs.** The theorems about `Client` are about programs nobody has written
yet, of which only the shape is assumed (`ProgramsAssumption`: destructors do not
fail). Whatever steps a program has and whatever fails, it behaves if its text passes
four tests that look at one routine at a time (`Review`), as a reader of the code
would. `Absent` and `Present` are the reasons for which such a reader believes that
an object is, or is not, there at a step: the step asks for it; the routine started
with or without it and no step in between made or destroyed it; or an earlier step
made or destroyed it, and that step ran if this one does (`Settled`: its condition
is part of this one's, and did not change in between). What a handler may count on
is what its event is for and what the setup leaves there wherever it ends
(`Standing`). The invariant `PlaceInv` says that a program is at some step of its
routine (`At`), and `Known` what holds there: for each step that is behind,
what it made is there and what it destroyed is not, unless it was `Denied`, which
still shows in what is there now, up to what was made and destroyed since. A
step that runs adds to this (`KnownOn`), and those that are passed over do not take
from it (`KnownIdle`); the reasons of the reader are then sound (`PresentIsThere`,
`AbsentIsNotThere`). For `LeavesNothingBehind` the teardown is looked at from its
end: when the connection goes, all that any step could have made has been dropped,
unasked, by a step before, or nothing was made since the connection never came
(`Closed`).

The tests are sufficient, not necessary. Of the twenty-four programs all pass
`DestroysInOrder`, all but three (`presentation_shm`, `sdl3`, `imgui`) pass
`UndoesAll`, and all but five (those with an entry in `remakes`, and `skia_shm`) pass
`CreatesAfresh`; ten pass `NeedsNothingMore`. A program that passes needs no entry in
`MCFlaws`: the theorems conclude that there is no exception. Of those that do not pass,
some have the flaw, and the others rely on two objects that come together, such as a
pool and the size it was made for, which no single routine shows. For those the
statement is what the run `apps` finds. `Reviewed`, in `MC_Client`, is that list,
which `MC_Client_review.cfg` evaluates.

**Left to TLC**: liveness under fairness (`SourcesServed`, `StopEnds`, `Returns`,
`EveryFrameResolves`) and `ENABLED`, which this prover cannot handle; the
refutations of section 4; and, for the programs that do not pass a test of `Review`,
what it would have shown.

## 6. What is not modelled

- **Scanner** (`src/`): it translates text to text and keeps nothing between two
  protocols. Whether it is right lies in the characters it prints, which is what an
  abstraction would leave out.
- **Input method back-ends** (`ime/`): which of the requests take effect is decided
  by the compositor's side of three protocols whose text is not part of the
  repository; a model would have to invent the half that matters. The program that
  holds a back-end is modelled.
- **Fractional scale policy**: arithmetic on doubles, with a table of test vectors.
- **Display connection and small resource types**: wrappers whose state is one handle.
- **The minimal example**: generated code at both ends of a socket.
- Within the modelled parts: key symbols and modifiers (libxkbcommon), the bytes of
  transfers through pipes (`ReadAll`, `WriteAll`), `CreateParams` and the
  descriptors it passes, drawing, hit tests, the loading of plug-ins, and what the
  programs print. In the programs, which buffer is busy is not told apart: that is
  the subject of `Slots`.

Failures of libwayland's allocation are modelled where a handler or a program
reacts to them, and left out where it would crash either way.

## 7. Plan

1. `Names` and `WireFormat` of the scanner as functions over bounded inputs, against
   reference definitions.
2. The text-input back-ends, once the compositor's side can be read from somewhere.
3. A test for objects that come together (whenever the one is there at an event, so is
   the other), so that more programs pass `NeedsNothingMore`.
4. The busy flags of the shm programs: a pool with the retired one beside it
   (`xdg-csd`), in the manner of `Slots`.
