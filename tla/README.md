# Formal verification of zoompilot

TLA+ specifications of the parts of zoompilot (a fork of openpilot/sunnypilot)
whose correctness lies in the order of things: the engagement state machines,
the protocol that ends a drive, the params store, the upload queue, software
updates, video segments, the set speed and its speed-limit session. TLC checks
them on small instances; TLAPS proves their safety properties for every instance.

Paths below are relative to `src/openpilot/` unless they start with `src/`.

## 1. The system

zoompilot is some forty processes on one device. They talk over a publish and
subscribe transport (cereal messages over msgq, lossy: a reader sees the latest
value) and over the params store, a directory with a file per key. `manager`
starts and stops the processes as the device goes onroad and offroad, which
`hardwared` decides. While onroad, `card` runs the car's interface at 100 Hz,
`selfdrived` decides at 100 Hz whether openpilot drives, `modeld`, `plannerd`
and `controlsd` compute what it does, `pandad` moves CAN frames over USB to the
panda, whose firmware has a safety model of its own and may refuse them.

| Component | State it keeps | Operations | Interacts with | What is hard | What makes it correct |
|---|---|---|---|---|---|
| openpilot state machine (`selfdrive/selfdrived/state.py`) | state, soft disable timer, alert types | `update(events)` once a frame | selfdrived; MADS shares the timer and the alert types | the priority of event types; a timer two machines write | a disabling event disengages in its frame; the driver has the whole soft disable |
| MADS (`sunnypilot/mads/`) | a second machine for lateral alone, mismatch counter, cached toggles | `update_events`, `data_sample`, `update` once a frame | reads and edits selfdrived's event lists | some fifteen rules that add, replace and remove events, each seeing what earlier ones left | lateral starts on its own requests only, ends with the brake and ACC main, comes back when its pause's cause ends, goes with an alert |
| selfdrived frame (`selfdrive/selfdrived/selfdrived.py`) | init gate, counters, previous car state | `step` at 100 Hz; a params thread | everything onroad | the order of sampling, events and machines; toggles switched under way | neither machine outlasts the panda's refusals |
| car events (`selfdrive/car/car_events.py`) | none | events from the car state | card, selfdrived | pedal edges against levels | |
| stock ECU hand-back (`sunnypilot/selfdrive/car/stock_ecu_handback.py`) | per gate the id it waits for and a deadline; the server's request and answer | gate `ready`, `reset`; server `update_params`, `update` | hardwared, manager and card through two params records | three processes that read and write records without a lock; late answers, timeouts, a dying card | no drive is ended over an ECU still silenced; every stop asked for comes |
| forced offroad, onroad cycle (`sunnypilot/system/hardware/hardwared_ext.py`) | two requests, one gate | `update` once a hardwared loop | UI, hand-back | a withdrawal racing the completion; two stops sharing a gate | |
| hardwared (`system/hardware/hardwared.py`) | onroad conditions, started | the loop at 2 Hz and on pandaStates | manager, pandad, UI | ignition edges racing software stops | |
| manager (`system/manager/`) | running processes, started_prev | the loop, `ensure_running` | everything | crashed processes; shutdown while processes start | |
| params store (`common/params.cc`, `common/queue.h`) | a directory of files; a queue and a worker per object | `put`, `remove`, `clearAll`, `putNonBlocking` | every process | failing calls, kills and power loss between any two system calls; a worker that ends while it is started | a power loss leaves a whole value no older than the last report; writes land in order |
| athena uploads (`system/athena/athenad.py`, `sunnypilot/sunnylink/athena/sunnylinkd.py`) | a queue, the set of cancelled ids, what each handler uploads, a persisted copy | `upload_handler` threads, `uploadFilesToUrls`, `cancelUpload`, `listUploadQueue` | the server; each other, over one param | threads without a lock; retries, aborts, reconnects, restarts | an accepted upload is in one place until it is settled; a cancellation sticks |
| cruise arbiter and ICBM (`sunnypilot/selfdrive/car/`, `selfdrive/car/cruise.py`) | the set speed; a session (disabled, inactive, preActive, active) with its cap, timers and presses; two sets of button timers; a latch; the reconciler's window | `update_v_cruise` and `initialize_v_cruise` once a card frame; a params thread | card, the resolver in plannerd, the stock ECU | one press read by four counters (classifier, stepper, reconciler, latch); the dash's delayed answer; limits that change, go and come back under a prompt | a press is stepped once or not at all; no press makes the car faster by accident; a dismissed session stays so; ICBM never undoes a minus |
| model startup (`sunnypilot/selfdrive/selfdrived/model_startup.py`) | one-shot load window | once a frame | modeld, selfdrived | a window that must end | |
| driver monitoring (`selfdrive/monitoring/`) | awareness, counters, lockout | 20 Hz | selfdrived | thresholds over counters | |
| video segments (`system/loggerd/encoderd.cc`, `loggerd.cc`) | encoderd: the common start, each camera's segment; loggerd: its segment, counts and marks of encoders that have rolled over, offsets, queues | a frame; a packet; a rotation | camerad, over a socket per encoder | encoders roll over apart, packets come late, frames are dropped, a camera dies, a fallback rotates by the clock | cameras agree on the segment of a frame; no frame is lost while they live; the log goes on with the last encoder |
| uploader, deleter (`system/loggerd/`) | segment directories, locks, attributes | upload, delete | loggerd, athena | listing and acting at different times; crash between upload and mark | nothing is deleted while written |
| updater (`system/updated/`, `src/launch_chffrplus.sh`, `common/hardware/comma/agnos.py`) | an overlay, a finalized copy with its flag, two slots of the system, the branch and request asked for | check, fetch, flash, finalize; the swap at boot | manager, launch script, interface, server | loss of power at every step; signals at any point of a turn; local work under the overlay | only a whole version, with its system, is installed, and in one step; local work is never replaced; new versions are offered in the end |
| model manager (`sunnypilot/models/`) | bundles, download state | download, verify, activate | UI, manager | a crash or cancellation during a download | |
| accelerator link (`sunnypilot/jetlink_adapter/`) | link state | connect, serve, shut down | modeld, hardwared | external device coming and going | |
| wifi manager (`system/ui/lib/wifi_manager.py`) | networks, connections, callbacks | D-Bus signals and requests | UI | signals against requests | |
| controls, localization, models, cameras, sensors, navigation, UI | numbers, tensors, pixels | | | | numeric: out of reach of TLC |

`PROJECT.json` lists every component with its status, and under `hazards` what
in this code is hard to test, at its line, with the properties that cover it.

## 2. Modules

| Module | Models |
|---|---|
| `Events` | the event types of an event, of events that stand for their kinds (`events.py`) |
| `SelfdriveState` | openpilot's machine as functions of state, timer and events |
| `MadsState` | MADS's machine likewise, over the same timer |
| `Mads` | `update_events` and `data_sample` of MADS as functions of the frame |
| `Selfdrived` | the state of the process; one frame is one action, the params thread the other |
| `SelfdrivedHistory` | history variables over it, and the properties that need them |
| `Selfdrived_proofs` | the properties of `Selfdrived`, and over the same invariant those of `SelfdrivedHistory`, proved |
| `HandBack` | the hand-back: hardwared, manager, card, their records, the ECU and the user |
| `HandBack_proofs` | its safety, proved |
| `ParamsStore` | the directory: put, remove, clearAll, the lock, failures, kills, power loss |
| `AtomicStore` | what it promises its readers: whole values, changed in one step, not taken back |
| `ParamsStore_proofs` | its durability and that it implements `AtomicStore`, proved |
| `ParamsQueue` | the asynchronous writer of one Params object, over puts that are atomic |
| `ParamsQueue_proofs` | the order of its writes, proved |
| `AthenaUploads` | the upload queue, its threads, the persisted copy, the processes' lives |
| `AthenaUploadsMC` | an instance of it for TLC |
| `AthenaUploads_proofs` | that no upload is lost or doubled and what a cancellation stops, proved |
| `Updater` | updated's turns, the launch script, the slots, what a loss of power may leave |
| `Installs` | what updates promise: one whole published version, changed in one step |
| `UpdaterMC` | an instance of `Updater` for TLC |
| `Updater_proofs` | its safety and that it implements `Installs`, proved |
| `Cruise` | a frame of card's set speed: arbiter, helper, stepper, reconciler, latch |
| `CruiseMC` | the inputs that change, for a car of each kind |
| `Cruise_proofs` | the properties of `Cruise`, proved |
| `Segments` | encoderd's threads, their sockets, loggerd's rotation |
| `SegmentsMC` | an instance of it for TLC, up to the symmetry of the cameras |
| `Segments_proofs` | that the log keeps step with the encoders, proved |

A `.cfg` gives one run. Definitions named `...Mutant...` are small
deviations that a bug in the code would amount to; `PROJECT.json` pairs each
with a property that notices it. `PROJECT.json` "map" gives the source lines of
each definition.

### 2.1 Selfdrived

`Frame(in)` is `SelfdriveD.step`: sample (`Mismatch`, `LateralMismatch`),
gather events (`CarStateEvents`, `SystemEvents`, `SdEvents`), run openpilot's
machine (`NextState`, `NextTimer`, `AlertTypes`), let MADS edit the event lists
(`MadsEvents`) and run its machine (`MadsNext`, `MadsTimer`, `MadsAlertTypes`).
Before the init gate opens (`initialized`) neither machine runs. `in.hap` is the
set of what happens in the frame; `in.speed` is the car's. The unprimed
`enabled` is what the code keeps as `enabled_prev`.

- A frame is atomic: the only other thread of the process is the params
  thread, it writes one toggle at a time, and a frame reads each toggle at most once.
- The toggle cached at start (`disengageOnAccelAtStart`) and the live one are
  two variables, as in the code.
- Events stand for their kinds: of the hundred events of `events.py` those that
  MADS names are kept, and of the others one for each combination of types.
  An invalid CAN frame
  (`canError`) suppresses every event of the car.
- `CruiseLossComesAlone`: speedTooLow and cruiseDisabled never come in one frame with an
  engagement that nothing else refuses. `CarEvents.update` (`car_events.py:44-92`) raises
  them where it does not raise pcmEnable, or with an event that refuses it. Without
  that fact LateralLossAnnounced is false; its proof showed the gap.
- What an alert of a soft disable has told the driver is `warned`: MADS's own machine may
  be in a soft disable that showed none (section 3), so its state alone does not say.
- Left out: events of type WARNING and PERMANENT only, chimes, `lateral_held`,
  cruise's resume block, the mute of a missing CAN bus, passive and replay
  modes, cars that are not cars, and the toggle that switches MADS off.
- The panda is an environment that may refuse in any frame.

### 2.2 HandBack

`gate`, `opening`, `removing` are the gates' state; `request` and `result` the
two records; `cardReq`, `asserted`, `answered` the server's. `Open` chooses the
id to join or to begin, `PutRequest` writes it, in a later step: other
processes come between. `_open`'s two reads are one step; `reset`'s read and
removal are two. card's answer is queued (`writes`) and lands later. The ECU
(opendbc, external) goes silenced, restoring, restored or failed, and "lost"
when nobody drives it; "silenced" stands for every state of a takeover.

`Owed` models time: `HANDBACK_WAIT_T` is longer than what a card that is alive
and unhindered needs, so the timeout fires only when card is dead, hindered by
an engaged driver, or has a request of another id. card serves the hand-back only once
initialized and while carControl is alive (`card.py:278-294`); that guard is left out, so
a card alive whose controlsd is dead is not told from one that answers. `Prompt` models that a put,
and a queued write, take less than the tenth of a second between two polls of card's. Loops see every edge of `started`, since a cycle stays
offroad for a second.

### 2.3 ParamsStore and ParamsQueue

The system calls of `put` and `clearAll` are actions. `may[k]` is the set of
files a power loss may leave for `k`: a rename or an unlink adds to it, an
fsync of the directory, by whoever, makes it a singleton. A file renamed before its own
sync would be `Torn`. `allowed[k]`, kept for the property only, is the value a
caller was last told and those written in its place since. Any call may fail
(`Fail`, `UnlinkFails`, `RemoveFails`), any thread be killed (`Kill`), the power
go (`PowerLoss`). The lock is modelled as taken: `FileLock` only logs a
failure of `flock`, and nothing is promised then. Readers take no lock and see `dir`.

`AtomicStore` is the abstract specification: a key's value is written in one step,
confirmed, or chosen by a loss of power among those kept. The mapping:
the value of `k` is that in `dir[k]`, and those kept are `allowed[k]`. A rename and an unlink are
writes, the sync of the directory a confirmation. Every other step, whether it fails or is
cut short, changes nothing a reader sees.

`ParamsQueue` takes each put as one step and models `putNonBlocking`: push,
then a look at the future, then perhaps a new worker. A future is ready only
when its thread has returned (`Returns`), one step after it found the queue
empty (`Pop`): the gap by which a write may stay queued (below). One thread calls it:
`putNonBlocking`'s look and its start of a worker (`params.cc:232-233`) take no lock, and
two threads of Python may be in them at once. Blocking puts beside it are outside.

### 2.4 AthenaUploads

Each thread is at a `pc`. A handler gets an item (`Get`), makes it its current one
(`Assign`), looks at the cancelled set once (`SkipCancelled`, `Pass`), and only then at
the item's age and the network (`Expire`, `Metered`), and begins to send (`Attempt`):
cancelUpload may run in between. `late`, for CancelSticks, are the uploads begun after
their report. The queue is
listed and written to the param in two steps (`Snapshot`, `Save`), by handlers and
by callers, which makes lost updates of the param possible. Connections are lost and
made again (`Drop`, `Join`, `Connect`): handlers end, the queue stays. A
crash loses all but the param. With two daemons the two processes share `disk`.
Left open: the order of the heap and priorities; one file per call; an id is
drawn with the call; a param write succeeds (its failures are ParamsStore's). A dead local is
reset at the loop's head so that states do not differ by it.

### 2.5 Updater

`pc` is where updated's turn is; each of its file operations, syncs and git
commands is a step. `mayFinal`, `mayFlag` and `maySlot` are what a loss of power
may leave of the finalized directory, of its flag and of the other slot; an
`os.sync` makes each a singleton. `PowerLoss` takes any of them. The launch
script's swap is two moves, between which BASEDIR holds nothing and
`old_openpilot` the old version (`phase = "moving"`). `Edit` is local work with git at
BASEDIR, which the look for files in .git newer than `.overlay_init` notices; other work
nothing looks for, and the model has none. Any command may fail, or leave half of what
it does (`Failures`): in init_overlay before, within and after the mount, in
set_params at either end of a turn, in the check, at each step of the fetch. `asked` says
that a request awaits a check, `brokeOff` that a turn failed before its check
(`BreaksOff`) and none has been tried since. The interface
asks (`Ask`), chooses a branch (`SelectBranch`) and reboots
(`RebootForInstall`); `Onroad` is the manager ending updated. `Publish` is a
commit on the server.

`Installs` is the abstract specification. The mapping: what is published is what
the server's heads have reached; what is installed is BASEDIR, or `old_openpilot`
between the moves; what is ready is the finalized version under its flag.

Left out: an invalid clock, which has every turn end as the first does, the migration of old branch names,
git's children that outlive a killed updated, release notes and alerts.

### 2.6 Cruise

`Frame(in)` is a card frame: the button timers (`Timed`), the latch
(`LatchAfter`), the enabled that waits for the engaging button (`LongEnabled`),
the arbiter (`Step`: `Classify`, the timers, `Machine`, `Published`), the stepper
(`SetSpeed`, `Incremented`), and the reconciler (`Reconciled`), in the code's order.
The arbiter's step is a composition of functions on a record `s`, since within
a frame a later rule sees what an earlier one wrote. `kind` chooses between a car
whose set speed openpilot keeps ("openpilot"), one with a stock cruise ("stock") and
one that hands its session to plannerd when ICBM leaves ("alpha").

- Speeds are whole display units, the finest the code compares after rounding.
- A button timer wraps between multiples of the long press, all its readers tell apart.
- One input changes per frame, alone or with a button, or two buttons do; one
  button is held at a time, as on the rocker switch of these cars.
- `enabled` is taken every frame; card's copy of it waits for carControl to be alive
  (`card.py:278-284`).
- The stock ECU's set speed moves by any amount up to a long step: ICBM's
  servo, its presses and the driver's are all within that.
- Left out: custom increments, ICBM's servo, plannerd's own session machine, the
  unset of a cruise speed of -1, a switch between miles and kilometres.

### 2.7 Segments

`Encodes(c)` is a frame of a camera's thread: roll over if it is time, encode,
publish. Before that, `sync_encoders` is three steps (`FindsOthersMissing`,
`PutsOffStart`, `Counts`), since its two atomics are read and written apart;
`AwaitsStart` skips the frames before the common start. loggerd takes one packet
a step: `Writes`, `Queues` and `Recounts` are the three cases of
`handle_encoder_msg`, each with the `rotate_if_needed` that follows, and
`HearsOthers` is that call after the message of another service. `encoded` and
`recorded` are kept for the properties only.

- `start_frame_id` is read once for the start and the roll-over of a frame, twice in the
  code (`encoderd.cc:47`, 135). A frame that fails to encode is one that is skipped.
- Time is counted in frames; the cameras are synchronised, and frame i is taken
  at clock i. A thread or a socket is at most `Skew` frames behind (`Tick`).
- Other services' messages come many times a frame, so a rotation that is timed out
  is not put off beyond the frame.
- There is more than one camera (with one, no thread waits for another), and every
  camera's thread is there when `encoders_ready` is compared, as `max_waiting` says.
- The cameras begin at one frame, `Firsts` after loggerd's start; the wait
  for subscribers (`encoderd.cc:124`) is part of that.
- A camera has one encoder, recorded, without audio. Left out: what is not video, the
  preserved segments, a restarted encoderd.
- A dropped frame (`Skips`) and a camera that stops for good (`Dies`) are mishaps.

## 3. Runs and what they show

Passing runs:

| Run | Question | Bounds, and why they are enough |
|---|---|---|
| MadsPause | With ACC main the only switch and pause-on-brake: does lateral end with the brake, main and the car's lane keep, wait out the brake, return when its cause ends, and is its end announced? Is openpilot's soft disable whole, though MADS writes its timer? | any 2 of 16 happenings a frame at two speeds, in any sequence of frames; a soft disable of 3 frames, so that MADS may enter before, within and after openpilot's; the toggle "unified" switched live |
| MadsButton | With a declared MADS button and disengage-on-brake: does lateral start on request only, does what concerns cruise leave it alone, and do engagements, pauses and resets ever keep a refusal counter from its limit? | any 2 of 15 happenings; refusal limits of 2 frames, enough to count, be reset and expire (the real 200 changes the count only, and the theorem has no bound) |
| HbStops | Is any drive ended over an ECU still held? Is one hand-back in flight, has every request a waiter, and is every reboot carried out? | 4 stops asked for over several drives: two gates joined, and one that begins after each; ECUs that need a hand-back and ECUs that do not |
| HbServed | The same with forced offroad withdrawn and asked again, and ignition edges; do cycles and forced offroads come about? | 3 stops, any number of withdrawals and ignition edges |
| PsDurable | After a power loss at any step, is every key whole and no older than reported? Is the store, to those who read it without the lock, one whose keys change in one step? | 2 threads, 2 keys, 2 values: a race needs two threads, a clear of several keys two; the theorem has no bound |
| PsOrder | Do non-blocking writes land in order? | 2 workers, since the question is whether there is ever a second; 5 writes, so the worker ends and is started several times |
| Uploads | Is every accepted upload in one place until it is settled, does no cancelled upload pass a check, and is every upload settled, with athenad and sunnylinkd over one param? | a handler each, 1 caller, 1 upload, 1 retry, a lost connection and a crash of either process at any step; the queue's order is free. Two handlers and a caller are enough to race over an item, and a crash on one side leaves the other writing the param |
| UpdInstall | Is only a whole version installed, with its system, in one step, over the git it was built on? Are requests heard and new versions offered in the end? | 2 branches, 1 commit after the first, one local change, one mishap (a loss of power, a kill or a failing command at any step), 2 signals: each hazard takes one mishap, a second would strike a state the first has left, which is a state of the start |
| CruiseOwn | On a car whose set speed openpilot keeps: does a press ever make the car faster by accident, or count twice? | set speeds 1 to 3, limits 1 and 2 (both below, at and above the set speed; one above and one below the confirm threshold), an offset to them switched between 0 and 1, long presses of 3 frames against the arbiter's 2, prompts of 2 |
| CruiseDash | On a car ICBM steps: is the dash taken for the driver's answer only when it is? Does a dismissal stay, and a minus stay slower? Do the timers survive ICBM's coming and going? | dashes 1 to 3, one limit between, lost and found again, ICBM switched under way, a limiter at any frame |
| Rotation | Do two cameras' threads, started together, and loggerd agree on the segment of every frame, lose none, and rotate with the last? | segments of 7 frames and 22 frames in all: a start, three rotations or two forced ones; a dropped frame or a dead camera at any step; cameras that begin with the log, and some after its first segment, when the log has rotated without them. Three cameras that begin at frame 1 pass too (773,000 states), but take too long for a run |

HbServed has no reboot together with withdrawals: a withdrawal removes a
request the reboot has joined (below), and EndsHandedBack fails with them. CycleServed and
OffroadServed except a failed hand-back that a forced offroad holds, as the code means it to.

Every safety and action property of these runs is also a theorem of section 4, with
the hypotheses named there. Model-checked only:

- StopServed, CycleServed, OffroadServed, Settled and NewestOffered: liveness, which
  with fairness and ENABLED is beyond the prover.
- What Whole and RotatesWithTheLast say once a rotation has been forced: Rotation
  checks it for the starts and the mishaps of its instance. In general both are
  false then (below), so the theorems leave those behaviours out.

Fairness. HandBack: the loops of hardwared, manager and card run, a queued
write is written, the ECU answers (weak fairness; none for its late recovery
from a failure), and the clock of a wait does not stop while an engagement
comes and goes, so a timeout that is due again and again fires (strong). Nothing
is assumed of the driver. AthenaUploads: threads run, a request ends by an
answer or its timeout, connections come back, manage_athenad restarts the
process, the network is not metered at every check nor every attempt aborted.
All are loops with timeouts in the code. Updater: updated's loop and the boot
run on (weak), and a check that would go on to fetch is not for ever stopped by a
metered link (strong; three days without a fetch override it). The bounds end
the mishaps, so NewestOffered is about a device left in peace after any of them.
The specifications of the other modules have no fairness and only safety is
checked: Cruise's promises are about single frames and their order, and in
Segments what must come about is said of states in which every packet is read.

Deadlock is checked except where the system may stop: HandBack ends with the
manager, ParamsQueue with its object, AthenaUploads rests when all asks are used,
and Updater when updated sleeps with nothing left to happen. Cruise's frames
never stop; its runs leave the check off to save its cost. Segments stops at the
bound of its clock.

### Findings

Each is a run TLC must find violated, whose property states what a comment, an
assertion or a test of the repository says. PROJECT.json quotes the lines.

| Run | The code says | The code does |
|---|---|---|
| FindDropout | a session survives a limit the map loses (`test_cruise_arbiter.py:210`) | a limit of 0 with its last value valid counts as changed (`cruise_arbiter.py:144`): below the confirm threshold a session under a higher set speed is thrown into a prompt for the limit it holds, and unanswered it ends and the car goes back to the set speed |

Seen while modelling, and without a run of their own:

- MADS sets the shared soft disable timer only while openpilot is not engaged
  (`sunnypilot/mads/state.py:96`), though its comment (73) relies on it being reset, and shows the
  alert only then: entering while openpilot is pre-enabled, MADS lets go a frame later and
  the driver sees nothing of it. LateralLossAnnounced excepts that case by name
  (`ss = "preEnabled"`), and fails without the exception.
- The MADS button in the frame of a pause (`sunnypilot/mads/state.py:81`) turns the driver's
  disable into a pause that resumes by itself; mads.py:127 says the disable wins.
- `mads.disengage_on_accelerator` is read at start only (`sunnypilot/mads/mads.py:54`): the
  toggle switched while driving makes the accelerator pause lateral.
- The exit button pressed as a hand-back completes (`sunnypilot/system/hardware/hardwared_ext.py:81`)
  leaves the request on file with no gate to remove it, for the rest of the drive.
- A gate also times out with card alive, while the driver stays engaged (`stock_ecu_handback.py:112`
  against 29-30).
- An answer that lands later than a poll of card's may answer the next request
  of the same id (`stock_ecu_handback.py:143` against 21); the model's `Prompt` rules it out.
- A cycle beside a forced offroad is held on a failed hand-back (`hardwared_ext.py:89` against 88).
- Under disengage-on-brake the brake is to block an engagement of the same frame;
  `sunnypilot/mads/mads.py:228` asks for an event where a type is meant and is never true.
- The exit button removes a request the manager's reboot has joined
  (`stock_ecu_handback.py:121`; the comment at 120 says only one nobody else waits on),
  and the reboot waits until it cuts off the ECU.
- A write pushed while the worker returns stays queued (`common/params.cc:232`), against
  the destructor's assertion (103).
- A cancelled upload comes back after a restart: `cancelUpload` does not write the
  queue again (`athenad.py:711`, against `test_athenad.py:434`).
- Two RPC workers may queue one file twice (`athenad.py:668` against 666).
- A cancellation reported after the handler's one look at the set (`athenad.py:295`) does not
  stop the upload, which is then begun (322). CancelSticks says what is left: it passes no
  later check, and is begun once at most.
- athenad and sunnylinkd overwrite each other's queue in one param (`sunnylinkd.py:289`).
- `set_params` writes back the branch it has read, over one chosen in between
  (`updated.py:264`).
- A request that comes during a turn is erased at its end (`updated.py:499`); the next turn
  only checks.
- A turn that fails before its check drops the request all the same (`updated.py:499`), and where
  no turn before has failed sleeps for an hour and a half (500): the failures are counted
  only after `set_params` (459). HeardBeforeSleep excepts such turns (`brokeOff`).
- A signal before the first turn has cleared the event (`updated.py:443`) does not cut short
  the minute's sleep of that turn (456); the request is kept for the next.
- Local work with git is replaced. It stops the launch script, but the next turn of
  updated makes an overlay over it (`updated.py:129-163`), the fetch checks the branch out by force
  and cleans the tree (383-386), and that copy is installed, where
  `src/launch_chffrplus.sh:40-42` says such work "should not be overwritten". BuiltOnBase says what
  does hold: no install undoes work newer than the overlay it came from. Files edited
  without git are not looked for, and go with the next install.
- After a failed check `.overlay_init` is gone and UpdateAvailable still set (`updated.py:485`):
  the install button's reboot installs nothing.
- A loss of power between the two moves of `src/launch_chffrplus.sh:60` leaves nothing at BASEDIR.
- A signal before updated's handlers are installed ends it (`updated.py:54`).
- The floor of a minus press is dropped when a prompt is open as the dash settles
  (`cruise_ext.py:220`), and ICBM then steps back up.
- A press in the very frame the limit or its offset rises re-anchors to the new one
  (`cruise_arbiter.py:193`): the session ends and the car goes faster. FasterForCause
  names the offset among the causes.
- A limit below V_CRUISE_MIN: the press's re-anchor to it is clipped up to V_CRUISE_MIN
  (`cruise_ext.py:250`), so the press that ends the session makes the car faster.
  The theorem about FasterForCause excepts such limits; no limit of CruiseOwn is one.
- A new offset moves an active session without prompt or announcement: only the limit
  itself is compared (`cruise_arbiter.py:144`).
- An answer in the frame of a new limit is prompted for again (`cruise_arbiter.py:285`).

- A forced rotation leaves an encoder with segment n >= 1 behind; the new offset (`loggerd.cc:191`)
  fits only an encoder that counts from 0 again, as the comment (190) has it. Its packets then
  count as 2n + 1 and its video is lost for the rest of the drive.
- Cameras that come up as the log is about to rotate without them, or a fallback
  (`loggerd.cc:45`) while one encoder has rolled over and another has not, get offsets that
  differ, and their files are a segment apart. Whole fails with such `Firsts`
  (11 to 14 of segments of 7), which the run leaves out.
- A camera that dies stays in `max_waiting` (`loggerd.cc:128`): from then on the log rotates by the
  fallback, every 72 s, while the others roll over every 60; the queue (183) holds
  less than such a wait, and the lag grows with each segment.
- `encoders_ready` is read and the start put off in two steps (`encoderd.cc:37`, 39): a
  camera may begin some frames before the others (`test_encoder.py` asserts one first
  frame for all). A camera that streams no frame blocks the recording of all.

## 4. Proofs

Each module of proofs begins with an inductive invariant, a conjunction of named
parts; `Invariance` (of the history variables `HistoryInvariance`, in
`HandBack_proofs` `IdsInvariance`, in `Segments_proofs` `LogInvariant`) proves it of the
specification by one step for each action. The properties follow from it, those of single steps together with
the action. The constants are as free as the `ASSUME`s of each module say; where a theorem
needs more, its hypothesis is in its statement and named here.

### Selfdrived

For every steering mode, set of happenings, toggles and counter limits
`Selfdrived_proofs` proves TypeOK, MismatchDisengages and BrakeHoldsPause. The invariant is
`IInv == TypeOK /\ Coherent /\ MismatchDisengages`. Coherent says
`enabled` and `madsActive` are what the machines' states say, that both
machines are disabled before the init gate opens (else a frame before
the gate, in which no machine runs, would carry an engaged machine past the
limit), and that lateral refusals are not counted while openpilot is enabled.
A counter at its limit raises its event (Counters, LateralMismatchRaised), and
the event leaves the machine inactive whatever else the frame holds
(ControlsMismatchDisables, LateralMismatchDisables). The lemmas that the other
proofs share say what MADS's editing of the event lists keeps and adds, rule
by rule. Assumptions: the limits and the soft disable time are positive naturals
(`SelfdrivedAssumption`, `MadsAssumption`, `SoftDisableFramesAssumption`).

For `SelfdrivedHistory` it adds to IInv what each history variable means.
SoftInv ties the frames of openpilot's soft disable to the timer that MADS writes
too; RefusedInv bounds the runs of refused frames by the counters; BrakeInv says that
a second frame of steering under the brake has the accelerator in its
last car state, whose edge masked the pedal; MainInv that a frame after main's
going off is the last; QuietInv that no pause outlasts a frame without a happening;
WarnedInv that a soft disable of MADS has shown its alert unless openpilot is
engaged without soft disabling itself; an active openpilot then keeps MADS
steering or ends it with a disabling alert (OpenpilotWarns).
From `HInv` follow SoftDisableFull, RefusalsBounded, BrakeEndsSteering,
MainOffEndsSteering and StockLkasOffHolds, and with the frame itself
LateralLossAnnounced, CruiseLeavesLateral, PauseEndsWithItsCause and LateralNeedsRequest.

### HandBack

The ids are the heart of it: three processes count them without a lock.
`IdsInv` (TypeOK, Drives, Ids, Queue), inductive for any environment and any number
of stops, says that the request, card's own copy, the gates' ids, those about to be
written and the answers queued are each the last answered id or the next, and
are answered in order. OneInFlight follows. Two theorems have hypotheses, and
TLC violates both properties without them, by what the code does (section 3):

- RequestHasWaiter if the exit button is not used (`"withdraw" \notin Env`):
  pressed as a hand-back completes it leaves a request without a gate
  (`hardwared_ext.py:81`).
- EndsHandedBack unless the exit button and the manager's stops come in one life
  (`OneKind`): the button removes a request the manager has joined
  (`stock_ecu_handback.py:121`). Its invariant adds that the answers on file and
  queued still say what is true of the ECU (AnswersStand), that whoever waits for an id
  no longer requested has been handed back (Waits), and where a gate that opens
  may have got its id from (Openings, Withdrawn).

### Params

`ParamsStore_proofs` proves TypeOK and Durable for any
threads, keys and values. Durable is not inductive: a report is right only
because whoever reports has held the lock since its change (`Holder`), so the
directory still holds what it wrote (`Mine`), and a rename is safe only because
its file was synced before (`Whole`); `Left` is Durable with the present file
among those that may be left. `StoreIsAtomic` maps every step to a step of AtomicStore or a
stutter. It needs two facts more: a put keeps its one key and its value from its start
(`Puts`), and nothing but whole values is ever kept (`Told`). Assumption: the special values are no values and
NoThread is no thread.

`ParamsQueue_proofs` proves InOrder for any number of writes and of
threads. The order rests on two facts: no two workers ever run, since a future
is ready only once its thread has returned (`OneWorker`), and the write on file,
the one in the worker's hands and those queued are in the order they were asked
for (`Ordered`, which Pop keeps only under OneWorker). Assumption: MaxPuts is a natural.

### AthenaUploads

OnePlace and CancelSticks, for any number of processes, handlers, callers, uploads,
retries, lost connections and crashes. Places says that what a process owes is
what is in its queue and in its handlers' hands, each id once. It is
inductive only with Copies (the param's copy and each snapshot taken
for it hold an id once: a restart makes a queue of them), Used (ids on record
were drawn) and New (the id a caller is about to put is nowhere, and no other
caller's). Marked says that an id whose cancellation was reported is marked while it is owed,
so that the check before the send finds it. OnePlace counts, so it takes a lemma on the
cardinality of the union besides (CountedOnce). Assumptions: a thread belongs to one
process and is a handler or a caller; NoItem is no item.

### Updater

ReadyIsWhole, SystemReady, HeardBeforeSleep, BuiltOnBase, and the refinement
ImplementsInstalls, for any branches, commits, local changes and mishaps. The first two
speak of what a loss of power may leave, so the invariant says at which steps of
updated's turn the flag is down on disk (Lowered, after whose sync alone the
finalized copy may be touched), what `merged` and `final` are between (Running), and
that the slot that would boot fits the version that would be installed (Matched:
through the fetch, the flash and the launch script's moves). Current relates
`.overlay_init` to the local changes while the overlay is mounted or something made of it is
ready (after a mount that failed the canary may be newer than the overlay). Heard relates the
request to the event: it is dropped by no turn but one that breaks off until the first
check. `UpdaterInstalls`
maps every step of Updater, the power's loss at any point included, to a step of
Installs or a stutter (section 2.5 has the mapping). Assumption: None and Partial are no versions.

### Cruise

All properties of CruiseOwn and CruiseDash, for any speeds, limits, offsets,
dashes, timer lengths, buttons and inputs. `_classify_presses` is a fold over the
events and then the held presses; `ClassifyStays` says that a fold goes through whatever sets each event leads through,
proved from the least element of a set of naturals, since induction over data
is not to be had. `Classified` is such a set: a press ends a session, a prompt is
answered by one, and the set speed is written for these alone. `Moved` says where the session
machine may go from there, ReconciledFacts what the reconciler may make of the set speed.
The invariant keeps the timers to the wheel (Timers), presses and session to the wheel and the
road (Session: a session's cap is the target last read, and the limit it compares with is
the one that target had), the targets to the limits (RoadRead), a floor to a set
speed of ICBM's and openpilot's own set speed to V_CRUISE_MIN (Ranges). FasterForCause has a
hypothesis: no limit with its offset is below V_CRUISE_MIN; TLC violates it without
(section 3). Assumption: `CruiseAssumption`, the order of the constants.

### Segments

`Segments_proofs` proves TypeOK and that the encoders agree (CamerasAgree) whatever
happens; Whole and RotatesWithTheLast as long as no rotation is forced; and that none is
while every camera lives (InStepWhileAlive). The number of cameras, lengths, starts and
interleavings are free. Two invariants carry it.

`EInv`, of encoderd and the sockets: every frame is of the segment that the common
start gives it (EncoderInv); the packets on their way are in order, a segment's first is
a keyframe and follows within the frames dropped (SockInv); and a thread that has
seen others missing can still put the start off only while every encoder is in its first
segment (StartsInv, StartNotYetPassed). That last is why the two atomics of
`encoderd.cc:37-39` may race.

`LInv`, of loggerd: an encoder it has met is in one of three modes. It writes: unmarked,
its packets are of the log's segment (WritingInv). It is ahead: marked in this segment, all
it has sent since waits (AheadInv). Or the log has rotated and its mark is still there: what
waits, and its next packet, are of the segment the log is in now (StaleInv).
`ready_to_rotate` counts just those ahead, and one is not (CountInv). An encoder not yet
met keeps the log from its first rotation, unless it is dead (UnmetInv). The last to roll
over is the key step, QueuesKeepsLog: while it was writing the clock was within
lag and drops of the next segment (NotAheadInTime), so none is two segments ahead
(NoneTwoAhead), and no queue has overflowed. `KInv` keeps the frames: recorded, on
their way, or waiting.

Hypotheses. `Paced`: the frames lagged behind and dropped in all are fewer than a
segment has and no more than loggerd's queue holds (1200 and 200). `[]~TimedOut(lastSeen)`: no
rotation is forced; section 3 shows what forced ones do to both properties.
InStepWhileAlive replaces it by `UpBy(latest)`: every camera begins by frame
`latest`, and that with twice the lags and drops fits the slack of a segment (240) and
they the patience with a silent camera (10): nine frames lagged and dropped, and
cameras up within eleven seconds of loggerd. `EarlyInv` adds to the invariant how old the
log's segment and the last packet can be. Assumption: `SegmentsAssumption`.

### Out of reach

Liveness and whatever rests on fairness or ENABLED. No theorem speaks of what a
`violation` run refutes.

## 5. What is not modelled

Numeric code (controls, planning, estimation, models), drawing, device drivers
and codecs are data and out of TLC's reach. msgq, panda, opendbc and jetlink
are empty submodules: the panda and the ECU are environments, modelled from
their use. PROJECT.json gives the reason for each component and the parts of
modelled files that are left out.

## 6. Plan

In order of importance; the first nine steps are done.

1. `Selfdrived` over `SelfdriveState`, `MadsState`, `Mads`.
2. `HandBack`, composing hardwared, manager, card and the params records.
3. `ParamsStore`, `ParamsQueue`.
4. `AthenaUploads`.
5. `Updater`, refining `Installs`.
6. `Cruise`.
7. `Segments`, without audio.
8. Proofs of the safety of 1 to 6 and of the refinement of `Installs`.
9. Proofs about `Segments`: its types, agreement of the encoders, Whole and
   RotatesWithTheLast for behaviours in which no rotation is forced, and that none is
   while every camera lives.
10. More refinements: `AtomicStore` implemented by ParamsStore (done); a queue
   register implemented by ParamsQueue, with the blocking put of `params.py:176` beside it.
11. The uploader and the deleter over the directory `Segments` writes, `ModelManager`,
   `Processes` (manager's start and stop of processes, with crashes), `VideoClips`,
   sunnylink's saveParams and ParamsVersion.
12. Driver monitoring's policy as bounded counters; jetlink's shutdown wait, added to HandBack.
