# The BCGV, specified in TLA+

The repository is a body controller (BCGV) for a car: a C program that reads the
driver's commands and the state of the vehicle, runs one automaton per light, per
blinker and for the wipers, and sends commands to the lamps (through the BGF) and
indicators to the dashboard (through the MUX). This directory models it, checks the
models with TLC and proves the most important results with TLAPS.

## 1. The system

### Components

| Part | Code | State it keeps | Operations |
|---|---|---|---|
| Data dictionary | `lib/data_dictionary.h`, generated by `lib/python/generate_data_dictionary.py` from `types.csv` and `variables.csv` | one global variable per signal, automaton and timer | `application_init`, a getter and a setter per variable; setters of types with a Domain drop illegal values |
| Lights | `src/state_machines/fsm_lights.c` | per light: state, timer, command, acknowledgement, output, indicator | `compute_sidelights`, `compute_headlights`, `compute_redlights` |
| Blinkers | `src/state_machines/fsm_blinkers.c` | per blinker: state, timer, command, acknowledgement, output; shared: warnings command and indicator | `compute_left_blinker`, `compute_right_blinker` |
| Wipers | `src/state_machines/fsm_wipers.c` | state, timer, two commands, two outputs | `compute_wipers` |
| Application | `src/app.c` | the loop's position, the last MUX id, two frame buffers | `main`, `main_loop`, `decode_mux`, `decode_commodos`, `decode_bgf`, `encode_mux`, `encode_bgf` |
| Driver | `lib/drv_api.h`, `bin/driver` | external | blocking UDP read every 10 ms, LNS read of all that waits, UDP and LNS writes |
| BGF, commodos, MUX | described in `README.md` and the assignment | external | acknowledge frames; send command bytes; send numbered frames |
| FIFO | `fifo.c`, `fifo.h` | a ring of 256 entries with a read and a write index, a count of rejected items | `fifo_init`, `fifo_push`, `fifo_read`, `fifo_next` |
| Template automaton | `fsm.c` | example code, not built | - |
| CRC-8 | `lib/checksum.h`, `lib/crc8.a` | none | `crc_8` |
| Monitoring | `docker/` | configuration of Telegraf, InfluxDB and Grafana | - |

### How they interact

The application is one thread. A cycle of `main_loop` is: read a UDP frame (blocking),
decode it into the data dictionary and compare its id with the last one; read all
waiting LNS frames and decode them in order, commodos frames into the `_in` variables
and BGF frames into the `_acknowledgement` variables; run the six automata in a fixed
order, each of which reads and writes the dictionary; copy the remaining signals;
encode and write the dashboard frame; encode and write five LNS frames for the BGF.
A failed write is logged and the cycle goes on; a failed read ends the program.

All interaction between components is through the data dictionary and happens in a
fixed order, so the interleavings that matter are those with the devices: which frames
have arrived when a cycle reads them, in which order, how many, and what was lost.

`fifo.c` is the exception. The application does not link it; the delivered driver does.
There the main thread initialises the ring, starts a second one and pushes the frames to
be sent, and the second thread, every 100 ms, calls `fifo_read` once and then `fifo_next`
until nothing is left. Both work on the same indices and entries without a lock.

### What is hard

* Time is counted in calls by an 8-bit timer that runs in every state and wraps: its
  value in OFF is left over from before and is compared with the deadline all the same.
* Events are derived by priority: an acknowledgement hides the command, a deadline
  hides everything after it, and an event that has no transition is silently dropped.
* Acknowledgements are matched by device only. They can be late, repeated, out of order,
  or about a frame that said OFF.
* The warnings indicator is written by two automata, in some of their states.
* Several commands can be read at once, and the last of them counts.
* The BGF frames are built in the buffer that the last read filled.
* The dashboard frame is put together from sixteen bits, four shifted bytes and three
  fields, next to a decoder that takes fourteen bytes apart: an offset, a mask or an
  order gone wrong shows for some values only.
* The ring's two threads test and move indices that the other reads at any moment, and an
  item is in use after it was handed out; `fifo_next` drops an item before it knows
  whether it can hand out the next one.
* Some obligations are about ever after: a commanded light is lit or given up, a wiper
  wipes again after a wash, an indicator goes out.

`PROJECT.json` lists each of these at its line under "hazards", with the properties
that look for it.

### What makes each component correct

* Lights and blinkers: a lamp that is not acknowledged is given up in time; a command is
  obeyed, or refused for a bounded time; a lamp goes dark on command or by a fault only;
  an indicator never shows what is not confirmed.
* Wipers: the wait after a wash has its exact length, and commands that it hides are
  served as soon as it is over.
* Application: commands reach the frames of the same cycle by the right ids, the
  dashboard and the BGF are told consistent things, what the MUX reports of the vehicle
  reaches the dashboard in the same cycle, lost MUX frames are noticed, and the automata
  are used only in the way their own specifications allow.
* FIFO: the two threads see a bounded queue, no item is read while it is written, the
  item in the consumer's hand is the one it drops, and an orderly consumer is given every
  item exactly once.

## 2. The modules

| Module | Models |
|---|---|
| `DataDictionary` | `fsm_timer_t` with its wrap, the conversion of a state code to it, setters with a Domain |
| `Automaton` | the tick that the three automata each have a copy of, over a table given as a set of records |
| `FsmLights`, `FsmBlinkers`, `FsmWipers` | one automaton module each: table, event derivation, `Compute` action, and the two decoders' writes as actions |
| `SupervisedLamp` | abstract specification: what a supervised lamp promises, without the wrapping timer |
| `LightsMonitor`, `BlinkersMonitor`, `WipersMonitor` | the automaton with counters of calls that the code does not keep, its bounds in calls, its inductive invariant, and (lights and blinkers) the refinement mapping to `SupervisedLamp` |
| `MuxCodec` | the two UDP frames: `decode_mux`, the indicators derived from it, `encode_mux` |
| `Bcgv`, `MCBcgv` | the main loop, composed of instances of the three automata and the codec, with the devices around it; the command bytes and vehicle reports for its runs |
| `BcgvMonitor`, `MCBcgvMonitor` | the loop with the counters of the three monitors, counted once per cycle, and its bound in cycles |
| `BoundedQueue` | abstract specification: the queue a producer and a consumer may take a FIFO for |
| `Fifo` | `fifo.c`, one step per access to what the other thread writes, and the mapping to `BoundedQueue` |
| `FifoMonitor` | the ring with a count of how often its oldest item was handed out |
| `LightsProofs`, `BlinkersProofs`, `WipersProofs`, `MuxCodecProofs`, `BcgvProofs`, `BcgvMonitorProofs`, `FifoProofs` | the theorems |

### Correspondence with the code

`DataDictionary`, `Automaton`. `Tick` returns the set of results that the scan of the
table can produce. The scan stops at its first match; `Deterministic`, proved for each
of the tables, says that there is never a second, so the result is unique and the order
of the table does not matter. The timer is set to 0 on a match and incremented after the
loop in every case, so that a transition leaves it at 1.

`FsmLights`. Variables are functions over the lights. `Event(l)` is the nested `if` of
`compute_<light>`, `Compute(l)` the whole function: derive, tick, store state and timer,
clear the acknowledgement, set output and indicator. `StoredTimer` carries the one
difference between the three functions, `set_fsm_sidelights_timer(fsm)` in
`compute_sidelights`. The enumerations keep the code's numbers because that assignment
converts one to a timer. `Decode_commodos` and `Decode_bgf` stand for what `app.c` may do to
the lights between two calls, in any order and number.

`FsmBlinkers` and `FsmWipers` follow the same plan. `WarningsShown` is the assignment
to the shared indicator, which the code makes in the driven states only.

`MuxCodec`. A word is its four bytes, a byte of flags the set of the bits that are on,
and a frame a record of its fields. `Decode_mux` returns the vehicle's part of the
dictionary, in which an illegal tank level or motor speed leaves the old value.
`VehicleIndicators` is the block of `main_loop` that sets the indicators, and
`FirstByte` and `SecondByte` are the offsets of the dashboard frame. The code adds the
shifted bits, the model collects them in a set: the two agree because no two offsets of
a byte are equal, which `OwnBits` proves.

`Bcgv`. `pc` is the loop's position: one step for opening the driver, per driver call,
per decoded frame, per automaton, and for the setting of indicators. The automata are
instances of their modules over the loop's own variables, so `L!Compute(pc)` is
literally the action of `FsmLights`. The first five entries of `out_lns_frame` keep
their `frameSize` from read to write, because `encode_bgf` does not set it.
`DriverFails` covers a failed open and both reads and ends the program. `WriteUdp` writes
the dashboard frame, with an outcome that changes nothing in the program, and then encodes
the frames for the BGF into `bgf_frames`, which keep their contents until they are encoded
again; `WriteLns` either reaches the BGF or does not. The dashboard frame is
`DashboardFrame`, a function of the dictionary at the write: `encode_mux` fills all nine
bytes of it. The BGF is a set, `heard`, of the devices it has accepted a frame for: it may
answer for any of them at any time. A frame is accepted if its serial number is one of
`BgfAddresses` and its size is 2. The MUX is the last id it sent, how many frames
were lost before it, and the last legal value of each field it has sent (`mux_data`). Its
ids are taken to go round in 1 to 100, as those of the real one do, so the setter of
`mux_frame_id` never drops one. The commodos are the newest command they sent in a frame
that is long enough, `ordered`, taken from the batch when it is read and not when it is
decoded. What the properties compare the frames with is so kept apart from what the program
knows.

The monitors. The counters of `LightsMonitor`, `BlinkersMonitor`, `WipersMonitor` and
`BcgvMonitor` are history variables: `Counted` says what a call adds to or resets in them
and `Answered` what a decoded acknowledgement does, and they occur in no guard and in no
next value of the program's variables. Every behaviour of `Spec` is therefore one of
`MonitorSpec` with the counters left out. What can be said without them is stated of
`Spec`; the bounds in calls or cycles need them and are stated of `MonitorSpec`.
`answered` says that an acknowledgement came since the last call, by the input and not by
the program's own flag, so that a flag that is kept too long does not pass for an answer.
`unconfirmed` counts the calls for which a driven device was not acknowledged, `refused`
those that left a commanded device in OFF although no acknowledgement had come, and
`unanswered` those for which a command stayed on without an acknowledgement, whatever the
state.

The lamps of the loop. In `Bcgv`, `Supervised` is the set of devices with a timer (the
blinkers and all lights but the sidelights), `Phase` and `Watch` read a lamp's phase and
its deadline off the automaton, and `DevicesSupervised` says that the whole application
implements `SupervisedLamp` for them.

Left out of `Bcgv`: serial numbers and ids that no `case` of the loop handles (such a
frame has the effect of a short one), and the values of CRCs (a mismatch is logged and
changes nothing that is read).

`Fifo`. Each thread is at a place in its current call (`push_at`, `read_at`) and a step
makes at most one access to an index the other thread writes, so any two such accesses
can be interleaved. `set_atomic` reads the index, computes the difference and adds it,
which reads the index again: `PushLoad` and `PushStore`, `NextLoad` and `NextStore`.
While a thread is at `"copy"` it is inside `memcpy`, and the entry is in use.
`fifo_next` ends in the body of `fifo_read`, `Read`, a step after it moved the index.
The threads are not held to the driver's habit of calling `fifo_read` first: any
sequence of calls is allowed, with or without an item. `fifo_init` is the initial
state, since the driver calls it before it starts the consumer. `unreported` is no
variable of the code: it records that a push was rejected.

`FifoMonitor` counts in `handed` how often the oldest item was handed out, and keeps in
`orderly` whether the consumer has so far called `fifo_read` only after a call that gave
it nothing, and `fifo_next` only after one that gave it an item. `HandedOutOnce` is about
such a consumer. One that calls `fifo_next` again after a call that failed loses an item
unread: that is what `fifo.h` says `fifo_next` does.

## 3. The runs

| Run | Configuration | Shows |
|---|---|---|
| `lights` | a light with a timer and the sidelights; timer 0..15, delay 6 | invariant (with the types), bounds, `SettledInTime`, indicator and fault properties, `CommandSettles`, refinement |
| `lights_sidelights_fault` | sidelights, 255 and 100 | violation: the sidelights' missed acknowledgement is never seen |
| `blinkers` | both blinkers; timer 0..5, delays 2 | invariant (with the types), bounds, `SettledInTime`, when the warnings indicator goes out, refinement |
| `blinkers_blink` | one blinker, 255 and 100 | violation: an acknowledged blinker never blinks |
| `blinkers_indicator` | one blinker, 255 and 100 | violation: the warnings indicator outlives the warnings |
| `wipers` | 255 and 200, the code's values | invariant (with the types), the three bounds, `WipingResumes` |
| `bcgv` | all devices; BGF answers to 11 and to the number the frames carry; up to two frames per read; timer 0..4, delays 2, 2 and 1 | the loop's invariant, frames follow the newest command, the dashboard agrees with the frames of its cycle, nothing unheard-of is acknowledged, unheard devices are given up in a bounded number of cycles and in the end, the automata's specifications and `SupervisedLamp` (`DevicesSupervised`) hold in the loop |
| `bcgv_mux` | MUX ids 1..100, losses of 0, 1, 99, 100 frames, tank levels and motor speeds in and out of their Domains, every flag; frames of one byte | types, dashboard shows the vehicle, `GapsReported` |
| `bcgv_frames` | as built | violation: the BGF frames carry 2 as their serial number |
| `bcgv_motor` | as built, vehicle reports | violation: the dashboard frame carries the motor speed modulo 256 |
| `fifo` | a ring of four entries, three values of an item | invariant, no racing copies, the item in hand stays, refinement of `BoundedQueue`, `HandedOutOnce` |
| `fifo_lost` | a ring of two entries | violation: `fifo_read` never returns `FIFO_LOST` |

### Bounds

* Timers. The runs of one automaton use a width and a delay that keep the code's
  order (0 < delay < width) with several timer values on both sides of the delay, so
  that a command can meet every phase of the wrap; where the state space allows (the
  wipers and the violations) the code's own numbers are used. The bounds claimed are
  formulas of the constants and are proved for all of them.
* Counters of the monitors saturate one or two above the largest bound that is claimed of
  any of them, so a violation would be seen before they stop counting.
* `bcgv` uses the smallest width the state codes fit in (0..4) and delay 2: a light
  still lights, waits, fails, and wraps in OFF. `Changing` switches lights, blinkers and
  wipers on and off, a blinker by its own lever, by the warnings, and by one after the
  other. Two frames per read let two commands, two answers, or one of each meet in a
  batch, in any order.
* In `bcgv` every frame has two bytes, and the first two entries of the buffer can be
  filled, so the sidelights and the headlights are the devices whose frames the BGF can
  accept; the others are the ones it never hears. The BGF of the real system, which
  answers to 11 only, is the part of the run in which `WriteLns` always leaves `heard`
  alone. Frames too short to be decoded are the ones of `bcgv_mux`.
* `bcgv_mux` uses the code's turn of 100 ids: the losses include a whole turn, which
  no id can reveal, and a turn less one. `Reports` has tank levels on both sides of the
  threshold (4, 5) and of the Domain (40, 41), motor speeds of one and of two bytes, at
  the Domain's end and past it, bytes that differ in every position, and every flag up
  in a report that has a neighbour of it down. The motor speed itself is checked by
  `bcgv_motor`. The automata idle in this run: no command is given, and `bcgv` has a
  vehicle with little fuel only, because the two sides of the loop share no variable.
* `fifo` has four entries, so three items: empty, full and partly full, with the indices
  in every position and wrapped, and each thread at every step of a call against
  every step of the other. Two values of an item besides the zeroed entry tell an item
  from its successor and from an entry never written.

Deadlock is not checked in `bcgv` and the `bcgv_*` runs: the loop really stops when a read fails. It
is checked in the others: some call can always be made.

### Fairness

* `FairMonitorSpec` of the lights and the wipers, and `FsmBlinkers!FairSpec` in the two
  violations that need it, ask weak fairness of each `compute_<x>` call. The main loop calls
  each of them once in every cycle, and a cycle ends unless a read fails; the liveness
  properties are about a program that keeps running.
* `BcgvMonitor!FairMonitorSpec` asks weak fairness of the steps of the loop whose driver
  calls succeed, since the program has its own thread and the MUX sends a frame every 10 ms.
  `DriverFails` needs no fairness and `CommandedLightsGiveUp` says what it
  assumes: that the loop has not ended.
* No fairness is asked of the devices: commands may stop changing, the BGF may never
  answer. `CommandSettles`, `WipingResumes` and `CommandedLightsGiveUp` state what they
  need of the inputs (a command that stays) in their premises.

### What the violations show

1. `compute_sidelights` stores the state where the timer belongs (`fsm_lights.c:185`):
   the sidelights are never given up, however long the BGF is silent.
2. `BLINK` is tested after `ACK_MISSED`, with the same delay (`fsm_blinkers.c:152`): it
   is never derived, and an acknowledged blinker shines steadily.
3. `indicator_warnings` is written in the driven states only (`fsm_blinkers.c:183`):
   after the warnings are switched off, it stays lit until a blinker is used alone.
4. `encode_bgf` overwrites the serial number with the frame size and never sets the
   size (`app.c:291`): the BGF never recognises a frame. This explains the README's
   observation (section 8) that no acknowledgement is ever received. `bcgv` and
   `AsBuiltGivenUp` add the consequence: every commanded light with a timer ends in
   ERROR, and the lights go out again after about a second.
5. `encode_mux` puts the motor speed, up to 10000, into one byte (`app.c:427`), so the
   dashboard's gauge of up to 6000 t/min receives the speed modulo 256.
6. `fifo_push` counts no rejected item (`fifo.c:91`): `rejected_count` stays 0 and
   `fifo_read` never returns the `FIFO_LOST` that `fifo.h` announces. A consumer cannot
   learn that items were lost; only the producer's `FIFO_OVERRUN` tells.

## 4. The proofs

The theorems hold for every value of the constants within the ASSUMEs, which TLC
evaluates in the runs:

* automata: every timer width of at least 4, every set of lights or blinkers and every
  delay below the width; for the blinkers also
  `ACKNOWLEDGEMENT_DELAY <= BLINKING_DELAY`, which the code's equal values satisfy and
  without which BLINK could be derived;
* loop: every turn of ids within 1..100, every set of commands, reports, losses and
  addresses, every batch size and every timer width of at least 4. `BcgvProofs` assumes
  nothing of the delays; `BcgvMonitorProofs`, which brings the automata's theorems into the
  loop, assumes of them what the automata do (`DelaysAssumption`);
* ring: every size of at least 2 and every set of items.

### The automata

Each of the three proof modules is built the same way:

1. The table: it is deterministic, and `TickCases` turns a tick into a disjunction of
   its possible results (`TickResult`). Nothing after that looks at the table.
2. Types: `ComputeEffect` says what one `compute_<x>` call does to its own device and
   that it leaves the others alone, and `<X>TypeCorrect` follows by induction. For the
   lights and blinkers the part that does not speak of counters is a lemma of its own,
   `CallEffect`, which the loop uses too. For the
   blinkers the set of reachable states is part of the induction: without it the
   entries for the dark phases would have to be followed through.
3. The inductive invariant. None of the bounds is inductive as it stands. The counters
   of the monitors are tied to the timer: in ON the timer *is* the number of
   unconfirmed calls (`LightInv`, `BlinkerInv`), so the deadline bounds it. A refused
   command increments both the counter and the timer, which started above the delay, so
   `timer > delay + refused` until the wrap, after which the timer is 0 and the next
   command is let in. In WAIT the timer is the number of calls waited, and a wiping
   command is ignored for no more calls than that, plus the one that times out
   (`WipersInv`). `SettledInTime` needs the two phases of a lamp together: an unanswered
   command has been refused for all of its calls in OFF, and in ON it has waited for at
   most `TIMER_MAX - ACKNOWLEDGEMENT_DELAY` refusals and then for the `unconfirmed` calls
   since. The sum is at most `TIMER_MAX + 1`; after that only an acknowledged or a failed
   lamp is left.
4. The bounds follow from types and invariant; the action properties from
   `ComputeEffect` and the invariant.
5. Refinement (lights and blinkers): each `compute_<x>` call is mapped to a step of
   `SupervisedLamp` or to a stutter, case by case; the invariant supplies
   `timer = delay + 1` where the lamp fails. The step itself is `SupervisedStep`, which
   asks for the types and for a lit device's timer only.

### The codec and the loop

`MuxCodecProofs`: appending a byte and taking it off again cancel out
(`AppendShift`), so four of each do (`WordRoundTrip`); the offsets of a byte differ
(`OwnBits`).

`BcgvProofs`: the loop's properties speak of one step of a cycle and depend on what the
steps before it did, so none is inductive. `BcgvInv` has two parts. `OrderInv` follows the
commands: while frames are left to decode, the last command among them is the newest one
(`ordered`); once none is left, the command variables are those of the newest one; and at
`"write_lns"` the frames for the BGF are those of the devices as they are. `LoopInv`
follows the cycle: `Computed` is the
set of devices whose automaton has run since the last frame was decoded, and these, and
only these, obey the commands as they now stand; the warnings indicator is up to date as
soon as one of them drives a blinker's bulb. Besides, what the program keeps of the MUX
is what the MUX last sent, and a device that is acknowledged, or has an acknowledgement
pending, has been heard of (`Acknowledging`). The lemmas `LightEffect`, `BlinkerEffect`
and `WipersEffect` say what an automaton's call does, straight from its table and for any
delay; then there is one lemma per step of the loop (`ReadUdpStep` to
`ComputeWipersStep`; `PassingStep` for those that at most set indicators). At `"write_udp"` and
`"write_lns"` every device has been computed, and `CommandsFollowed`,
`DashboardConsistent` and `VehicleShown` follow from the invariant, the last two with
`OwnBits` and `WordRoundTrip`. `VehicleShown` says nothing of the motor speed, which is
not shown. `ComponentsImplemented` needs no invariant: each step of
the loop is one step of an automaton or leaves its variables alone, so the theorems
about the automata carry over to the application. `GapsAreReported` adds the arithmetic:
counting on by `k` comes back to the same id exactly if `k` is a whole number of turns
(`SameId`).

### The automata in the loop

`BcgvMonitorProofs` answers whether what is proved of an automaton by itself holds in the
application. A call of `compute_<x>` in the loop is the call of its own module, with its
count (`SameLight`, `SameBlinker`, `SameWipers`), a decoded frame is one of its inputs
(`DecodeMonitors`), and no other step touches it; so `MonitorSpec` of the loop implies the
three automata's (`MonitorComponents`). With that

* `LoopKeepsDevicePromises`, `LoopServesWindscreen` and `LoopKeepsStepPromises` are the
  automata's bounds and action properties in cycles of the loop;
* `DevicesGivenUp` is `SettledInTime` of lights and blinkers together with
  `NoUnheardAcknowledgement`: for a device the BGF has accepted nothing for, an
  acknowledgement is no way out, so the command ends in ERROR.

`LoopSupervisesDevices` is the refinement of `SupervisedLamp` by the whole application, of
`Spec` and without a counter. The inductive invariant it needs, `DevicesInv`, holds between
any two steps of a cycle: a lit device's timer is within its deadline, no blinker is in a
dark phase, and an indicator is on only for an acknowledged light. `DeviceCall` shows that
a call changes its own lamp in one of the ways of `LampChange`, which are the steps of
`SupervisedLamp`, and no other; `LampsDecode` that a decoded frame changes the requests
alone.

`ShownOnlyIfHeard` leads from the BGF to the dashboard: a light in the frame has its
indicator on, so its automaton is in ACKNOWLEDGED (`DevicesInv`), so the BGF has accepted a
frame for it. `AsBuiltUnheard` and `AsBuiltGivenUp` are the fourth violation of section 3
followed to its end: if the frame size that takes the serial number's place is no number
the BGF answers to, no frame is ever accepted, no device is ever acknowledged, the
dashboard never shows a light, and every device with a timer is given up after more than
`TIMER_MAX + 1` cycles of its command.

### The ring

`FifoProofs`: `FifoInv` is inductive. It says what each thread has learnt of the indices
and why that stays true while the other works: a producer past its test has
`new_write_index # read_index`, which the consumer can only confirm by moving on; a
consumer past its test has `read_index # write_index`, and the producer only adds to the
distance; and the entry in the consumer's hand is none the producer may write. `NoRace`
and `HeldItem` follow. `ItemsHandedOutOnce` adds `HandedInv`, which ties the count of
`FifoMonitor` to where the consumer is: an item in hand was handed out once, and while
nothing is in hand the oldest item was not handed out at all. For `RingImplementsQueue`
the contents between the indices are written as a function (`contents`), and each step is
shown to append to it, to take its first item off, or to leave it alone; copying into the
free entry is the step that must change nothing.

`PROJECT.json` lists the theorems with the properties they establish. Every safety
property of a passing run has one.

Only model-checked: the liveness properties (`CommandSettles`, `WipingResumes`,
`CommandedLightsGiveUp`), which are out of the prover's reach. `SettledInTime`,
`WipeServedInTime` and `GivenUpInTime` are their bounded counterparts, for a command that
stays on without an acknowledgement, and are proved; what fairness adds is that the calls
are made at all.

## 5. What is not modelled

* `fsm.c`: a template that does not compile as it stands.
* The CRC-8 table: its result only decides whether a line is logged, so a commodos frame
  with a wrong CRC is obeyed, in the program as in the model. The README asks for that
  (section 6); the assignment asks for the opposite (`Projet_HSI.pdf`, p. 11: "Le BGCV ne
  doit pas décoder la trame").
* The unit of the tank level. The code compares it with 5 out of 40, strictly
  (`app.c:184`), and so does the model; the assignment speaks of a tank "rempli à 5% ou
  moins" (p. 11).
* The value in an acknowledgement. The BGF sends back what it was sent; `decode_bgf` reads
  the id only, so an answer to an OFF frame counts for an ON frame too.
* The generator's text output, the build, and the monitoring stack: no controller logic.
* Words with a first byte of 128 or more: `decode_mux` shifts it into the sign bit of an
  `int`, which C leaves undefined. As a mileage it would be over two thousand million km.
* In `fifo.c`, the order in which a processor makes the copy of an item and the store of
  the index visible to the other thread: the model keeps the program's. The pointer to
  the ring is never NULL; `fifo_push` reads through it before it checks it (`fifo.c:85`).
* The starvation of a command by a BGF that acknowledges in every cycle. The code allows
  it, and a BGF that answers every message it is sent (`Projet_HSI.pdf`, p. 5), the OFF
  frames of every cycle included, would do just that. `CommandSettles` shows that nothing
  else starves a command.
* Time. A cycle is a cycle; that the dashboard frame, which `drv_api.h:10` calls the 20 ms
  frame, is written once per 10 ms cycle is not visible in the model.

## 6. Where things stand

Everything planned is done: the three automata with monitors, the abstract lamp and its
two refinements; the codec; the loop with its devices and its composition of the
automata; the automata's promises counted in cycles of the loop, and the loop's own
refinement of the abstract lamp; the ring, the abstract queue and its refinement; and
proofs of all of them.

What could follow: a model of the ring under a weak memory order, to see which of the
properties survive it; and liveness of the ring (an item pushed is in the end handed out)
under the driver's own calling pattern.
