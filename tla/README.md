# A verification project for LunaBridge

LunaBridge carries the traffic of a lunar 5G network over a delay-tolerant relay link that
exists only during scheduled contacts. Between contacts everything is stored. What makes the
code hard to test is what happens around the store: a bounded buffer that two threads share,
lifetimes that run out in a blackout, drain policies that must not waste a contact, and a
measurement that compares the nodes with a closed formula. This directory holds TLA+ models of
those parts, the TLC runs that check them on small instances, and proofs that TLAPS checks for
every value of the constants.

Paths below are relative to `src/`.

## 1. The system and its parts

| part | state | operations | interacts with |
| --- | --- | --- | --- |
| Live gateway buffer, `link_controller/live_gateway.py` | a FIFO per class, an arrival order over all classes, a byte count, round-robin deficits and order, a lock | `admit`, `next`, `snapshot` | called by both threads of the worker; calls the worker's `log` with its lock held |
| Gateway worker, `worker_gateway` in `link_controller/n6_bridge.py` | the logs `sent.jsonl` and `gw.jsonl`, the pacing time `t_free`, the clock each thread last read | the reader thread classifies and admits; the main thread drains in contacts and lists the rest | the buffer, the capture on stdin, one uD3TN node per class |
| Measurement, `ceiling_pilot.py` and the rest of `n6_bridge.py` | the compressed plan, the link (lit or dark), the two logs | `run`, the toggler thread, the injecting worker, the receiver, `analyze` | uD3TN nodes, netem |
| uD3TN and netem (external) | stored bundles, contacts, bundles on the link | forward in a contact, expire, deliver | configured and fed by the measurement |
| Contact plan, `gateway/contact_plan.py` | an immutable sorted list of windows | constructor, `active_at`, `next_after`, `periodic_contact_plan` | walked by the scheduler |
| Offline scheduler, `gateway/scheduler.py`, with the class table of `gateway/traffic.py` | the queue, its byte counter, the fate of each bundle, deficits and rotation across windows | `run`: admission with eviction, expiry, drain under seven policies, write-off | the plan, `BundleRecord.mark`, the telemetry writer |
| Telemetry, `gateway/telemetry.py` | records, append-only JSONL files | `set_ttl`, `mark`, writer, read-back, metrics | the scheduler, the interceptor, the sweep harness |
| Capture, `gateway/n6_interceptor.py`, `gateway/priority_classifier.py`, `traffic_gen/pcap_to_trace.py` | a sequence of ids, the packet in the callback, `bundles.jsonl` | packet callback, DSCP to class, flow id, start, interrupt; the same from a capture file | the kernel queue, the telemetry writer |
| Traffic, `traffic_gen/traffic_model.py`, `gen_mgen.py`, `run_traffic.sh` | a scenario and the script rendered from it | render; peak of the offered load | MGEN on a UE, whose packets reach N6 |
| Channel player, `channel/grc_lunar.py`, `grc_lunar_standalone.py` | a trace, a stop event, the gains of each UE | step a trace, loop, hold, stop | GNU Radio, the uplink of the UEs |
| Sweeps, `gateway/sweep_harness.py`, `analysis/run_trace_scheduler.py` | copies of one workload per policy and lifetime | run all policies; tables | the scheduler, the metrics |
| Workloads and sizing, `gateway/workload_generator.py`, `run_fig7.py`, `analysis/buffer_sizing.py` | random streams; a capped buffer and its curves; a bisection interval | generate; fill; smallest safe buffer | the scheduler, the class table |
| QoS map, lab scripts, figures, ray tracing, containers | none that lasts | one pass each | files |

### What is hard, and what would make each part correct

* **Live gateway.** The reader and the main thread each read the clock, wait for the lock, and
  use the old time afterwards. Eviction takes from the tail of a queue whose head is being
  expired, and leaves "gone" bundles in the arrival order. Correct means: the byte count is
  exact; each bundle is in one place and gets one fate; nobody is evicted, dropped or passed
  over without the reason the docstring gives; a poll that finds something to send sends it;
  deficits stay bounded; the run ends.
* **Measurement.** Four processes follow one schedule with their own polls. Correct means:
  what a node sends in a contact never meets a dark link; the per-bundle forecast agrees with
  what is delivered up to scheduling delay; the closed form agrees with the forecast up to one
  bundle per gap; the run ends.
* **Contact plan.** Boundaries of half-open windows under bisection, and a constructor that
  compares neighbours only.
* **Scheduler.** Admission, expiry and drain change the same queue in three methods over many
  windows. Correct means: the counter is exact, budgets hold, order and greediness hold, fates agree
  with deadlines, evictions pay, urgent bundles keep their room, and every bundle ends decided, once.
* **Sweeps.** Runs that must not see each other, and tables that are read as a comparison of
  policies: the urgent class must not depend on what happens to the others.
* **Live path.** A mark set in a script must come out as the class of a record, through sockets
  that may share it, a header of two formats and a table; the channel must be the trace's at each
  time; a packet must get its verdict and its record whatever fails, and after a failure no more of
  the trace may be lost than the failure explains.
* **Sizing.** A bisection over a predicate that need not be monotone; curves sampled between
  arrivals.

`PROJECT.json` lists the hazards one by one, each at its line, with the properties that cover it.

## 2. The modules

```
LiveGateway --- GatewayWorker --- GatewayProperties --- MCGateway      strict wfq fifo claim_fates
                                   |   INSTANCE BundleStore
                                   +--- GatewayProofs
ContactPlan --- PlanWalk --- MCPlanWalk                                plan
     |            +--- PlanProofs (with BasicProofs)
     +--------- Scheduler --- SchedulerProperties --- MCScheduler      sched
     |                             |--- SchedulerProofs (with BasicProofs)
     +--- BasicProofs              |
                                   |--- Sweep --- SweepProperties --- MCSweep             sweep
                                   |                   +--- SweepProofs (with SizingProperties,
                                   |                           SchedulerProofs)
                                   +--- BufferSizing --- SizingProperties --- MCSizing    sizing
Workload --- CappedBuffer --- CappedProperties --- MCCapped            fig7
                            +--- CappedProofs (with BasicProofs)
DtnSegment --- DtnProperties --- MCDtnSegment                          dtn
                      +--- DtnProofs (with BasicProofs)
LiveClock --- ChannelPlayer --+
     +------- TrafficScript --+-- LivePath --- LiveProperties --- MCLivePath   live capture
              N6Capture ------+               +--- LiveProofs (with BasicProofs)
```

An operator followed by an underscore and a word (`Evict_NotCredited`) is a mutant: the
definition before the underscore changed the way a plausible bug would. Each property comes
with one that breaks it.

### LiveGateway and GatewayWorker

`LiveGateway` is the object: `q`, `fifo`, `gone`, `bytes`, `deficit`, `rr` are its fields,
`bundle` the dicts made so far and `evlog` the file `gw.jsonl`. Its operators are the iterations
of the loops inside `admit` and `next`. `GatewayWorker` adds the two threads.

| code | actions |
| --- | --- |
| reader loop (n6_bridge 216-239) | `Receive`, `ReaderStop` |
| `admit` | `AdmitBegin` (lock), `AdmitPurge`/`AdmitPurged`, `AdmitEvict`, then `AdmitDrop` or `AdmitEnqueue` (unlock) |
| main loop (247-259) | `LoopTest`, `ReadClock`, `NextBegin`, ..., `NextReturn`, `Forward` |
| `next` | `NextDiscard`, `NextFifoSkip`, `NextFifoTake`, `NextPriorityTake`, `DrrTurn`, `NextDrrTake`, `NextDrrPass`, `NextNone` |
| end (260-270) | `Snapshot`, `ReportLeft`, `Exit` |

The lock serialises `admit`, `next` and `snapshot`, but the clock, the other thread's steps outside
the lock and the end of the process interleave with every iteration. Sending and logging a
forward are one step: the reader touches neither. A bundle is its class, size and time; packets
of unknown tunnels and packets outside `[t0, t1)` leave nothing behind.

`BundleStore` is the abstract specification: bundles in places, with no threads, queues or
deficits, and the conditions under which one may be refused, evicted, expired or served.
`GatewayProperties` maps the worker to it (`PlaceOf`) and the three gateway runs check
`ImplementsStore`; `StoreImplemented` proves it for every value of the constants.

### DtnSegment

One clock in ticks. `Toggle` is the toggler thread; `BeginRound`, `TakePacket`, `SendNext`,
`WorkerExit` the worker of the pilot or of the bridge; `Analyse` the end of `run`; `Forward`,
`Expire`, `Arrive` the external nodes and link. `Tick` is disabled while anything is more than
`Late` ticks overdue: this is how "a poll loop sleeps 10 ms" becomes a bound, and within a tick
the processes act in any order. The compressed plan `W` is computed from a raw plan with
Python's rounding (halves to even). `predicted` holds the counts that `analyze` makes from
`sent.jsonl`. What meets a dark link stays in flight until the link is lit, which is the TCP
retransmission that `dtn_elfo_demo.sh:11-17` warns of.

### ContactPlan, PlanWalk, Scheduler

`ContactPlan` is pure: windows, the constructor's checks, bisection as a count, the two queries,
the periodic plans. `PlanWalk` builds a plan from an unsorted list (a stable sort: any sorted
arrangement is tried), asks one query at any time, and walks it as `Scheduler.run` does.

`Scheduler` is sequential; a step is an iteration of one of its loops and `pc` says which:
`AdmitOne`/`BeginEviction`/`EvictOne`/`OverflowOne`, `AdmissionOver`, `Expire`, `BeginDrain`,
`SendForemost`/`DeferForemost` for the ordered policies and the emergency tier, `BeginRound`/
`BeginTurn`/`SendNext`/`PassNext`/`EndTurn`/`RoundsOver` for the deficit round robin,
`CloseWindow`, `WriteOff`. Sort keys are the order `Before`. Deficits are integers in units of
1/132 bit, so that every share of the weights 10, 1 and 1 is exact.

### Sweep and BufferSizing

Both compose `Scheduler` with a program that runs it again and again. `Sweep` starts a run
(`NextRun`) when the one before is `done`, over the workload as generated or with one class's
lifetime replaced, and appends the fates to `results`; `MissionUtility`, `Count`,
`StarvationSummary` are the functions of `telemetry.py` and of the tables. `NextRun` restarts every
variable that the code makes anew, and only those. `BufferSizing` starts a trial with another cap
(`Halve`) and narrows its bracket, kept in half bytes so that the middle of an interval is not
lost to rounding.

### Workload and CappedBuffer

`generate_workload` is the set of all streams the generator can return on a small span: any
arrivals of each class, feeds of any phase. A stream is a set of events with their places in it, and the stable sort
puts each event at its rank: after those of earlier times, and of the same time in streams put in before. `CappedBuffer`
walks one workload; a step is an event or a checkpoint.

### LivePath

`TrafficScript` renders a scenario into ON and OFF lines, which MGEN (external) plays in
order, one socket per source port with the type of service of the last flow turned on.
`ChannelPlayer` is the thread of the two brokers; a `Broker` says which one and with which options.
`N6Capture` is the interceptor: `Take`, `Write` or `WriteFails`, `Accept` are the callback,
`Interrupt` and `Cleanup` its end, `StartCapture` a start; `files` keeps the chunks of text of each
run directory, so that a torn line is a chunk without its end. The directory is the operator's, or
(`run_dir`) the one named after the second of the start, which `StartCapture` makes or reuses. That second is
read from the wall clock, which may be set forward or back between starts: `seconds` counts it from
the first start and has nothing to do with `now`, the time elapsed. `LivePath` composes the three over one clock:
a packet of a flow that is on carries the mark of its socket and reaches N6 unless the
sender's uplink is dark.

## 3. The runs

| run | question | bounds |
| --- | --- | --- |
| `strict` | accounting, places, pacing and the abstract store, under strict priority with eviction | capacity 2, 3 packets of 3 kinds, lifetimes 1-3, 4 ticks, two contacts, the second past the end |
| `wfq` | types, deficits, work conservation, termination under round robin and drop-tail | capacity 4, sizes up to 3, credits 1 and 2, otherwise as above |
| `fifo` | agreement of arrival order and class queues under eviction, the abstract store | as `strict` |
| `plan` | constructor, queries, walk | every list of up to 3 windows in 0..4, periodic plans, every time in -1..5 |
| `sched` | all seven policies, both admissions, both FIFO modes: budget, order, fates, room, evictions | lists of up to 3 bundles of 8 kinds, 3 plans, cap 3 |
| `sweep` | all seven policies in sequence and over two lifetimes: the counter, round-robin heads, tables, isolation, comparison, termination | lists of up to 3 bundles of 7 kinds, one list where a full buffer refuses different emergencies under FIFO and strict priority, a plan at two rates with a first window too short for two bytes, cap 3 |
| `dtn` | link, forecast, closed form, termination | pilot and bridge, plans of 2 and 3 contacts, 2 nodes, 4 ticks a second |
| `live` | marks, channel, offered load | 4 scenarios, 2 traces, both brokers, 2 UEs, 11 seconds, wake-ups up to a second late, 1 packet |
| `capture` | order, losses, agreement of live and offline trace, verdicts | 3 packets of either IP version, 2 starts in the same second or in two, with or without a given directory, 1 failed write, a kernel queue of 2 |
| `sizing` | what the bisection's answer means | 110 profiles of up to 3 classes, gaps 3 and 4, both admissions |
| `fig7` | what a point of the curves means | every workload of 3 instants, 2 feeds; a buffer of 4 bytes, 4 checkpoints |
| `claim_fates` | a sentence of the code that it does not keep | as `strict` |

Why the bounds suffice. *Gateway:* three packets are what it takes for two evictions by one
arrival, for an eviction followed by a drop, and for a bundle evicted between two of a class;
capacity 2 makes each happen. A bundle of size 3 against credits of 1 and 2 needs several turns of the
round robin, and every interleaving of the two threads with the clock is explored. *Plan:* any overlap or
boundary case involves at most two windows and one time; three windows add the neighbour in
between. *Scheduler:* overflow, eviction in vain, skip-over, a blackout, back-to-back windows, an empty plan, an
arrival inside a window and a deadline at a boundary all occur among the kinds listed. `MaxRounds` = 36 stands
for the code's bound of 10000 on round-robin iterations. A class that waits gets at least a twelfth of the bits that
remain in each round, so twelve rounds a bundle are enough (`RoundsSuffice`): 36 for three bundles, and
the code's 10000 for 833 bundles of one class in one window. `sizing` drains under strict priority only, which has no rounds. *Sweep:* three bundles are enough for one run
to leave a queue, a deficit or a fate behind that the next could see. *Dtn:* gaps shorter than, as long as and
longer than a lifetime, a gap of exactly one second where the guard bands meet, and a late act
of every process; the slack in the forecast properties is tight (with less, TLC finds a
counterexample). *Live:* the small script has a flow that starts before the run, one without
an end, one that ends late and one that starts at the end; the traces have outages, a lead time
and two speeds. *Capture:* a fault and a restart allow a torn line to meet the next record, of the
same process and of another, in a directory shared because it was given or because the second is the same. With
one fault `TraceLoss` already allows all three packets to be lost, and a directory left and come back to
needs a third start; the theorems of section 5 cover both. *Sizing:* trains of two or three arrivals per class
in every relation of size and interval up to 4. `MaxPackets`, `MaxClock`, `MaxStarts`, `MaxFaults` and `CaptureEnd`
are the only bounds on length, and `Seconds` the only one on the wall clock.

Times and sizes are integers. Real lifetimes, weights and rates are scaled: the properties
depend only on their order and sums.

What these properties do not see. `ForwardedInTime` judges by the clock that the poll under way has read, as the
code does: how late a bundle leaves when the poll then waits for the lock is not bounded. `UrgentKeepRoom`
counts the room of the whole workload, bundles that are dead and not yet expired included, as admission does:
whether a dead bundle takes the room of a live one is section 4's matter. `Ends` assumes that the capture ends or
passes `t_end`, as said below.

### Fairness

* `GatewayWorker!FairSpec`: the clock advances, the main thread runs, and an admission under way
  goes on (the operating system schedules both threads, and a lock held is released after
  finitely many iterations). Nothing makes packets arrive. `RunEnds` needs no more.
* `Scheduler!FairSpec`, `PlanWalk!WalkSpec`: a sequential program keeps running.
* `DtnSegment!Spec`: every process runs and time passes; the capture ends or passes `t_end`. The
  last is an assumption on the environment: `worker_bridge` looks at the clock only when a
  packet arrives (n6_bridge 162-166), so a silent capture would keep it for ever. The lab scripts
  run `ping` well past the end of the schedule.

* `Sweep!SweepSpec`: one sequential program keeps running.
* `LivePath!Spec`: time passes, MGEN and the player are woken, and the interceptor goes on with a
  packet it has taken (the kernel delivers, the callback does not block). Nothing makes an operator start or stop
  anything, a packet arrive or a write fail. `EveryPacketJudged` needs the interceptor's step only.

Deadlock checking is off where the program really stops: `dtn` after the analysis, `live` and `capture`
at the end of the clock with nobody starting anything, `sizing` after the last trial, `fig7` after the
last checkpoint.

## 4. What the code does not keep

`claim_fates` shows a statement of the repository violated, and `PROJECT.json` quotes it: the gateway
process ends while the reader still admits, so a bundle may have no line in `gw.jsonl`, or be listed
as queued and then evicted, where the analysis speaks of the fate of every bundle.

Observed while modelling, without a run of their own:

* *Live gateway.* It evicts while it can and may then drop the arrival all the same
  (`live_gateway.py:58-69`), where its docstring and the scheduler it refers to say evict to make room,
  else drop; `BundleStore!Evict` allows it. Under `strict` and `wfq` the arrival order `fifo` keeps every
  bundle of the run (41, 72). It expires with `>` and the scheduler with `<=`.
* *Scheduler.* `run` admits before it expires (679-680), the docstring (98-103) says the reverse.
  A bundle that arrives in a window is sent with the window's start as its time (428), so that
  its delays are negative. The at-risk test uses `<` where expiry uses `<=` (380, 490). `_active_bytes` is not reset with `_active`
  (691-696), which only a second `run` of one object would notice: `NextRun_SameScheduler` shows what follows.
* *Metrics.* Only expired emergencies are penalised (`telemetry.py:344-349`). A policy that refuses an
  emergency at admission ranks above strict priority, which admits it and lets it expire; hence the
  condition on overflow in `EmergencyNoWorse`. With emergencies of two lifetimes `deadline_aware` can deliver one
  more than strict priority, which serves them in order of arrival; hence its condition on lifetimes. And FIFO can deliver
  more emergencies where strict priority refuses some: a buffer full of other traffic makes FIFO refuse an early one
  that the next window is too short for, while strict priority admits it, loses it, and has no room
  for a later one that lives longer. So check 4 of `run_trace_scheduler.py:152-156`, no emergency refused, is
  not only a check of its own but a condition of check 1 (140).
* *Sizing.* With the gap of 2000 s of `buffer_sizing.py:160` emergencies, which live 300 s, die before the
  contact: no trial is safe, and the bisection returns the whole backlog for both admissions (`LossesExplained`),
  although the docstring (112-113) says that admission is the only loss path and the comment at 122
  announces a check that is not there. With class-blind admission a larger buffer can be worse than a smaller one, so the
  answer need not be the smallest safe buffer (`SizedRight` says what it is).
* *Figure 7.* The docstring (`run_fig7.py:23`) says the buffer matches `Scheduler._try_admit` in purging first;
  the latter does not purge.
* *Traffic.* `peak_offered_bps` counts a flow that starts exactly at the end, `render_mgen` skips it. A flow whose stop is not after
  its start never ends: its OFF line comes first. The comments of `reference_scenario` give its media flow 2 and 3 Mbps.
* *Channel.* The initial gains are the first snapshot's losses without its outages. In a looped trace
  the last snapshot holds for no time at all. After a stop the snapshot waited for is still applied, early.
  The standalone broker leaves the uplink alone in an outage. An outage list longer than the losses raises in `grc_lunar.py` only.
* *Capture.* Without `LUNABRIDGE_RUN_DIR` the run directory has the resolution of a second and is reused if it exists
  (`n6_interceptor.py:167-171`, `telemetry.py:273-276`): two starts in one second, or the second after the wall
  clock was set back to it, share `bundles.jsonl`, in which ids then repeat, and the later overwrites `config.json`. A torn write makes `read_bundles` fail on the line it shares with the next record, despite
  `telemetry.py:260-263`. A flow id of an IPv6 packet is read from IPv4 offsets. An interrupt
  between the callback's work and its verdict can drop the packet in hand.

## 5. What is proved

All for every value of the constants that satisfies the named assumptions. Most of these say what
set a constant is taken from (`GatewayAssumption`, `WorkerAssumption`, `WalkAssumption`,
`SchedulerAssumption`, `SegmentAssumption`, `PlayerAssumption`, `ScriptAssumption`,
`CaptureAssumption`). Four say more, each as the code or its data justify it:

* `RoundsAssumption` (`GatewayProperties`): the bound on the iterations of one poll lets the smallest credit
  add up to the largest bundle. For 10000 iterations, a quantum of 1500 bytes and the weights 10, 1
  and 1 that holds of bundles up to 4.9 MB, and packets are smaller than that by three orders of magnitude.
* `SegmentAssumption` also has the guard band cover both the lateness of a process and the light time, and two guards
  fit in a second; the compressed plan has two or more contacts with a second between any two.
  `DrainAssumption` (`DtnProperties`): the drain outlasts one injection interval and the light time.
* `TracesAssumption` (`LiveProperties`): the times of a trace never go back, and the unit of the model's clock holds
  them at the broker's speed, since the model has integers where the code has floats.
* `FlowsAssumption` (`LiveProperties`): a flow stops after it starts, as every flow of `traffic_model.py`
  does. Section 4 says what happens to one that does not.

By component:

* **GatewayProofs: types.** `Shape` is the inductive invariant of types: it strengthens `TypeOK` with
  what the steps rely on, above all that the round-robin order is a permutation of its classes
  and that a bundle is named by a number already given. `ShapeInvariant` and `TypeInvariant` follow
  by one lemma per action. `DeficitInvariant` needs `Shape` only: credit is added exactly when the head
  costs more than the deficit.
* **GatewayProofs: the buffer.** Lemma `StepKinds` sorts the steps of both threads into three kinds: the
  queues stay as they are, one bundle leaves, or the arriving bundle enters at the end. `BufferOrder`
  (queues increasing, nothing gone queued, the arriving bundle newest, arrival order complete
  under `fifo`) is inductive over those kinds and gives `QueuesAgreeInvariant`. `BytesInvariant` follows
  from the same kinds and from counting the units of size of a set of bundles: `bytes` alone is not
  inductive, since taking the same bundle out twice would break it, which `BufferOrder` excludes.
* **GatewayProofs: places.** `PlaceShape` (each bundle is queued, in hand, offered, or decided by exactly one line of
  `gw.jsonl`), `LockShape` (which thread holds the lock where) and `ClockShape` (arrivals are recorded in the
  order of time, and nothing queued was dead at an arrival that is found not to fit) are inductive together,
  over `BufferOrder`. Lemma `MoveKinds` then says of every step that it records a bundle, leaves all of them
  where they are, or moves one under a stated condition. This gives `OnePlaceInvariant`; with
  `TimeShape` (the poll under way read its clock inside a contact and with the link free)
  `ForwardedInTimeInvariant`; and, since each kind is a step of `BundleStore` or a stutter under `PlaceOf`,
  the refinement `StoreImplemented`.
* **GatewayProofs: work conservation.** That a poll returns nothing while something waits can only be the fault of the
  bound on iterations. `TurnShape` relates the count of iterations in a poll to the deficits: since the
  poll holds the lock, no arrival interferes, and a class that waits gets a credit on each of its turns and keeps
  it. So the count bounds, from below, the deficit of every waiting class, and the head's cost, from above, the
  deficit of a class that could not send; `TurnsSuffice` and `RoundsAssumption` make the two meet
  before the bound. Hence `WorkConservingAlways`.
* **BasicProofs and PlanProofs: plans.** The count of starts up to a time splits the sorted plan
  (`BisectRightFinds`), from which both queries are right (`AnswersRightAlways`), and a walk by `next_after`
  goes from each window to a later one until none ends later (`WalkGoesOn`). In a sorted list,
  neighbours apart means all apart (`ApartIffDisjoint`), hence `RefusedIffOverlapAlways`. A walk has visited the first windows
  and is about to ask for the next (`WalkUpcoming`), hence `WalksInOrderAlways`.
* **SchedulerProofs: the queue.** `QueueShape` (arrivals and queue disjoint, who is still pending where) makes
  every step one of three kinds for the waiting bundles: the same, one or several fewer, one more, with
  the counter changed to match. This gives `QueueExactInvariant` and `DecidedOnceAlways`. Given those,
  `UrgentKeepRoom` is inductive: a bundle newly lost either could not be admitted although all bundles of lower
  rank would make way (`RefusedFor`), or is a victim of the lowest rank in a queue that, with the
  arrival, exceeds the cap (`EvictedFor`). `EvictionPaysAlways` needs `RoomShape`: what may still be
  evicted is enough for the arrival, at each step of an eviction.
* **SchedulerProofs: fates.** `WindowShape` says where the walk is; `AliveShape` that whoever waits after expiry lives
  on, and that a drain loop only goes through bundles that arrived before the window's end; both together
  make every marking agree with the deadline (`FatesMatchDeadlinesInvariant`). `BudgetShape` adds up the bits
  sent in a window and those remaining, and says that nothing was sent in windows still to come - the walk
  never returns to a window - which gives `WithinBudgetInvariant`.
* **SchedulerProofs: the drain.** `DrainShape`: whatever the first loop has sent comes before whatever it still has to
  try, and a bundle left behind does not fit beside those sent before it. The second part only gets
  stronger as more is sent, since what comes before a bundle only grows; FIFO without skip-over has to keep
  that nothing is tried after the first misfit. At the close of the window this is `GreedyInOrder`. The order
  itself need not be transitive for the argument.
* **SchedulerProofs: round robin.** That no class is starved in a window (`HeadsServed`) holds only while the bound on the rounds
  is not reached. `RobinShape` relates the rounds made to the deficits and to what the window sent: a waiting class
  whose head fits gains at least a twelfth of what remains in a round, so it sends at least once in
  twelve of them. Hence `HeadsServedInvariant`, whose hypothesis `RoundsSuffice` says that the bound is at least twelve
  times the bundles of a class.
* **SchedulerProofs: the end.** Every step of a run lowers `Measure` in lexicographic order: the windows left, the stages of the window, the arrivals
  or rounds, the turns of a round, the items of a list (`RunFalls`, one lemma per group of actions). `RoundsShape` adds what that needs: a
  round begins within the bound on rounds, and with a class to serve. Hence `RunCountsDownAlways`. The other half is that no
  loop is stuck with something left and no first among it: `AheadOrders` shows that the sort keys of all policies, the densities
  compared by cross multiplication included, order bundles up to ties, so that with arrival as the tie-break they are total orders
  (`OneForemost`), and a total order on a finite set has one first element (`FirstInOrder`). Hence `ChoicesMadeInvariant`.
* **SchedulerProofs: emergencies.** What becomes of an emergency under a policy that puts emergencies first does not depend on the
  other bundles. `ArrivalShape`: arrivals are taken in the order of the workload. `UrgentShape`: an emergency is refused exactly
  when the earlier ones still queued leave no room (`NoRoom`), goes in the first window that has room for it
  beside the earlier ones (`MayGo`), and is pending exactly until then. At the end the fates are `Settled`, a condition that mentions
  only the list of emergencies; two settled outcomes agree (`EmergenciesAgree`), as the least emergency on which they differ shows.
* **SweepProofs.** `RunShape`, the conjunction of the scheduler's invariants, holds from every state a run may start in
  (`Starting`), and `NextRun` leads from the end of one run to such a state for the next: the variables that the code makes anew are all
  that a run relies on. So the scheduler's theorems hold in every run of a sweep (`SweepQueueExact`, `SweepHeadsServed`);
  the columns of a table add up (`TablesCompleteInvariant`), by sums over the bundles; and since every recorded run of a policy
  that puts emergencies first is settled for its workload (`IsolationShape`), `EmergencyIsolatedInvariant`. Which table is whose
  follows from the order of the runs (`OrderKept`, `NumberOf`): `TablesInPlaceInvariant`. The scheduler's `Measure`, below the number of
  runs left, bounds a sweep: `SweepCountsDownAlways`.
* **SweepProofs: comparison.** `EmergencyNoWorse` says that strict priority is optimal among the policies, for emergencies of one size and
  lifetime of which it refuses none. The argument is an exchange. A window is pressed if
  a lost emergency lives to see it, and every window from it to that one's arrival leaves behind an emergency that could have gone
  in it. In a pressed window strict priority sends as many emergencies as fit (`PressedFull`), because what it leaves behind
  did not fit beside the earlier ones (`IsolationShape`); and an emergency that is lost, or goes in a pressed
  window, could have gone in no window that is not pressed (`PressedClosed`), because the one left behind is no earlier.
  So whatever another policy sends of these, it sends in pressed windows, where it has no more room
  (`CountByWindow`, `EqualWeights`, `Exchange`): it delivers no more (`DeliversMost`). The mission utility follows by adding up
  the columns (`ExpiresLeast`, `UtilityOfEmergencies`). That none is refused is needed: section 4 has the counterexample.
* **SweepProofs: sizing.** Every arrival of a profile lies within the gap (`TraceInGap`), and one contact follows that carries all there can be
  (`OneGap`). So the whole backlog is in the buffer at once: its bytes stay within the cap (`GapShape`, `HeldFits`),
  all of it but what died in the gap is delivered (`AllSent`), and a trial tells exactly what it is taken to tell: with
  priority-aware admission it is safe only if the cap holds the protected backlog, and then always
  (`SafeIsEnough`, `EnoughIsSafe`, from the scheduler's `UrgentKeepRoom`); with class-blind admission, iff that backlog is among the one set of
  bundles that each fit beside those kept before them (`BlindTells`; there is only one such set, `KeptOnce`). `Bracket`
  carries this through the bisection: its upper end is enough, its lower end is not unless it never
  moved, and its width is halved (`Narrow`). Hence `LossesExplainedInvariant` and `SizedRightInvariant`, the latter under
  `IterationsSuffice`: two to the number of halvings, written as a list of powers because the prover has no exponents, is
  at least the backlog in units of the grid. For the 40 halvings of the code that is a backlog of 2^40 units.
* **DtnProofs.** `SegmentTimes` says how far behind its schedule each process can be: `SwitchTimes` that the
  toggler made exactly the switches due, the last one perhaps not yet; `WorkerTimes` that what is sent
  carries a time at most `Late` old; `BundleTimes` that a stored bundle which outlives the first `Late` ticks it shares with a
  contact has left its node by then. `Tick` is what could break these, and is disabled when anything is overdue (`TimelyTick`).
  Then `NoRetransmitRideInvariant`: a node forwards in a contact, whose end is a guard and more before the
  link goes dark (`LitForRides`). `PredictionSoundAlways`: the contact that carried the bundle witnesses
  the forecast (`RideForecast`). `PredictionCompleteAlways`: for a bundle forecast with slack there is one
  contact that it must have left in, by then (`SureContact`, `SureLeaves`).
* **DtnProofs: the closed form.** A round of injections is a second of the schedule: `RoundTimes` says that the clock read in round s lies in second s,
  from which a bundle's forecast is certain for some seconds, excluded for others and open for the rest (`RoundForecast`).
  So `predicted` lies between the count of the seconds that must be forecast and of those that may (`PredictedShape`), at any time up to the
  analysis. Both counts are then taken contact by contact (`ClosedUpTo`): each adds the length of a contact and the part of its
  gap within a lifetime, up to one bundle, and together they are the closed form. Hence `ClosedFormCloseInvariant`.
* **DtnProofs: compression.** What `SegmentAssumption` asks of the compressed plan is a fact about rounding: a rounded quotient is within
  half of the quotient (`RoundedNear`), so times more than `K` apart stay a second or more apart (`RoundingSpreads`).
  Hence `RoundingKeepsPlan`: a plan whose contacts and gaps are all longer than `K` seconds keeps its shape. Those of
  `lcrns_relay_contact_plan_1sv.csv` are 15493 s and more, and `K` is 720.
* **LiveProofs: capture.** `CaptureOrdered` (the kernel queue, the packet in hand and each file in the order of
  the packets) gives `CaptureOrderInvariant`; `Labels` and the arithmetic of marks and headers
  (`MarkReadBack`) give `LabelsKeptInvariant`. Two processes meet in a directory only when `run_dir`
  gives both the same name (`LineOrder`), hence the last conjunct of `CaptureOrder`; it asks nothing of the wall
  clock. For `TraceLossInvariant` the count itself is not inductive: `LossPaid` counts the packet in hand as let
  through once its record was tried, takes for lost what has no line that is whole, alone and ended (`AtRisk`),
  adds the files of all directories that end in a torn line, which will cost the next record (`TornFiles`), and
  allows the process still alive no loss of its own yet. For `TwinTracesInvariant`, `FileComplete` says that an undisturbed capture has one chunk per packet taken, in
  order; that `Convert`, defined by recursion over the packets, holds the record of each IPv4 packet at
  its place (`ConvertRight`) is shown by looking at the first packet where it would not.
* **LiveProofs: script and channel.** `ScriptPlayed`: what has been executed is an initial part of the
  script in its order, and a flow is on when its ON line is in it and its OFF line is not; so between two lines, the flows on
  are those planned (`OnAsPlanned`), and their rates add up to no more than the peak (`PeakIsPeak`). `ChannelPlayed`: in
  every phase of the player, the gains are those of the snapshot before the one waited for, and the wait began when that
  one was due, up to the late wake-ups of this pass. This gives `OfferedAsPlannedInvariant` and `ChannelFollowsInvariant`.
* **CappedProofs.** The merge gives every event a rank of its own, so each place up to the number of events is filled and times do not
  go down along the workload (`MergeInOrder`, `WorkloadInOrder`). `Taken`, what the buffer should have taken of the first k
  events, is a function of the workload alone and never changes afterwards (`TakenStays`). `HeldShape`: the buffer
  holds what was taken, except for bundles that are dead for every event and checkpoint still to come (`HeldIsAlive`);
  so pruning at a checkpoint, which an event in between does not see, changes no later decision (`NoteStep`, `TakeStep`),
  and each point noted stays right. Hence `FillSeriesInvariant`, for checkpoints in ascending order, as `run_fig7.py:9` makes them.
* **BasicProofs: sums.** A sum over a finite set, as the community modules define it by folding, has a table over
  subsets, exists, is a natural number, and changes as expected when an element is taken out or two
  sets are joined. No induction theorem applies (they take an operator as a parameter); each fact is shown by taking a set of
  least cardinality for which it fails.

Only model-checked: the liveness properties (`RunEnds`, `SweepEnds`, `WalksAll`, `Ends`, `EveryPacketJudged`), which are
beyond the prover, as is `ENABLED`. For the sequential programs their safety part is proved: a run or a sweep that
goes on comes nearer its end with every step (`RunCountsDownAlways`, `SweepCountsDownAlways`), always has a next thing to do
(`ChoicesMadeInvariant`), and what it has at the end is what it should have (`TablesInPlaceInvariant`,
`WalksInOrderAlways`). That the next step is then taken is the fairness of `SweepSpec` and `WalkSpec`.

## 6. What is not modelled

The parser of GTP-U and the QoS map (decoding), connections to uD3TN that fail, the tables that `analyze` prints,
float rounding, memory, the snapshot and decision files of the telemetry writer (nothing under `src/` reads them back), the iperf3 fallback
of `run_traffic.sh`, packets too short for a header, the noise floor and signal probe of the brokers. Lab scripts, figures,
ray tracing and images are I/O or numerical code without state.

## 7. Plan

Done: the gateway, the plan, the scheduler, the measurement, the sweeps, the live path with its capture, the
workload generator, sizing and the capped buffer.

Left, in this order: the measurement with the live gateway in place of the bridge (`GatewayWorker` joined to
`DtnSegment`); round-robin shares over a long backlog.
