# HydroGarden: a TLA+ model of the controller

HydroGarden is the firmware of a hydroponic planter on a Raspberry Pi: a C++ daemon
that switches a pump, a feeder and a grow light through relays, keeps a schedule, and
offers a web server and (when a display is attached) a touch screen. This directory
models the parts whose correctness depends on time, on the order of steps of several
threads, and on what survives a crash; checks them with TLC; and proves the most
important facts with TLAPS.

All line numbers refer to the repository's sources.

## 1. Inventory

### Threads

| Thread | Started at | Runs |
| --- | --- | --- |
| main | `HydroGarden.cpp:12` | starts the web server (and discovery with it), then the scheduler, then sleeps in a loop that never ends |
| scheduler | `Scheduler.cpp:9` | `schedulerLoop`, about once a second |
| two web threads | `WebServer.cpp:6` | Pistache handlers: `GET /info`, settings, logs, update |
| discovery | `Discovery/Discovery.cpp:45` | the UDP library's thread that announces the device; its REST handlers run on the web threads |
| screen | `HydroGarden.cpp:23` | main, in its other branch: LVGL callbacks and the status task of `UI.cpp`; `HydroGarden.cpp:20` forces headless mode, so that the program as committed does not run it |

The only mutex of the program is the one inside `Settings::GetInstance`. Every other
piece of shared state (the scheduler's flags, `Hardware::init`, the log, the settings,
the static buffer `localtime` returns) is unprotected.

### Components

| Component | State | Operations | What makes it correct |
| --- | --- | --- | --- |
| Scheduler | `lightOn`, `pumpOn`, `feeding`, `lightOverride`, `pumpToggleRunOff`, locals of the loop | the loop, `IsLightOn`, `IsPumpOn`, `feedingTime`, `doFeeding`, `SetLight`, `DoPumpToggleRun`, `GetNext*` | pump, light and dose follow the settings, in time; one dose a day; the flags tell what the relays do |
| Hardware | `init`, three output pins | lazy `initialize`, six relay functions, two sensors | everything off before first use; nothing turned off that another thread has just turned on |
| Info | none of its own | `GetInfo`, which calls functions with side effects | asking changes nothing |
| Touch screen | widgets, settings dialog | button callbacks, status task, dialog | a button leaves no relay on; a manual run ends |
| Process start, service | the process | crash, restart | a restarted process brings the relays into a known state |
| Package installation | files, links, temporary directories | `InstallPackage` with its error exits | a link always points at a whole, checked file; success means installed |
| Settings | a JSON file, one object, one lock | get, set, save, load | what is saved is loaded again, through a crash; no update is lost |
| Web server, discovery | description of the settings | get and set all settings, update, info | a write of all settings is what the next read returns |
| Logs, state changes | two bounded deques | add, read, clear | bounded, newest first, safe to read while written |
| Network configuration | `wpa_supplicant`'s networks | connect, list, status | a failed connection leaves the previous one; a restart finds a network |

How they interact: the scheduler reads the settings on every iteration and calls
`Hardware`; `Info`, the screen and the web server read the scheduler's flags through
queries that *write* (`IsLightOn` clears `lightOn`, `IsPumpOn` ends a manual run) and call
`Hardware` themselves; the service manager restarts a process that dies, and the relays
keep their levels meanwhile; an upload replaces the program's files while it runs.

### What is hard here

- One thread does everything on the schedule, and it sleeps through a dose
  (`Scheduler.cpp:95`): what falls due meanwhile is late.
- Nothing records that today's dose was given. Two sleeps against the length of a window
  keep the loop from giving it twice (`Scheduler.cpp:83`, `:95`, `:115`).
- Queries change the flags that the loop compares (`Scheduler.cpp:204`, `:240`).
- `Hardware` is initialised by whoever comes first, without a lock (`Hardware.cpp:10`).
- `localtime`'s buffer is shared between the call and `mktime` (`Scheduler.cpp:110`).
- A crash forgets the flags and not the relays.
- Nothing that is written is ever synced: a power cut takes what the kernel has not written
  back, also of an update or a dialog that was finished (`Package.cpp:204`, `Settings.cpp:98`).
- An installation is a sequence of file operations that fail separately, twice at once.
- Saving the settings is three steps (`ToJSON`, an `open` that truncates, a write) without a
  lock, on the screen's and the web server's threads, and a cut file keeps every later
  process from starting (`Settings.cpp:81`, `:158`).
- Connecting to a network is a dozen commands to another process, which has a will of its
  own; each may fail, and most answers are not looked at (`NetworkTools.cpp:368`).

`PROJECT.json` lists each hazard at its line with the properties that watch it.

## 2. Modules

| Module | Models |
| --- | --- |
| `GardenTime` | `Scheduler.cpp`'s calendar arithmetic: start of day and hour, a time of day, the half-open window, the announced times |
| `Hardware` | `Hardware.cpp`: pins, lazy initialisation in four steps per calling thread |
| `Scheduler` | extends both: `schedulerLoop` with the functions it calls, the clock, crash and restart |
| `SchedulerProperties` | what the scheduler owes its garden, with the inductive invariants |
| `SchedulerProofs` | TLAPS proofs about `Scheduler`: types, doses, flags |
| `PunctualityProofs` | TLAPS proofs of its deadlines |
| `DailyFeeder` | what the scheduler promises the feeder, abstractly: off or giving a dose |
| `FeederProofs` | TLAPS proof that `Scheduler` implements `DailyFeeder` |
| `Garden` | extends `Scheduler` by the client threads: `Info::GetInfo`, `WebServer::getSettings`, the screen's callbacks, the manual pump run |
| `GardenProperties` | properties of the whole |
| `GardenProofs` | TLAPS proofs about `Garden` |
| `Installer` | `WebServer::update`, `Package::InstallPackage` |
| `InstallerProofs` | TLAPS proofs about `Installer` |
| `SettingsStore` | `Settings.cpp` with its callers: `save_cb`, `WebServer::setSettings` behind `Discovery::setSettings`, the construction at start |
| `StoreProofs` | TLAPS proofs about `SettingsStore` |
| `Wifi` | `NetworkTools::ConnectWifi`, next to a supplicant (external) |
| `WifiProofs` | TLAPS proofs about `Wifi` |
| `MCScheduler`, `MCGarden`, `MCInstaller`, `MCSettingsStore`, `MCWifi` | what TLC checks, with the `.cfg` files of the same prefix |

Operators marked "Mutation" are single plausible mistakes in the definition that follows
them. Each property of a passing run has been seen to fail with one of them put in place
(`mutants` in `PROJECT.json`), so that none holds by the shape of the model.

### Correspondence with the code

`PROJECT.json` ("map") gives the lines of every definition. In short:

- **Steps.** An action of `Scheduler` or `Garden` is one access to what threads share: a
  condition on two flags is two actions, and a flag that is written and read again to pick a
  branch is two more. Three things are taken together: reading the clock and the access that
  follows it; `localtime` and the fields set right after it; and the three writes of
  `initialize`, each to a pin of its own. `Running(p)` says that `schedulerLoop` is at place `p`
  and not inside a `Hardware` call; a call is `Invoke`, and the callee's `TestInit`,
  `TurnEverythingOff`, `Initialized` and `WritePin` follow as steps of the same thread.
  Statements that read settings or write the log have no step.
- **`IsLightOn`** is `LightStart` (read the clock, `localtime`) and `LightTest` (`mktime`,
  compare, clear the flag). The loop's `if` at line 36 is `LightDiffers` and `LightGoesAhead`,
  or `LightStays`; what it does is `LightSet` and `LightSwitches`, which reads the flag again.
  `IsPumpOn` is `PumpStart`, `NoManualRun`, `PumpHour` and `PumpTest`, and `ManualRun` to
  `ManualClear` while a manual run is on; the `if` at line 53 is `ToggleGoesOn`, or `ToggleSeen`
  to `ToggleEnds`; the one at line 61 `PumpDiffers` to `PumpSwitches`. `feedingTime` is
  `FeedStart`, `FeedTest`; `doFeeding` is `Feed`, `FeedRuns`, `FeedEnds`. The steps of a manual
  run are in `Garden`, because without a screen nobody starts one.
- **`localtime`'s buffer** is the variable `tm`. It holds a time and is written and read by
  separate actions. `AnnounceTimes` lets a web thread leave any of the values its calls store
  there, in any order and any number of times: the time as `localtime` breaks it down, the time
  with one field after the other overwritten, and what `ctime` is given. `Leaves` keeps such a
  value only while somebody else is between his own `localtime` and the use of its result;
  every reader fills the buffer first, so that nobody else would ever read it.
- **`GET /settings`** is `GetSettings`, `AnnounceTimes` and `SettingsLevels`. The times of this
  process's log messages, the light's, the pump's and the feeder's go through the buffer, and
  the two level sensors may initialise the hardware. In `getSettings` all of this is inside the
  `if` that asks for the logs (`WebServer.cpp:568-698`).
- **Clients.** `place` is where a handler or callback is, `script` the `Hardware` calls and
  naps it has left, in order; `ScriptCall`, `ScriptNap` and `ScriptWake` work it off.
- **Time.** A `time_t` is a number; the lengths of minute, hour and day are constants, so
  that a few days of a small calendar can be explored; the proofs hold for all lengths. A
  sleep ends at any moment at which its whole seconds have gone by. `MaxLag` bounds how far
  the clock runs ahead of the thread after the end of its last sleep: it is the one
  assumption about the machine's speed, and the runs that need none set it to `MaxTime`.
- **Dose.** The sleep of `doFeeding` is a quotient truncated to whole seconds (`FeedSleep`),
  the window of `feedingTime` the same quotient rounded (`FeedWindow`), which is why
  `SettingsAssumption` has `FeedWindow \in {FeedSleep, FeedSleep + 1}`.
- **Crash.** `Crash` may come between any two steps. It resets the process (`ProcessStart`)
  and leaves the pins alone (`HardwareLost`).
- **History variables** (`fedAt`, `fedByMe`, `bootedAt`, `restarts`; `asked`, `quiet`;
  `unpacked`, `disturbed`, `mess`, `lost`, `abandoned`; `kept`, `mishaps`) record what
  properties speak of. No guard reads them, but for the bounds on `restarts` and `asked`;
  `LogTimes` reads `bootedAt`, for a process's log is no older.
- **Installer.** One action per file operation or per check. A package is a model value with
  a version and two possible flaws. `Upload` opens the package file or, because nobody looks
  at the result (`WebServer.cpp:411`), leaves what an earlier upload has put there;
  `Receive` may leave a torn file. Two threads share `/tmp/HydroGarden.pkg`; each has a
  temporary directory. `copy_file` is two steps, with a torn copy in between. The roll-back
  at lines 210 and 227 indexes with the wrong variable and reads past the end: that is
  undefined, and the model knows three outcomes (it has no effect, it throws, or it ends the
  process). `Resolves` is `exists`, which follows the link, so that a dangling link is not
  removed and `create_symlink` throws. `CleanUpThrows` and `LinkThrows` are the exceptions
  nobody catches, for whatever reason the file system has; after the second one a link may
  be gone for good, which `abandoned` records.
- **Caches.** The code never syncs a file. `written` is the set of copies whose content is only
  in the kernel's cache, `diskLink` and `onDisk` what links and settings a power cut would
  leave; `WriteBack`, the kernel's, may come at any time or never. `ProcessDies` keeps the
  cache. `PowerCut` loses it: a copy that was not written back may be torn, links are as they
  were last written back, the settings are the old ones or an empty file. Directories are
  taken to be written back whole, in one moment, before or with the files in them.

- **Relays are noted.** Every relay function ends in `StateChange::Change`, which calls
  `localtime`: `Notes` puts the time into the shared buffer in the same step.
- **Settings store.** The object and the file are functions from the fields of the dialog to
  a few choices; a file may also be cut (opened and not, or not fully, written) or not
  there. A frame per thread holds its place, the next field, the text `ToJSON` has built so
  far and the saves a POST still owes. `Begin` records whether it overlapped another
  thread's save; only histories (`kept`, `mishaps`, `alone`) know of that. `Forwarded` is
  the name a posted setting arrives under, which is none (`Discovery.cpp:150`, `:185`): the
  branches of `WebServer::setSettings` that look for a name are never taken, and what is
  left of a POST is one save for each of the networks. Its walk from one temporary map's
  `begin` to another's `end` (`WebServer.cpp:458`) is undefined: it comes through, hangs, or
  ends the process.
- **Wifi.** One action per command. `Command(n, table, ok)` is every way a command can go:
  carried out and answered; refused because there is no network `n`; failed, with or without
  having taken effect. `Listed` leaves out enabled networks that are not the current one,
  whose line has no flags and so only three fields (`NetworkTools.cpp:212`). `RemoveNetwork`
  and `ListOld`/`DisableNetwork`/`EnableNetwork` are reached from several places; `at` and
  `goingBack` tell which. A refused `add_network` is the number 0 (`:251`). The supplicant
  (`Joins`, `Apply`) is modelled only as far as the program's commands and queries show it.

## 3. Runs

| Run | Module / cfg | Result | Shows |
| --- | --- | --- | --- |
| timely | `MCScheduler_timely` | pass | `PumpFollowsTheHour`, `LightComesOn`, `DoseIsGiven` on a machine at most a second late, through a crash (the instance satisfies `DoseFitsTheHour`) |
| late | `MCScheduler_late` | pass | `RelaysFollowFlags`, `AtMostOneDosePerDay` and the refinement `DosesDaily` (`Scheduler` implements `DailyFeeder`) however late every step is, through a crash |
| manual | `MCGarden_manual` | pass | `ManualRunEnds`: a click on the pump's button and a `GET /info`, both next to the loop |
| shared | `MCGarden_shared` | pass | `PumpHeals` and `FeederIsOwned`: each other callback of the screen and each request next to the loop, through a crash |
| update | `MCInstaller_update` | pass | `LinkedIsWhole`, `MissingOnlyInBetween`, `CleanWhenIdle`, `SuccessIsComplete`: two uploads on two threads, all failures, two deaths or power cuts |
| settings | `MCSettingsStore_settings` | pass | `FileFollowsMemory`, `DialogLasts`, `OnlyCutFilesKill`, `StartsAgain`: three dialogs and POSTs on two threads, a failed save, two deaths or power cuts |
| wifi | `MCWifi_wifi` | pass | `HomeIsBack`, `NothingLeftBehind`, `OthersStay`, `RestartFindsNetwork`: two clicks on Connect, a failed command, a crash, and a supplicant that does as it likes |
| light | `MCScheduler_light` | violation of `LightGoesOff` | the light is never turned off |
| restart | `MCScheduler_restart` | violation of `PumpOffAfterRestart` | a restarted process leaves the pump of its predecessor running |
| buffer_race | `MCGarden_buffer` | violation of `AtMostOneDosePerDay` | `GET /info` between `localtime` and `mktime` makes a second dose |
| stop | `MCGarden_stop` | violation of `PumpStops` | a manual run that is over is forgotten without turning the pump off |
| success | `MCInstaller_success` | violation of `SuccessMeansInstalled` | an unreadable package is installed "successfully" |

The passing runs also check the type invariant of their module (`TypeOK`, `GardenTypeOK`,
`InstallerTypeOK`, `StoreTypeOK`, `WifiTypeOK`).

### Bounds, and why they are enough

- **timely**: two hours a day, nine minutes of two seconds an hour, so that an hour without
  a dose, an hour with one, and a light that spans neither boundary all fit; the pump time
  and the dose are longer than `LoopDelay`, and `MaxTime` is two days and two seconds, so that
  every deadline falls due in both kinds of hour and on a second day. The device is
  switched on at six times: at and within every phase. One crash, anywhere.
- **late**: one hour of five seconds a day, two days and more, `MaxLag` as long as the run:
  every interleaving of steps and seconds.
- **manual**: an hour of three seconds that is also the day; one click on the pump and one
  request, each at any step, so that the three writes of `DoPumpToggleRun` and the reads and
  writes of two `IsPumpOn` fall in every order. `ManualRunTime` is zero, which makes the run
  end as soon as the clock has moved on, and `MaxTime` leaves the loop the time for it
  (`InTime`). `FeedWindow` is zero: the dose plays no part.
- **shared**: an hour of five seconds that is also the day, seven seconds in all, one crash, and
  in each behaviour one click or one request (`Together` lists what may come together), at any
  step of the loop, of a dose and of an initialisation. Two clicks at once are impossible: LVGL
  runs one callback at a time. A pump time of one second and `MaxLag` zero make `Patience` three
  seconds, so that `PumpHeals` has something to say about the last second of the hour; with
  `MaxLag` one, an hour of eight seconds and a crash it has been seen to hold in 13 million
  states, too many for a run that is repeated. The light is never due (`LightDuration` is zero):
  a click may still turn it on.
- **update**: two files, so that a failure can come before, at and after a file that was
  already linked; two uploads on two threads, one after the other or overlapping; two deaths or
  power cuts, so that the second meets what the first has left; five packages: the delivered
  one, a newer one, another build of that version, one with a wrong hash, and one without a
  description. Uploader threads are interchangeable (symmetry).
- **settings**: three fields, so that a save can be overtaken between any two of them; two
  choices, since only a difference matters; two networks in a POST (the code has five), so
  that a POST saves more than once; a screen and one web thread (two POSTs at once do to each
  other what they do to a dialog); three requests; one failed save; two deaths or power cuts,
  so that a process can be started on what one left, and die again.
- **wifi**: two names and two networks to begin with, of either name and enabled or not, so
  that the wanted network may be missing, there, there twice, or the one the device is on;
  two more numbers for networks that are added; two calls, so that the second one meets what
  the first one left; one failed command and one crash, anywhere.

`TimeIsUp` is a stuttering step at `MaxTime`, so that TLC's deadlock check still finds a loop
that is stuck before. The runs of `MCInstaller`, `MCSettingsStore` and `MCWifi`
switch that check off, because these do stop when all requests are used up and nothing is
in progress, the settings also with a process that cannot start.

### Fairness

`FairGardenSpec` assumes weak fairness of the scheduler's steps and of the clock; the loop
never waits for anyone, so that the operating system's scheduler is all it takes. Nothing is
assumed of clients: a browser may stop in the middle, and a callback's thread may be
preempted for as long as it likes. The liveness property `ManualRunEnds` excludes what the
end of modelled time cuts off (`InTime`) explicitly. `FairSpec` of `SettingsStore` assumes
that the service manager starts the process (`Restart=always`) and that main's thread, which
constructs the settings before any other thread runs, goes on; nothing is assumed of saves
on other threads.

### What the violations are

1. **The light stays on** (`Scheduler.cpp:204`). `IsLightOn` clears `lightOn` when the window is
   over; the loop then compares two equal values and never calls `LightsOff`.
2. **The pump stays on after a restart** (`Hardware.cpp:10`). "Turn everything off to be safe"
   (line 26) is part of an initialisation that runs on the first relay operation. A process
   that starts in the off part of the hour performs none.
3. **Two doses** (`Scheduler.cpp:110`). A web thread's `localtime` overwrites the buffer
   `feedingTime` hands to `mktime`, the "start of the day" becomes the current second, and a
   dose is due. It needs a request in the gap between two calls, which the run finds.
4. **A manual run leaves the pump on** (`Scheduler.cpp:240`). `IsPumpOn` clears both the
   flag and the end; the branch at line 53 that calls `PumpsOff` never sees them.
5. **Success without installation** (`Package.cpp:410`). `readDesc` catches what
   `InstallPackage` means to catch, and returns an empty description.

Read in the code and not run as checks of their own:

- a file that was cut while it was saved keeps every later process from starting, because
  the parser runs outside the `try` blocks (`Settings.cpp:158`; `StartsAgain` and
  `OnlyCutFilesKill` have to except it);
- a posted setting never arrives, although `Discovery.cpp:141-153` and
  `WebServer.cpp:497-523` are there to set it (`Discovery.cpp:150` looks it up and `:185`
  hands on an empty one; `Forwarded`);
- nothing is synced, so that a power cut after an update that succeeded, or after a dialog
  that was saved, may undo it or leave a torn file (`Package.cpp:204-261`,
  `Settings.cpp:89-98`; `lost` in `LinkedIsWhole` and `DialogLasts`);
- a `create_symlink` that throws leaves no program (`Package.cpp:261`; `abandoned` in
  `MissingOnlyInBetween`);
- a package file that could not be opened is not noticed, and an earlier upload's package is
  installed in its place, "successfully" (`WebServer.cpp:411`; `SuccessIsComplete` is about
  the package that was unpacked);
- `getSettings` reads one network too many (`WebServer.cpp:629`);
- networks are saved under `networks` and looked for under `network` (`Settings.cpp:125`,
  `:213`);
- a refused `add_network` is taken for network 0, which the call then renames and may remove
  (`NetworkTools.cpp:251`; the `mishap` in `OthersStay`);
- `ConnectWifi` removes a network it did not add when its key is refused
  (`NetworkTools.cpp:379`);
- a process restarted within the window gives the dose again (`AtMostOneDosePerDay` is about
  one process for that reason);
- a dose that rounds to zero seconds is never given (`Scheduler.cpp:115`);
- `PumpRunTime` is described in minutes (`WebServer.cpp:162`) and used in seconds
  (`Scheduler.cpp:250`), here in seconds;
- `feeding` is never reset;
- `SetLight` toggles and does not read its argument (`Scheduler.cpp:208`);
- `FeedOff` logs `LightOff` (`Hardware.cpp:88`).

## 4. Proofs

All theorems hold for every value of the constants that the named assumptions allow: every
calendar and setting, any number of threads, files, packages, networks, requests, failed
operations and crashes.

| Module | Theorem | Statement |
| --- | --- | --- |
| `SchedulerProofs` | `TypeCorrect` | `Spec => []TypeOK` |
| | `AtMostOneDose` | `Spec => AtMostOneDosePerDay` |
| | `FlagsTellTheTruth` | `Spec => []RelaysFollowFlags` |
| `PunctualityProofs` | `PumpIsPunctual` | `Spec => []PumpFollowsTheHour` |
| | `LightIsPunctual` | `Spec => []LightComesOn` |
| | `DoseIsPunctual` | `Spec => []DoseIsGiven` |
| `FeederProofs` | `SchedulerDosesDaily` | `Spec => DosesDaily` (refinement of `DailyFeeder`) |
| `GardenProofs` | `GardenTypeCorrect` | `GardenSpec => []GardenTypeOK` |
| | `FeederNeverAlone` | `GardenSpec => []FeederIsOwned` |
| `StoreProofs` | `StoreTypeCorrect` | `Spec => []StoreTypeOK` |
| | `MemoryIsInTheFile` | `Spec => []FileFollowsMemory` |
| | `WhatWasChosenLasts` | `Spec => []DialogLasts` |
| | `CutFilesHaveACause` | `Spec => []OnlyCutFilesKill` |
| `InstallerProofs` | `InstallerTypeCorrect` | `Spec => []InstallerTypeOK` |
| | `NothingIsLeftOver` | `Spec => []CleanWhenIdle` |
| | `LinksAreWhole` | `Spec => []LinkedIsWhole` |
| | `LinksAreMissingInBetween` | `Spec => []MissingOnlyInBetween` |
| | `SuccessIsTrue` | `Spec => SuccessIsComplete` |
| `WifiProofs` | `WifiTypeCorrect` | `Spec => []WifiTypeOK` |
| | `HomeComesBack` | `Spec => []HomeIsBack` |
| | `NothingIsLeft` | `Spec => []NothingLeftBehind` |
| | `OthersAreKept` | `Spec => OthersStay` |
| | `RestartHasANetwork` | `Spec => []RestartFindsNetwork` |

### The scheduler

The theorems rest on `CalendarAssumption` (a minute, an hour and a day are positive numbers) and
`SettingsAssumption` (settings are natural numbers; the dose's window is its sleep or one
second more; the scheduler is a thread; `NoCall` is not a call).

*At most one dose.* The property alone is not inductive: whether the loop may start a dose
depends on how long ago it ended one, which only the place it is at and the clock values it
holds tell. `DoseInv` adds, for each place, how far behind `now`, `wakeAt` or `readAt` the last
dose's start is (`DoseTiming`). The heart is the lemma `WindowIsOver`: a time that is at
least `FeedSleep + 1` after a dose and inside a window belongs to a later day, because the
window is no longer than that. Monotonicity of rounding down (`RoundDownMonotone`) carries it
over midnight.

*Flags and relays.* `RelaysFollowFlags` speaks of moments outside `Hardware`. `FlagsInv`
extends it into calls: only the relay a call is for may disagree, the flag already says what
the call will do (`Announced`), and the stages `turnOff`, `ready` and `write` know `init`. For
the light it says one direction only, lit if it counts as on; the other one is what the `light`
run shows to be false. Before the
initialisation a relay may be at any level, for a dead process may have left it so; turning
everything off is what makes flags and relays agree for the first time.

Both invariants hold of `Scheduler`, where one thread owns everything; run `buffer_race` shows
that the first property fails as soon as a web thread takes part, and the `stop` run that
flags and relays part when a screen does.

### The deadlines

The pump, the light and the dose are late by `Delay` at most: one iteration's lag, a second of
sleep and the next one's lag, and in the first hour of the day a dose and its lag on top.
That this is so in *every* hour was too much to claim: a dose, and the lag after it, that
reaches beyond the first hour delays the pump of the second one, and one that is longer than a
day delays the next dose. The three properties therefore begin with `DoseFitsTheHour`, which
asks for little (a few seconds of feeding against an hour) and without which they are false;
the settings themselves do not enforce it.

`DeadlineInv` says how the deadline is kept at every moment before it. `Awake` bounds the clock
by the thread's last wake-up, for each place; `Fresh` says how old the clock value and the start
of the hour are that a decision is made with, although they were read in different steps;
`Settled` that at the places between a comparison and the call that follows from it nothing has
taken the decision back;
`CallPlaces` says which relay calls the loop can be in where. For something that fell due at
time `d`, an iteration that has yet to look is `Catching(d)` (it woke up at most `MaxLag`
later, or was held up by the dose), and one that looked too early has `Missed(d)` and woke up
before `d`, so that the next one catches it. `PumpOverdue`, `LightOverdue` and `DoseOverdue` say
so by the loop's place, and `PumpUpInv`, `PumpDownInv`, `LightInv` and `DoseDueInv` for the due
times of this hour and this day. A tick that begins an hour makes something due and is the
moment at which the invariant has to be established anew: `RoundDownTick` and
`RoundDownSame` are the arithmetic of it. The conclusion uses `FlagsInv`, for
only it turns what the flags say into what the relays do.

### The feeder

`DosesDaily` maps the abstract feeder's `on` to the level of the feeder's pin, and the time of
the living process's last dose to `fedAt` if `fedByMe`. A step of the scheduler inside
`Hardware` that raises the pin must be a `StartDose`, hence come from off and on a day without
a dose; one that lowers it must be a `StopDose`, hence not cut a dose short, unless the
process has not given one: then it is the first initialisation after a restart. `DoseInv`
gives the day and the duration; `FeederWasOff` adds that the loop raises the pin from off, or
after the initialisation has lowered it.

### The garden

`GardenTypeCorrect` is the type invariant of all threads together. Each step of a client
changes some of the scheduler's variables; the lemmas named after them (`BufferTypes`,
`OwnTypes`, `PlaceTypes`, `AnnouncedTimes` and so on) say which values it may leave there,
and the scheduler's own steps are those of `SchedulerProofs`, whose lemmas about `Hardware`
are stated for any thread.

`FeederIsOwned` is not inductive: when a callback on its way to `FeedOn` raises the relay,
only the rest of its script says that it will come back. `FeederInv` adds that a script with
a `FeedOn` in it has a `FeedOff` later on (`StopsWhatItStarts`), that the rest of a script
has one while `FeedOn` is being called (`WillStop`), where the loop calls the feeder's
functions (`FeedCalls`), and that a thread which has initialised the hardware finds it so
(`Readiness`). Whoever is inside `FeedOn` keeps its claim when it leaves it; whoever
completes `FeedOff` gives it up, but then the relay is down, for all owners. That one
owner's `FeedOff` cuts another one's dose short is what the property does not exclude, and
the code does not.

### The settings store

`StoreInv` adds to the properties who may be where while the process is in which state
(`BusyByProcess`), why a file may be cut (`CutIsExplained`), that a thread marked `alone` is the
only one busy (`AloneIsAlone`, `Overlaps`), how much of a dialog is in memory and how much of
the memory is in the text so far, by the thread's place and field (`Progress`), and that a
file at rest holds what was kept (`Remembered`). Without `Progress` neither property survives
the write: it is what turns three single steps into one save.

### The installation

`InstallerInv` adds to `LinkedIsWhole` what a thread knows at each place: the package it has
checked is signed and of the version its copies are named by (`LocalsFit`), the copies it has
made since it began are whole (`CopyIsWhole`), how often a version has been unpacked
(`Counted`), and that an undisturbed thread's copies and links stay as it left them
(`AloneGetsOn`). The same is asked of the links as they are on the disk
(`diskLink`), for a power cut makes them the links; what it tears it records in `lost`.

`CleanWhenIdle` and the bounds of the counters need counting. `CountInv` says that there are as
many temporary directories as threads that hold one (more, after a mess), that directories and
threads about to make one are together no more than there were uploads, and that neither are
the times a version was unpacked and the threads still about to unpack. `AtEffect` gives the
number of threads at some places after a step of one of them, by the weights of the two places;
`CountStep` then needs to see nothing but a balance.

### The network

`WifiInv` follows one call: until something fails, the network it works on is there, and is the
only one that was not there before (`CallFits`); it has the wanted name or none (`IdFits`), so
that it is not the network the device was on, which therefore stays in the table, is enabled
until the others are disabled (`HomeFits`), and is enabled again at the end. What is saved was
current a moment ago, or still has an enabled network (`SavesWell`). `GoesOn` is the lemma for
all the steps that neither add nor remove anything.

### Only model-checked

Every invariant and every action property that a passing run checks is a theorem, but
`PumpHeals`: its proof would need, for every place of the loop and of every client, how old
each value in the shared buffer is, as `DeadlineInv` says it for one thread. Liveness
(`StartsAgain`, `ManualRunEnds`) is left to TLC: its proofs need rules for weak fairness
with `ENABLED`, which the proof system does not support. What the violating runs show needs
no proof: a counterexample is one. `AtMostOneDosePerDay` and `RelaysFollowFlags` are
theorems of `Scheduler`, where one thread owns everything; they do not carry over to
`Garden`, as the runs `buffer_race` and `stop` show.

## 5. Not modelled

- A clock that is set, daylight saving, leap seconds. Settings that change while the
  scheduler runs: they are constants of `Scheduler`, and variables of `SettingsStore` only.
- The three `*Status` functions of `Hardware`, which return a variable nothing writes and have
  no effect; the level sensors' readings.
- Text: log messages, HTML, JSON, the screen's widgets, the announced times.
- Two schedulers: the web server runs before main asks for the scheduler
  (`HydroGarden.cpp:17`, `Scheduler.cpp:22`), and a first `GET /info` may create a second
  one. Both would share every flag and relay; none of the properties is meant to hold then.
- The deques of `Logger` and `StateChange`, which several threads change without a lock:
  overlapping operations on a `std::deque` are undefined, and a model of them could only say
  that anything follows. What `StateChange` does to `localtime`'s buffer is modelled.
- The description of the settings in `Discovery`: sequential conversions to JSON, and a UDP
  announcement by a library. Of `getSettings`, everything but its calls of `localtime` and of
  the level sensors; the network it reads past the end of the vector (`WebServer.cpp:629`) is
  undefined.
- What `POST /settings` would do with the groups `Status` and `Logs`
  (`WebServer.cpp:463-494`): no setting arrives under the names it looks for.
- In `SettingsStore`: the networks' contents, the host name, and `headless`, which main
  overrides; a file that is cut in the middle rather than empty is not told apart from an
  empty one. In `Wifi`: scanning, the second wait in `connect_cb`, which changes nothing,
  and the functions by name that nothing calls.
- In `Installer`: the program's own start from a link, packages with different sets of files,
  a malformed destination in a description, and any outcome of the roll-back's read past the end
  but the three named above. A power cut that loses some of the links of one directory and not
  others is not there: a directory is written back whole.
- `CreatePackage`, the mobile client, `ImgJSON`, the unused endpoints (`Logs.cpp`,
  `SettingsEP.cpp`), `Task.h`, and vendored libraries. Nothing there keeps state that another
  part depends on.

## 6. Plan

What would come next, in this order:

1. `Settings` as a variable of `Scheduler`, composed with `SettingsStore`: a dose that is
   changed while its window is open (`Scheduler.cpp:115`) is given once more.
2. Which of the scheduler's theorems survive in `Garden` when only some clients take part: the
   flags and relays when no callback of the screen does, the single dose when no request comes.
3. Process start: two threads in `Scheduler::GetInstance`, to find out which properties are
   left with two loops.
