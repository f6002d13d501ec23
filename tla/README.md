# A verification development for claude-sidecar

claude-sidecar is a local HTTP daemon that runs commands on behalf of its
clients: short ones in the request itself, long ones as *jobs* with their own
process group, their output buffered, polled and streamed. This directory holds
TLA+ modules translated from its source, the TLC configurations that check them
on small instances, and theorems that TLAPS checks for every value of the
constants. `PROJECT.json` maps every definition to the lines it models.

To check a run: `tlc -config X.cfg M` for a row of the table below. To check
the proofs: `tlapm JobRunnerProofs.tla` and so on.

## 1. Inventory

Paths are relative to the repository's `src/`.

### Modelled

| Part | State it keeps | Operations | Correct means |
|---|---|---|---|
| Job runner (`pty.rs`, `routes/jobs.rs: create`) | per run: the select loop, its timers, the `KillHandle` (`pid`, `pending`), the escalated flag, a channel of chunks, a one-shot exit channel | spawn the child in a session of its own, type its input, pump its terminal, drain chunks into the job; cancel, deadline and idle clock climb a ladder SIGTERM, grace, SIGKILL; a supervising task calls `Job::finish` | every job finishes, once; a completed job has all its output; the ladder ends the process group; a cancel is not lost in the spawn |
| Job record (`job.rs: Job`) | state, canceled flag, kill callback, last output time, pid, broadcast channel | `push_line`, `mark_output`, `set_pid`, `finish`, `cancel`, `arm_kill`, `subscribe` | first terminal state wins; the event follows the state |
| Line buffer (`job.rs: LineBuffer, Spill`) | the ring of recent lines, the count of lines, the spill file and its offsets | `push` (evict, spill), `plan`, `read_window` | index *i* always means line *i*; a window is exact though its disk part is read without the lock; loss is counted |
| Output stream (`routes/jobs.rs: stream`) | per connection: receiver, boundary, cursor | replay, follow, resynchronise after a lag | every line once, in order, to the end |
| Output polling (`routes/jobs.rs: lines`) | per request: receiver, window, deadline | read, wait, read again, answer | no missed wake-up; final lines arrive with the final state |
| Job registry (`job.rs: JobRegistry`) | the map of jobs | `create` (cap), `get`, `reap_orphans`, `evict_expired` | cap kept; no job with a runner is reaped; every slot comes back |
| Metrics store (`metrics.rs`) | a log of calls, partitions of sealed days | `record`, `compact` (read, seal each day, rewrite), the rollup task | no compaction loses or overwrites rows; every call is counted once; past days get sealed |
| Job watch (`events.rs: spawn_job_watch, diff`) | what the last pass saw of each job, a broadcast channel | one pass: snapshot, read each job's state and count, publish what changed, forget what left | a job's events tell its story in order; the final count is final; every change is announced |
| Event stream and the monitor's job list (`routes/events.rs`, `events.rs: replay`, `bin/tui.rs: spawn_events, spawn_refresh`, `tui/app.rs: apply`) | per monitor: its receiver, the list | replay, live events, lag, reconnect, fetches that replace the list | events alone suffice when none is lost; the list is right in the end |
| Line assembly (`pty.rs: LineAssembler, strip_ansi, emit`) | the unfinished line, the one a carriage return holds | `feed`, `finish` | each stored line is the last frame of a line |
| One-shot calls (`routes/exec.rs`, `batch.rs`, `browser.rs`, `gdocs.rs`, `gdocs_read.rs`, `gdocs/clipboard.rs`, `export.rs`) | per request: its handler, its child process, its tab in Chrome | validate, start, run under a time limit, finish; a batch goes from step to step | every call ends, whatever its command does; tabs are closed |
| Record of calls (`events.rs: start, finish, persist`, `tui/app.rs: apply`) | the server's ring of calls, rows in the metrics store, each monitor's ring | push, stamp, persist, publish; replay | the store is asked for a row before an end is announced; a monitor shows no call as running whose end was announced |
| Diagnostics (`events.rs: record_diagnostic, spawn_job_watch`, `tui/app.rs: record_error`) | the server's ring and its ids, the watch's mark; the ids a monitor saw, its error log | draw an id, push; copy the ring, publish; replay, apply, reconnect; restart | a failure is in the log of every monitor, once |
| Environment refresher (`env_refresh.rs`) | the published snapshot; per capture a thread and a shell | capture under two time limits, kill, publish, sleep | a new environment arrives; an old one never comes back; no shell is left unless its pid came late |
| Monitor's list and log pane (`tui/app.rs`, `bin/tui.rs`, `tui/ui.rs: log_window`) | rows, cursor, grouping, filters; lines, pin, query; the log task; the mode of the keys | rebuild, step, jump; append, scroll, search; a frame opens the stream of the job under the cursor | the cursor stays on its job and its output is loaded; a paused pane holds still and is full |
| Markdown to Google Docs (`gdocs/render.rs, mod.rs, diagram.rs`) | the HTML so far, the table head, the open fence, what waits for Chrome | one event at a time, then one picture at a time | the HTML nests; no text, diagram or image vanishes |
| Index of Google Drive (`gdocs/drive.rs`) | the listing, whether it was cut short | walk, resolve a title | an answer is right for the whole tree, or says that it may not be |

### The rest

| Part | State | Why not |
|---|---|---|
| Stats (`routes/stats.rs`), policy (`config.rs`), errors | immutable | a query, a lookup, a table; the policy's verdict is an input of `OneShot` |
| Startup, logger, health | none | wiring; its shutdown is what aborts a runner in `JobRegistry` |
| Page scripts and the conversion of pages and documents | none | parsing in another interpreter, text rendering |
| Monitor rendering but for the log's window, the overlays' contents, scripts | none | layout |

### Interactions

`POST /jobs` asks the registry for a slot, spawns a supervising task that runs
`pty::run` in a task of its own and calls `Job::finish` with its result. The run
task feeds from a blocking thread through a channel of 512 chunks; the thread
owns the child and its terminal. `DELETE /jobs/{id}` calls back into the run
through the armed kill callback, which touches the `KillHandle` the thread and
the run task share. Readers share with the runner the buffer (a lock held for
each access) and a broadcast channel, written one after the other. A reader,
like a runner, keeps its job alive by holding it, and the reaper counts holders.
The event bus polls the registry; one-shot calls go to the event bus and from
there to the metrics store; the commands of calls and jobs take the refresher's
last snapshot when they start; a monitor is a client of all of them. Within the
monitor, tasks send actions to one loop, which also draws frames; a frame is
where the list meets the log pane, as it opens the stream of the job under the
cursor and tells the task that reads keys what they mean.

## 2. Modules

```
JobOutcome            how a job ends
  JobLifecycle        the abstract job: runs, may be asked to stop, finishes once
  JobRunner           the run, its thread, the child, the signals, the cancels
    JobRunnerProofs   ... and its theorems
LineAssembly          bytes to lines      JobRunnerProofs
LineBuffer            ring, spill file, windows (no actors of its own)   BufferProofs
  LinePager           + clients that page                 LinePagerProofs
    MCFiles           LinePager and MetricsStore for TLC
  JobFeed             + the broadcast channel and the producer
    JobStream         + SSE watchers                      JobReadersProofs
    JobPoll           + long polls and the documented client loop    JobReadersProofs
      MCReaders       these two for TLC
JobRegistry           slots, holders, reaper, eviction    StoreProofs
MetricsStore          the log of calls and its compaction StoreProofs
JobWatch              the diff that turns the registry into events   MonitorProofs
  Monitor             + event stream, fetches, a monitor's job list  MonitorProofs
ActivityLog           ring of calls, its rows, a monitor's copy
EnvRefresh            captures of the login shell
  OneShot             the endpoints that use both     OneShotProofs (and of these two)
    MCOneShot         ... for TLC
Ordering              sorting and picking, by ranks (no state)
  JobRows             rows, order, groups, cursor
  LogPane             lines, pin, query, filter
    MonitorApp        + frames, the log task, keys              MonitorAppProofs
Diagnostics           failures from the server's threads to a monitor's error log  StoreProofs
    MCMonitorApp      these two for TLC
DocRender             Markdown to HTML, then the pictures     OneShotProofs
DriveIndex            the walk of a tree, a title's answer    OneShotProofs
  MCTexts             these two and LineAssembly for TLC
```

### JobRunner

Five actors, interleaved at every point where the code lets another in.

* **Run task.** `pc` is the place in `pty::run`: `new`, `armed` (callback
  registered), `loop` (the select loop), `shutdown`, `postdrain`, `returned`,
  `finished` (the supervising task called `Job::finish`). `ladder` is the
  escalation future: not polled yet, waiting for the `Notify`, the SIGTERM of
  `shut_down`, the grace period, the SIGKILL. A branch of the select is an
  action (`DrainedInLoop`, `WakeEscalation`, `Deadline`, `IdleExpired`);
  `DrainedInShutdown` and `ShutdownDone` are those of the second select,
  `PostSignalDrain` its bounded wait. `AtAwait` says that the future is at an
  await: between loading the pid and storing `pending` the run task does nothing
  else, though other threads do.
* **Blocking thread.** `thr` goes through `run_with_pty`: spawn, the two halves of
  `KillHandle::set` (`SetPublish`, `SetReplay`), the pid chunk, the input, the
  pump, `wait`, the exit status, the drop of the sender. `SendChunk` is
  `blocking_send`, with its capacity and its failure once the drain is gone.
* **The child.** `live` are its processes, `tty` those holding the terminal. Some
  stay in the group (`Members`), some left it (`Escapees`), some ignore SIGTERM
  (`Deaf`). They write, close and exit when they like, and owe nothing.
* **Signals** are `TermArrives` and `KillArrives` on the group.
* **Cancels**: the handler's look at the state, `Job::cancel`'s, the flag, the
  callback (load the pid; leave `pending` if there is none; notify).

Time is abstract: a timer may expire at any moment after it started. Chunks are
counted, not represented, as no property depends on what a line says; output lost
is `read # written` or `taken # sent`. The pipe fallback is the same machine with
one reader of two; its second reader is left out.

`JobLifecycle` is what a client may rely on: output only while running, a cancel
at any time, one outcome, `canceled` only if somebody asked. `JobRunner` refines
it with `output <- taken`.

### LineBuffer, LinePager

`recent` is the deque, `total` the next index; `enabled`, `offsets`,
`spilledLen` are the fields of `Spill`, and `disk` is the file, whose records
have length one so that offsets can be compared with records. `Push`, `SpillAppend`,
`SpillFails` (open, encode and write errors, the last perhaps with part of
a record) and `Plan` are the functions of those names, `Plan`'s panic included.
A window is planned in one step (under the lock) and read in another (`LinesRead`),
with `ReadMayFail` an error of the file system at that point. `LinePager` has
clients page from any start through a growing buffer.

### JobFeed, JobStream, JobPoll

`JobFeed` splits `push_line` and `finish` where the code does: the lock, then the
send. The channel is the sequence of all events; a receiver is a position, and one
that is more than `BroadcastCapacity` behind gets `Lagged` and resumes at the oldest
retained event. Sent events are never changed, so positions suffice. `JobStream`
has an action for each statement of `stream` that another task can come before:
the subscription, the boundary and the state are three, each window two, a lag and the
new target two. `JobPoll` does the same for `lines`, with the client of the README around it; `over` remembers whether
the job was over when its window was planned.

### JobRegistry

A job is counted by who holds it: the map, its runner's clones, the requests. The
cleanup task takes a snapshot, looks at a count (`ReapCount`), looks at the state
and fails the job (`Reap`) as separate steps, then evicts under one lock. A runner
may vanish at its awaits (`RunnerAborted`), the case the reaper exists for.

### MetricsStore

`log` is `calls.jsonl` as a sequence of lines; a line knows the calls whose bytes it
holds (a torn append joins two), whether it has its newline, parses, and is text (`split` remembers an append
cut inside a character). `Write` is what appending does to a
line without a newline. `archive` gives each day the files of its partition. The rollup
task reads the clock (`RollupTick`), takes the lock and reads the log into `records` (`Compact`), seals
day after day (`Seal`, which writes the day's rows in any order) and rewrites the log (`Rewrite`); `Interrupted` may come before
each, and stands for an I/O error as well as for the death and restart of the process: both
leave the files as they are and forget the rest. Temporary files are not represented,
as nothing reads them. A call is dated by its start, so late rows of a sealed day are
possible.

### JobWatch, Monitor

`JobWatch` takes one pass of `diff` apart where another thread can come between: the
snapshot of the registry (`Snapshot`), a job's state (`ReadState`), its count
(`ReadCount`), the announcement, the report, then the sweep of what left. `cur` holds
what was read, `seen` is the map of that name, and `told`, which the code does not
keep, is the last event about each job. A heartbeat may come at any report. A
subscriber's `inbox` is its queue of the broadcast channel, which loses its oldest
event when full. `OutlivesPass` says that a finished job stays until a pass has seen it
finished (`--job-ttl` is ten minutes unless told
otherwise, and a pass comes every quarter second); with a shorter life a job can
leave unseen, and neither theorem of section 5 holds.

`Monitor` adds the connection (`conn`): subscribe, read the replay, receive it, then
live events; a lag makes the task fetch the list before it reads on; a lost
connection starts over. Both tasks of the monitor send to one queue of actions that one
loop applies, so sending stands for applying. `fetch` is a list on its way: read from the
registry, answered, applied by `Refresh` when the registry may have moved on. `Replays`
are the answers `replay` may give, the jobs in any order, and `Applied` is what `apply` does
for a job. The server reads jobs one
by one; as no property relates two jobs, their states are read in one step and
their counts in a later one. `sound` records whether what the monitor holds can be
relied on: no event lost since it subscribed or was given a list that was right.
There is one monitor, as monitors share nothing, and the server does not restart.

### ActivityLog, OneShot

`ActivityLog` has the steps between two operations on a lock: push, stamp, persist,
publish. `Persist` may leave the call without a row (`unrecorded`), as `persist` returns when no store is set and
`record` drops a failed append; the end is announced all the same. A monitor subscribes, reads the replay and takes events from its queue. The replay
may tell of an end whose row is still to be written (`sub` keeps it apart from the queue), so
`StoreAskedFirst` is about ends that were published.
`OneShot` puts them in order for seven endpoints. `at` is the place of a request's
handler: `new`, `pushed`, `begun`, `waiting`, `ended`, `stamped`, `recorded`, then
`closed` (between two steps of a batch) or `answered`; `gone` if the client hung up.
The endpoints differ in what is refused before anything is recorded (`Refuse`), in
what fails at once, and in what they wait for: `Spawn` starts a command with the
refresher's snapshot, the four actions of `Bridge` run osascript. A command's child and its output
end separately, as a helper may hold the output. `script` is the place in the
AppleScript, from `open` to `ok` or `error`; the handlers of errors in the scripts
are actions too (`ScriptFails`, `CloseTab`), and so is the user who closes a tab.
`KillChild` is `kill_on_drop`: it ends the child or osascript, and leaves a tab.

### EnvRefresh

The environment is one number, the token that the user's profile rotates, as all that matters
is which is newer. `task` is `capture` within the loop of `spawn_refresher`:
asleep, waiting for the pid, waiting for the output. The thread of a capture and its shell have a
slot; threads of captures that were given up go on (`ThreadEnds`) and print late. A
shell may hang, end before `printenv`, or be slower than a limit; each takes one of
`MaxWedges`.

### JobRows, LogPane, MonitorApp

`Ordering` says what a stable sort and a filter return without saying how: the place of an element is the number of
those that do not come after it. So `Order` is `sort_by_key`, `GroupRows` is `group_rows`, whose sessions are sorted by
their first job with the jobs of no session last, and `Picked` is `remove` and the filters of the pane.
`JobRows` keeps `rows` apart from `jobs` because the code does: a row is a position
in the list, and is stale between a change of the list and the rebuild. `Rebuild` takes
the anchor before, `RebuildStale` after; `JobEvicted` does the latter. `LogPane`
has every action that moves the pin, with the positions among visible lines spelled out
as in `scroll`, `reveal`, `clamp_pin` and `log_window`. A line is its number, a
query the set of numbers it matches. `tidy` is a history variable, which no action reads: since the pane was last
emptied, each line it took was newer than those before. The marker for dropped lines, which has the number of the first line, ends
that when it comes in the middle, and so do lines of a job that was loaded twice. In `MonitorApp` a log line is sent, then
applied, so that it may arrive after its job left the pane; a frame opens a stream and
publishes the mode; a key means what the *last* frame published.

### Diagnostics

A thread draws its id (`DrawId`) and pushes later (`PushDiagnostic`); a diagnostic that a larger id came before is marked
`overtaken`, which the code does not know. The watch copies the ring (`CopyRing`) and passes on one after the
other (`Forward`), while threads push and monitors subscribe. `conn` is the stream with what it still has to
send of the replay and of the channel; a lag is itself logged (`NoticeLag`, `TellLag`), so it makes one
more diagnostic. `Restart` begins a server whose ids start again, and keeps the monitor; `old` is what the
monitor had seen by then. The bus carries other events too, which only make lags more frequent.

### LineAssembly, DocRender, DriveIndex

Transformations of their input, each compared with a definition of what should come out
that does not follow the code. `LineAssembly` feeds tokens (characters of a text, line ends, two
escape sequences of several bytes) to the assembler and stores what it completes; its reference says which printed
texts a terminal shows last of each line (`FrameText`), by their places, without a fold. `DocRender` takes the events of the parser, which is external and nests; `open`
is the stack of elements, `out` the HTML as a sequence of tags and contents,
`pending` what waits for Chrome. `convert` then renders one after the
other in two runs of Chrome, either of which may fail. `DriveIndex` walks a tree in any order, with
`stack` the calls of `walk`, and resolves a title among what it found; `warns` is what the answer says of a cap.

## 3. Runs

Passing runs. Each of their properties is also checked against a mutated
definition, an operator named in `PROJECT.json` that stands before the one it
mutates. The `TypeOK` of a module is listed only where it says more than types (the
cap of the registry); the others are there for the reader and hold too. `FinishedIsFinal` follows from
`ImplementsLifecycle` and is only proved.

| Run | Bounds | Properties |
|---|---|---|
| `JobRunner_job` | 1 cancel, leader, one helper in the group, one outside, channel of 1, one write, grace, idle clock, panics | `NoOutputLost`, `LadderReachesGroup`, `EveryJobFinishes`, `ImplementsLifecycle` |
| `Files_disk` | ring of 2, pages of 2, 6 lines, start 0..3, spilling that may fail at any append; or 3 calls, 3 days, 2 faults | `WindowExact`, `NothingSilentlyMissed`; `LossIsBounded`, `CountedOnce`, `SealedStays`, `PastDaysSealed` |
| `Readers_job` | ring of 2, channel of 1, pages and chunks of 2, 5 lines; a stream, or polls | `SentInOrder`, `FollowedToTheEnd`, `LagLossIsTold`, `StreamEnds`; `FinalLinesCarried`, `PollWakes` |
| `JobRegistry_slots` | 3 jobs, 2 requests, cap 2 | `TypeOK`, `ReapsOnlyOrphans`, `SlotsComeBack` |
| `Monitor_view` | 1 job, 1 line, a channel of 2, one monitor, one lost connection or failed fetch | `FinishedCountIsFinal`, `EventsSuffice`, `StoryInOrder`, `EverythingTold`, `JobsHealed` |
| `OneShot_calls` | a command and any other call, ring of 1, one monitor; or 2 slots for captures, 2 rotations, 1 shell that hangs, fails or is late | `EndIsShown`, `StoreAskedFirst`, `TabsAreClosed`, `StraysComeLate`, `EveryCallEnds`, `SnapshotsMoveForward`, `TokenArrives` |
| `MonitorApp_view` | 3 jobs, 1 session, 2 running times, 4 fetched lists; or 1 job with 5 lines, buffer of 4, pane of 2, 3 queries (one matches nothing); or 2 threads that fail, ring of 3, channel of 1, error log of 5, 4 ids, 1 restart | `NoBlankRows`, `CursorKeepsItsJob`, `PaneLoads`, `PausedViewHolds`, `FailuresShownOnce` |
| `Texts_shown` | 5 tokens; 5 Markdown events; 5 directories, 2 of them mounts, 5 documents, depth 1, cap of 3 | `LinesAreLastFrames`, `HtmlNests`, `NothingVanishes`, `AnswerIsForTheWholeTree` |

Why the bounds are enough. `JobRunner`: a channel of one chunk makes the pump wait
and leaves a chunk in flight; one write can be unread, unsent or untaken; one cancel
can come at each point of the spawn; a helper and an
escapee are the two ways a process can outlive the leader. A further write or process
repeats a state the first one reaches. Buffer and readers: with a ring of two and
pages of two a window can lie on disk, in memory, across the border or behind the
retained lines, and six lines evict more than a page; more lines shift the indices.
A channel of one lags with two pushes; what streams and polls read neither changes (`MCReaders`), and the two kinds of files share nothing (`MCFiles`). Registry: with a cap of two
and three jobs a refusal, a slot reused and a sweep over several jobs all happen.
Metrics: with three calls a torn append joins a whole one while a third is sealed, two
days can be sealed by one compaction and one day by two; two faults are a torn append
and an interrupted compaction, or two interrupted ones.
Monitor: every property is about one job at a time; a job with one line makes a created, two or
more progress (heartbeats), a finished and an evicted event, twice what the channel
holds, so lags happen at each point, and both fetching tasks may hold a list from
any earlier state.
One-shot calls: a ring of one drops a call while it runs and after it ended; what two
calls share does not depend on their kind, so one of them is always a command. Calls and
refresher share the snapshot only, and a behaviour has one or the other (`MCOneShot`), where the store drops rows only
of two commands (`StoreHolds`), as what it does depends on no kind of call. Two slots let a
capture start beside a thread that hangs. Monitor: the list and the pane share the cursor's
row only, and are separate scenes too (`MCMonitorApp`); a buffer of four and a pane of two have lines
above, in and below the pane, and a fifth line evicts. Two threads that fail can enter the ring out of order, a channel
of one lags at the second event, and the two lags that fit in four ids evict from the ring; an error log of five
holds every kind of entry before it is full. Texts: five tokens hold two lines with
a redraw each; five Markdown events a table with a cell, or three contents in an
element; the tree has documents above and below the depth that is walked and more than the cap.
The theorems do not have these bounds. The largest runs are `Texts_shown` with 821 327 states, `OneShot_calls` with 471 612 and
`Monitor_view` with 397 366, none over two minutes.

Violation runs: what a comment or the project's README says and the code
does not do. The quotations are in `PROJECT.json`.

| Run | Claim | What happens |
|---|---|---|
| `LinePager_gap` | `next_from` jumps past the gap | a page wholly before the retained lines panics |
| `JobStream_slips` | no line can slip through the gap | it can, between boundary and state, if the job ends there |
| `JobPoll_stops` | poll "until `running` is `false`"; with `--spill` the full log stays retrievable | the state is read after the window: lines printed in between are in no response; pages of two hold all of two lines, so the page's length is not the reason |
| `MetricsStore_split` | a torn write costs one record | one torn inside a character hides all later ones from every read, and the next rewrite drops them |

The bounds of these runs are no larger than those of the passing runs, but for the channels of `JobStream_slips` and
`JobPoll_stops`, which are longer so that no lag is needed for what they show.

Other disagreements met while modelling, on which no run is spent: a cancel
that loads the pid before `set` stores it and leaves its request after `set` swapped it is never
replayed, where pty.rs says "the ordering cannot matter" (58-61); one that comes before the
escalation is first polled notifies nobody, and a child that ignores SIGTERM is left to the
deadline (pty.rs 209-210); a call that left its ring before it ended is neither announced nor recorded,
though `finish` says "still announced" (events.rs 294-296); an ended call has no row when
the store is not set or the append failed, where events.rs 307-308 says that a watcher "cannot observe a gap"; an evicted job makes the cursor slide onto
another one, as the anchor is read from rows of the list before (app.rs 743, against the comment
at 850-852); a diagnostic with a smaller id may enter the ring after a larger one was published, and is
then never published, nor is one that left the ring between two ticks; a lag loses diagnostics until the next reconnect;
a monitor that outlives its server takes the ids of the next one, which start at 1, for those it saw,
where a test says that ids "must be unique, since the client dedupes replayed diagnostics by id" (events.rs 753), and
puts its calls in the place of older ones; a failed capture leaves the snapshot before it, where env_refresh.rs
speaks of an empty map; a client that hangs up leaves its call running for ever in every
monitor; a script killed by its time limit leaves its tab open; a subtree of Drive that cannot be read is
left out without the flag, and of a listing that was cut short a document that alone matches is read, though callers should
"surface" the cap (drive.rs 20-22) and "picking one silently would read the wrong document" (193-194): only "no document" tells of it; "abc\r\r\n" is an empty line, and so is "abc\r", a style and "\n"; an escape sequence that does not end in a
letter takes the text after it along; a job that takes the row of another under the cursor
finds that one's lines in the pane; a paused pane may still drift, which app.rs 202-203 says of an earlier design only: a pin on a line
that the filter hides and that is newer than all that pass lets the next match in; and it may have blank rows: after a marker for dropped
lines in the middle a pin can be left behind the front of the buffer, and editing the query does not clamp the pin; the polling loop of the
project's README also stops early when more than a page is left at the end; a reconnect alone is
not "self-healing" (bin/tui.rs), since a replay does not name the jobs evicted meanwhile,
and a list older than events already applied takes jobs back until the next fetch,
which is why `JobsHealed` needs the ticker; a cancel is answered `signalled` for a request left to a
spawn that then fails; `escalated` is set although no SIGTERM was delivered; a
member of the group that closed the terminal and ignores SIGTERM outlives a job whose
output ended during the grace; a spill file that cannot be read back loses lines
uncounted; a torn append takes the record after it along, where metrics.rs speaks of
one; a compaction cut short after a seal
seals the same rows again (`CountedOnce` sets this apart with `broken`); a replay announces its first gap only; the cap counts finished jobs until
they expire; an orphan is not reaped while a request holds it. The properties are
stated so as not to hide them: `LadderReachesGroup` is about a ladder that came to its
end, `LagLossIsTold` about lines after the boundary, `SlotsComeBack` names the held
orphan as its exception, `NothingSilentlyMissed` is checked with `ReadMayFail = FALSE`,
`EndIsShown` is about calls that were in the ring, `StoreAskedFirst` about the asking, `LossIsBounded` about appends not
torn inside a character, `FinalLinesCarried` about windows read when the job was over, `CursorKeepsItsJob` excepts evictions by
name, `TabsAreClosed` is about scripts that came to their end, `FailuresShownOnce` names those that enter out of order and old ids, `AnswerIsForTheWholeTree` about trees that
can be read and listings that were not cut short, or answers that found nothing and do not warn, `LinesAreLastFrames` about escape sequences that end in a letter, `NoBlankRows` and
`PausedViewHolds` about lines in order (`tidy`), the first while nothing is filtered, the second for a pin that is not beyond the rows.

## 4. Fairness

* **Run task and timers**: tokio polls a task whose future can go on, and fires
  timers. Weak fairness of the task's own steps, of the ladder, of the bounded wait
  and of the deadline; none of the idle clock or of panics.
* **Blocking thread**: weak fairness, except of typing the input, which the child may
  block for as long as it has the terminal.
* **Child**: none.
* **Readers**: a handler that can go on does. A poll's budget is not assumed to run
  out, so a wake-up that is owed cannot hide behind it. The producer need not print,
  and ends (that every job ends is `EveryJobFinishes`).
* **Registry**: the cleanup task ticks, time passes, runners end unless aborted,
  and a request on a *finished* job ends. A request on a running job may stay.
* **Metrics**: the rollup task ticks again after an error and after a restart; faults are
  bounded, for a disk that fails for ever seals nothing.
* **Watch and monitor**: the watch's interval ticks for ever, so weak fairness of its steps;
  a connected stream delivers, a lost one is reopened, and the reconciling ticker
  fetches again. Faults are bounded: a network that fails for ever heals nothing. Jobs
  owe nothing; that they do not print for ever is `MaxLines`.

* **Calls**: handlers together: tokio polls one that can go on, and a time limit passes. Nothing of
  commands, helpers, Chrome, users or clients, so `EveryCallEnds` rests on the limits alone.
  (Each request has finitely many steps, so fairness of the handlers together serves every one.)
* **Refresher**: its own steps, its threads, and that a shell which does not hang gets to its `printenv`.
  Shells that hang are bounded, for a profile that always hangs brings no token.
* **Monitor's frames**: weakly fair, as a ticker draws them.

## 5. Theorems

| Theorem | States | From |
|---|---|---|
| `JobRunnerProofs` `TypeCorrect`, `OutputKept`, `LadderReaches`, `FinishedStays` | the safety properties of `JobRunner_job`, and `FinishedIsFinal` | any clients, processes, capacity, writes; `Capacity >= 1`, escapees outside the group |
| `JobRunnerProofs` `RefinesLifecycle` | `Spec => Lifecycle!Spec` | the same |
| `JobRunnerProofs` `FramesBecomeLines` | `LinesAreLastFrames` of `Texts_shown` | any characters of a text (`TextsAssumption`: none is a line end or an escape), any number of tokens |
| `LinePagerProofs` `WindowsAreExact` | types, `RingIsTail`, `SpillIsIndexed`, `WindowExact` | any cap, page, readers, with or without spilling and disk errors |
| `LinePagerProofs` `NothingMissed` | `NothingSilentlyMissed` | the same, and a spill file that can be read back |
| `JobReadersProofs` `StreamsAreInOrder` | `SentInOrder` of `Readers_job` | any cap, page, capacity, watchers, disk errors |
| `JobReadersProofs` `FollowersHaveAll`, `LagIsTold` | `FollowedToTheEnd`, `LagLossIsTold` | the same, and a spill file that can be read back |
| `JobReadersProofs` `FinalLinesComeAlong` | `FinalLinesCarried` of `Readers_job`: nothing of a window read before the end (`JobPoll_stops`) | any cap, page, capacity, clients; a spill file that can be read back |
| `MonitorProofs` `ImplementsWatch` | `Spec => WatchSpec` | any constants |
| `MonitorProofs` `CountIsFinal`, `StoryIsInOrder`, `EventsAreEnough` | `FinishedCountIsFinal`, `StoryInOrder` and `EventsSuffice` of `Monitor_view` | any (finite number of) jobs, lines, capacity and faults; `OutlivesPass` |
| `StoreProofs` `CapKept`, `RunnersAreSpared` | `TypeOK` and `ReapsOnlyOrphans` of `JobRegistry_slots` | any jobs and cap, finitely many requests at a time |
| `StoreProofs` `CallsCountedOnce`, `SealedRowsStay` | `CountedOnce` and `SealedStays` of `Files_disk` | any calls, days and faults |
| `StoreProofs` `LossStaysBounded` | `LossIsBounded`, which excepts appends cut inside a character | the same |
| `OneShotProofs` `StraysAreLate`, `SnapshotsAdvance` | `StraysComeLate` and `SnapshotsMoveForward` of `OneShot_calls` | any slots and rotations; fewer shells that hang, fail or are late than slots |
| `OneShotProofs` `EndsFollowTheStore`, `EndsAreShown`, `TabsClose` | `StoreAskedFirst`, `EndIsShown` and `TabsAreClosed` of `OneShot_calls` | any requests, what they ask, ring and channel |
| `MonitorAppProofs` `PaneIsFilled`, `PausedPaneStays` | `NoBlankRows` and `PausedViewHolds` of `MonitorApp_view` | any lines, queries, buffer, height of the pane, page and turn of the wheel |
| `MonitorAppProofs` `CursorStays`, `TypesHold` | `CursorKeepsItsJob`; `TypeOK` of `MonitorApp` | any jobs, sessions and fetched lists that name a job once |
| `OneShotProofs` `AnswersAreForTheWholeTree` | `AnswerIsForTheWholeTree` of `Texts_shown` | any tree of directories below mounts (`TreeAssumption`), documents, order of entries and caps |
| `OneShotProofs` `TheHtmlNests`, `NothingIsLost` | `HtmlNests` and `NothingVanishes` of `Texts_shown` | any document, with or without Chrome, and any of its failures |
| `StoreProofs` `FailuresReachTheLog` | `FailuresShownOnce` of `MonitorApp_view` | any threads, ring, channel, log, lives and losses |

**JobRunner.** None of the properties is inductive alone. `IInv` adds where the thread
is against what is published and alive (`SpawnInv`), that a request the ladder counts
on was seen by the handle (`RequestInv`), that past end of file nobody holds the
terminal and nothing is unread (`PumpInv`), and what the result stands for (`ResultInv`).
`LadderInv` is the heart of `LadderReachesGroup`: the end of the ladder means that the
group is gone or that the kill is pending and the replay has not happened. Because one
request can be stranded (section 3), it needs both: the SIGTERM's
request comes first, so by the time SIGKILL is requested either the pid is known or a
`pending` written before the pid is. `RefinesLifecycle` goes by cases on the
action: most are stutters, `Drain` is `Produce`, `CancelMark` is `RequestCancel`,
`Finish` is `Finish(result)`, for which `ResultInv` supplies the outcome.

**LineAssembly.** `strip_ansi` is a fold over a line. That each line has its reading (`AllIsRead`) and one only
(`StrippedIsRead`) is shown by the shortest line, or first character, for which it is not so, which is what an induction would do.
`StrippedMore` then takes a character more, hence a style leaves nothing and a text itself. `FrameInv` says that what is pending
spells `Drawn`, the texts since the last line end of either kind; a return moves them to what is held, where they are the frame of the
line as long as nothing follows. `ReturnInv` ties `after_cr` and `last_overwritten` to the last byte, so that what a newline completes is what
`finish` would have left (`CompletedIsLastFrame`). `RankOfMore` is the arithmetic of places.

**LinePager.** `Push` is proved in two cases, with room and into a full ring, the
second with and without the append to disk succeeding. `WindowExact` is kept by `Push`
because offsets and records below `Len(offsets)` never change, and is established
by `Plan` case by case.

**BufferProofs** has what all readers need: `Push` keeps the buffer's invariant, a window that
was planned stays settled (`Planned`: its records are below `Len(offsets)`, its memory part
was copied) whatever is pushed meanwhile, and reading it gives the lines from its start to `next`
unless the file cannot be read.

**JobStream.** `CursorInv` and `WindowInv` carry `SentInOrder` over the two steps of a window.
`PlaceInv` is the argument of the handler's comments, made precise: the receiver's
position in the channel never runs ahead of the boundary, then of the cursor, so what the channel brings
next is the line at the cursor or one that was sent; its exceptions are the streams that subscribe to
a job that is over, and `ended` keeps those apart (section 3, `JobStream_slips`). `AllSent`
and `LagToldInv` need every read to succeed, hence the hypothesis of the two theorems: with
an unreadable spill file lines go missing uncounted, the hazard at job.rs:528.

**JobPoll.** A window planned because the job is over reaches the end of the output or fills its
page (`PlannedInv`): the producer prints no more by then, so `total` stands still. `over` is what
this is said of, and a read that follows `Finished` is one of them; `FoundInv` carries the window into what was read.

**MetricsStore.** `CompactInv` says what an interrupted compaction must not forget: while the lock is held
`records` is the log, and each past call of the log has its day still to seal or is
in the archive. So `Rewrite` drops what was archived, and nothing else. `OnceInv` is `CountedOnce` during a
compaction, when sealed rows are in both places. `LossInv` counts: each torn append costs at
most one record, its own or the one it joins, and one torn line may be open. An append cut inside a
character makes the whole log unreadable from there (section 3), so this is said as long as `split` is false.

**JobRegistry.** `CountTellsOrphans` does the arithmetic: map and snapshot make two, so
a count of two leaves nothing for the runner. `RunnersAreSpared` then needs that a
vanished runner never comes back, as an id is created once.

**JobWatch.** `SeenInv` ties what was told to what the watch remembers, `CurInv` bounds
what is being read by the registry above and the memory below: a state read as ended
makes the count read after it final, which is the order `diff` reads in.
`GoneInv` carries `OutlivesPass`: a job that is remembered and has left was remembered as
ended, so its eviction follows its end. `StepFollows` then looks at the three steps that
tell something. They are proved of `WatchSpec`, in which subscribers come, lag and go as
they like, and hold of `Monitor` because its monitor is one of those
(`ImplementsWatch`).

**Monitor.** `EventsSuffice` is about the moment when all is told and applied; its invariant says what holds before.
`Fits(look, ...)` says that a look at a job is right or that the events on their way will make it so, by
the last event told about the job. Three lemmas carry it: it survives what the registry does
(`FitsOn`), what the watch publishes (`FitsTold`) and the receipt of an event (`FitsReceived`), where
`Honest` supplies that events on their way are true of the registry and that the last one about a job is the last that was told. What the registry answers
fits (`TruthFits`), even when counts are read after states (`FitsCounted`), so a
replay says what fits (`ReplayInv`) and the list fits or the replay will see to it (`ViewInv`): a creation is followed by
how the job is, which is why the replay and the events may overlap. None of it is claimed of a
monitor that is behind. With nothing left on its way, a look that fits is right (`FittingIsRight`).

**Diagnostics.** `FailuresShownOnce` is kept by three parts. `RingInv` and `WatchInv`: a diagnostic that entered in
order has a larger id than all before it, so no id above it comes before it in the watch's copy, and the mark
does not pass it. `StreamInv`: what the mark has passed is in the replay or the channel of a stream that is
whole. `IdInv` and `ErrorLogInv`: an id names one diagnostic in a life of the server, so what was seen of this
server has its entry, and what was not has none. `RecordErrorKeeps` says that a new
entry disturbs no other while the log has room.

**Orders.** `RankedFacts` is what the two parts of the monitor rest on: if a relation is reflexive, transitive and total on a
finite set, `Ranked` lists each element once, in its order. It is proved by counting, as is that a nonempty finite set of numbers has a least
and a greatest one. `ComesFacts`, `GroupFacts` and `RowOrder` show the relation for jobs, sessions and rows, `NumberOrder` for numbers.

**The pane.** Neither property of the pane is inductive. What is kept is that, while `tidy`, the pin is at or after the *floor*, the line a screen away from the front
of all the lines held, whatever the filter hides (`PinOK`). The code clamps the pin to the rows that pass the filter, which are fewer; so the
floor of the rows is at or after that of the lines (`ClampedKeepsFloor`), and turning the filter off cannot leave the pin short. Each action
that moves the pin has its lemma: `PinTo` and `Clamped` make such a pin, and a new line that pushes the oldest out is clamped again
(`AppendKeepsFloor`). `FullPane` then says that a pin at or after the floor leaves no row blank. `PausedViewHolds`
needs to know the rows after a line came: those before, the line if it passes the filter, less the first when the buffer was full
(`NewRows`); as long as the first row drawn is still held the row of the pin shifts with it, and the window with the row (`PausedPaneHolds`).

**The list.** A row names a position in the list, a job has one position (`ListTypeOK`), and `RowsFacts` says that every job in view has a row. So
`Anchored` finds the job the cursor was on, and `CursorKeepsItsJob` follows (`RebuildKeepsJob`). The evictions it excepts are
those whose anchor is read from the rows of the list before.

**EnvRefresh.** `StraysComeLate` needs `PidInv`: a capture that waits for the output knows the
pid, or the thread failed, or the slot is marked late; so the kill at the second limit misses no
other shell. `ThreadInv` keeps a slot without a shell until one is spawned. `SnapshotsMoveForward` needs `DumpInv`: what the *current*
capture's shell printed is not older than the snapshot, which holds because it printed after the
capture began and only the current capture publishes.

**OneShot.** `RowInv` carries from `RecordCall` to `AnnounceEnd` that the store was asked (`Persisted`); `PublishKeeps`
says that publishing adds one event and changes none, so `StoreAskedFirst` is kept. `TabInv` says that a tab that
is open is wanted, or has a script on its way to close it, or one that was killed; `ScriptMoves` is the
one lemma for the steps from place to place, `EndingInv` the one for all ways to end a wait. `EndIsShown` has an
invariant of its own (`MonitorInvariantHolds`): entries of the server's ring are distinct calls, and what the
monitor takes for running is running, or its end is in the replay or the queue.

**DriveIndex.** There is a set of directories that were read such that each mount, and each directory in one of them, was
read or is ahead of some call of `walk`, and each of their documents is listed or ahead (`WalkedWith`). When no call is left such a set has
every directory, which is what `TreeAssumption` says of a tree, in the form of an induction over its directories. A `none`
that does not warn comes from a listing that was not cut short (`NoneWarns`).

**DocRender.** `HtmlNests` folds over the whole HTML, but a step only appends to it. So `TagsAfter` speaks of a function of the tags open
after each item, `OpenTagsFold` shows that `OpenTags` is its last value (the first item at which they differ cannot exist, so no induction is needed),
and `NestInv` says that this value names the open elements. `Nested` is what the parser owes: elements open only where they may, so in a cell `inHead`
and an open head are the same. Replacing contents changes no tags (`TagsOfReplaced`). `FillInv` says of what an item `StandsFor`: the
content it shows, or the one that waits in the queue under its number. Then each content has one item, in order, and is warned of if it is degraded. It
survives a tag, a content that comes after all others, a placeholder with a number of its own, and a picture for the first of the queue, one lemma for each
(`FilledWithTag` to `FilledWithPicture`); with the queue empty it is `NothingVanishes`. The contents of an open fence are the only ones not placed (`FenceInv`).

Constants are assumed no more than the code justifies: a height, a buffer and a channel hold something, the server lists a job
once (`ListsAssumption`: the registry is a map), and what a theorem adds is in the table.

Only model-checked: liveness and the fairness of the refinement, which are out of the prover's reach. Every safety
property of the passing runs has its theorem.

## 6. Not modelled

Contents of lines and exit codes; the second reader of the pipe
fallback; reuse of process numbers; wall-clock idle time beyond "it may expire";
removal of a spill file when the last holder of an evicted job lets go, which no
reader outlives; locks poisoned by a panic, which the code recovers;
a monitor's lag on events of calls (`Monitor` has lags, for jobs); what
is collected of a command's output; a second clipboard request over the first; a Drive that changes
under the walk; styles, escapes and raw HTML; the paragraph an image opens within the one it stands
in, and elements in its alternative text; contents and scroll offsets of overlays. The components of the second table of section 1 have no state worth a model.

## 7. Plan

1. **Pipe fallback**: the second reader in `JobRunner`.
