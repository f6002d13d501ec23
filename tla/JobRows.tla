-------------------------------- MODULE JobRows --------------------------------
(***************************************************************************)
(* The monitor's list of jobs as it is drawn (tui/app.rs: apply,           *)
(* rebuild_rows, group_rows, step, jump): which jobs are in view, in which *)
(* order, under which session headers, and which row the cursor is on.     *)
(*                                                                         *)
(* Events and fetched lists are inputs here; Monitor has where they come   *)
(* from.  Rows name jobs by their position in `jobs`, as in the code: they *)
(* are stale from the moment the list changes until they are rebuilt.      *)
(*                                                                         *)
(* Bound: MaxElapsed for the running times jobs are sorted by.             *)
(***************************************************************************)
EXTENDS Integers, Sequences, SequencesExt, FiniteSetsExt, Ordering

CONSTANTS
  Jobs,
  SessionOf,   \* the session of each job, or NoSession
  NoSession,
  Lists,       \* what a fetch may bring
  MaxElapsed

VARIABLES
  jobs,         \* the monitor's list, as received: a sequence of [id, running, elapsed]
  rows,         \* the rows of the list: [session, job]; a header has job 0
  selected,     \* the row of the cursor; 0 if there is none
  grouped, runningOnly

listVars == <<jobs, rows, selected, grouped, runningOnly>>

JobSet == [id : Jobs, running : BOOLEAN, elapsed : 0..MaxElapsed]

Ids(js) == [i \in DOMAIN js |-> js[i].id]

(* The server lists a job once. *)
ASSUME ListsAssumption ==
  /\ MaxElapsed \in Nat
  /\ Lists \subseteq Seq(JobSet) /\ \A js \in Lists : IsInjective(Ids(js))

ListTypeOK ==
  /\ jobs \in Seq(JobSet) /\ IsInjective(Ids(jobs))
  /\ \A k \in DOMAIN rows : rows[k].job \in 0..Len(jobs)
  /\ selected \in 0..Len(rows) /\ grouped \in BOOLEAN /\ runningOnly \in BOOLEAN

ListInit ==
  /\ jobs = <<>> /\ rows = <<>> /\ selected = 0
  /\ grouped = FALSE /\ runningOnly = FALSE

----------------------------------------------------------------------------
(* rebuild_rows. *)

(* sort_by_key is stable: running jobs first, then those that run longest. *)
Before(a, b) ==
  \/ a.running /\ ~b.running
  \/ a.running = b.running /\ a.elapsed > b.elapsed

Comes(js, i, k) == Before(js[i], js[k]) \/ (~Before(js[k], js[i]) /\ i <= k)

InView(js, only) == {i \in DOMAIN js : only => js[i].running}
Order(js, view) == Ranked(view, [k \in view |-> {i \in view : Comes(js, i, k)}])

Header(session) == [session |-> session, job |-> 0]
JobRow(js, i) == [session |-> SessionOf[js[i].id], job |-> i]

(* A session is where its first job is; the jobs without one are last. *)
GroupComes(js, view, s, t) ==
  \/ t = NoSession
  \/ /\ s # NoSession
     /\ \E i \in view :
          /\ SessionOf[js[i].id] = s
          /\ \A k \in view : SessionOf[js[k].id] = t => Comes(js, i, k)

(* A session's header comes before its jobs. *)
RowComes(js, view, r, q) ==
  IF r.session # q.session THEN GroupComes(js, view, r.session, q.session)
  ELSE r.job = 0 \/ (q.job # 0 /\ Comes(js, r.job, q.job))

(* group_rows: the jobs in view, and a header for each of their sessions. *)
RowSet(js, view) == {JobRow(js, i) : i \in view} \cup {Header(SessionOf[js[i].id]) : i \in view}
GroupRows(js, view) ==
  LET all == RowSet(js, view)
  IN  Ranked(all, [q \in all |-> {r \in all : RowComes(js, view, r, q)}])

RowsOf(js, g, only) ==
  LET view == InView(js, only)
      order == Order(js, view)
  IN  IF g THEN GroupRows(js, view) ELSE [k \in DOMAIN order |-> JobRow(js, order[k])]

Selectable(rs) == {k \in DOMAIN rs : rs[k].job # 0}

(* The first of some rows, or none. *)
First(rs) == IF rs = {} THEN 0 ELSE Min(rs)

(* The job under the cursor, or none: the rows may name positions that are gone. *)
NoJob == "none"
JobAt(js, rs, row) ==
  IF row \in DOMAIN rs /\ rs[row].job \in DOMAIN js THEN js[rs[row].job].id ELSE NoJob
SelectedJob == JobAt(jobs, rows, selected)

(* The cursor goes to the row of its job, or else to the first job in view. *)
Anchored(js, rs, anchor) ==
  LET same == {k \in Selectable(rs) : js[rs[k].job].id = anchor}
  IN  First(IF same # {} THEN same ELSE Selectable(rs))

RebuildAround(anchor, js, g, only) ==
  /\ jobs' = js /\ grouped' = g /\ runningOnly' = only
  /\ rows' = RowsOf(js, g, only)
  /\ selected' = Anchored(js, rows', anchor)

(* resort, RefreshJobs and the toggles take the anchor before the list changes.
   Mutant: after it, from rows that name positions in the old list. *)
RebuildStale(js, g, only) == RebuildAround(JobAt(js, rows, selected), js, g, only)
Rebuild(js, g, only) == RebuildAround(SelectedJob, js, g, only)

Resort(js) == Rebuild(js, grouped, runningOnly)

----------------------------------------------------------------------------
(* apply, for the events about jobs. *)

Known(j) == \E i \in DOMAIN jobs : jobs[i].id = j
With(j, rec) == [i \in DOMAIN jobs |-> IF jobs[i].id = j THEN rec ELSE jobs[i]]
Job(j, running, elapsed) == [id |-> j, running |-> running, elapsed |-> elapsed]

JobCreated(j) ==
  /\ ~Known(j)
  /\ Resort(Append(jobs, Job(j, TRUE, 0)))

(* The rows keep their order until the next rebuild; an ended job is not revived. *)
JobProgress(j, elapsed) ==
  /\ \E i \in DOMAIN jobs : jobs[i].id = j /\ jobs[i].running
  /\ jobs' = With(j, Job(j, TRUE, elapsed))
  /\ UNCHANGED <<rows, selected, grouped, runningOnly>>

(* JobFinished and JobEvicted remove or change a job and take the anchor afterwards: a
   removal shifts the positions that the rows still hold. *)
JobFinished(j, elapsed) ==
  /\ Known(j)
  /\ Resort(With(j, Job(j, FALSE, elapsed)))

JobEvicted(j) ==
  /\ Known(j)
  /\ RebuildStale(Picked(jobs, {i \in DOMAIN jobs : jobs[i].id # j}), grouped, runningOnly)

RefreshJobs == \E list \in Lists : Resort(list)

----------------------------------------------------------------------------
(* The user. *)

ToggleGrouping == Rebuild(jobs, ~grouped, runningOnly)
ToggleRunningOnly == Rebuild(jobs, grouped, ~runningOnly)

SelectRow(row) ==
  /\ row # 0
  /\ selected' = row
  /\ UNCHANGED <<jobs, rows, grouped, runningOnly>>

(* step: one selectable row up or down, headers skipped; jump: to either end. *)
Step(down) ==
  LET beyond == {k \in Selectable(rows) : IF down THEN k > selected ELSE k < selected}
  IN  SelectRow(IF beyond = {} THEN 0 ELSE IF down THEN Min(beyond) ELSE Max(beyond))

Jump(first) ==
  SelectRow(IF first \/ Selectable(rows) = {} THEN First(Selectable(rows))
            ELSE Max(Selectable(rows)))
=============================================================================
