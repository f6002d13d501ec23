------------------------------- MODULE JobPoll -------------------------------
(***************************************************************************)
(* GET /jobs/{id}/lines with wait_ms (jobs.rs: lines), and the client loop *)
(* of the README around it: poll from `next_from` until a response says    *)
(* that the job is no longer running.                                      *)
(***************************************************************************)
EXTENDS JobFeed

CONSTANTS
  Clients,
  Page,          \* MAX_LINES_PER_POLL (500 in the code)
  Waits          \* the requests carry a wait_ms

ASSUME PageAssumption == Page \in Nat \ {0} /\ Waits \in BOOLEAN

VARIABLES
  request,    \* where the request is; "idle" between two requests
  receiver,   \* its receiver's position
  from,       \* the client's cursor
  planned,    \* the read_window in progress
  why,        \* what this read follows: the request itself, an event, the
              \* end of the budget or the end of the job
  found,      \* the lines of the latest read
  over        \* history: the job was over when its window was planned

clientVars == <<request, receiver, from, planned, why, found, over>>
pollVars == <<feedVars, clientVars>>

RequestPhases == {"idle", "subscribed", "reading", "read", "waiting", "respond", "stopped",
                   "panicked"}

PollTypeOK ==
  /\ FeedTypeOK
  /\ request \in [Clients -> RequestPhases]
  /\ receiver \in [Clients -> 0..Len(events)]
  /\ from \in [Clients -> 0..total]
  /\ planned \in [Clients -> WindowSet]
  /\ why \in [Clients -> {"request", "event", "budget", "finished"}]
  /\ found \in [Clients -> SUBSET (0..(total - 1))]
  /\ over \in [Clients -> BOOLEAN]

PollInit ==
  /\ FeedInit
  /\ request = [c \in Clients |-> "idle"]
  /\ receiver = [c \in Clients |-> 0] /\ from = [c \in Clients |-> 0]
  /\ planned = [c \in Clients |-> Window({}, 0, 0, 0, 0)]
  /\ why = [c \in Clients |-> "request"]
  /\ found = [c \in Clients |-> {}] /\ over = [c \in Clients |-> FALSE]

Goes(c, p) == request' = [request EXCEPT ![c] = p]

(* A new request: job.subscribe(). *)
OpenRequest(c) ==
  /\ request[c] = "idle"
  /\ receiver' = [receiver EXCEPT ![c] = Subscribed]
  /\ Goes(c, "subscribed")
  /\ UNCHANGED <<feedVars, from, planned, why, found, over>>

(* read_window, under the lock. *)
StartRead(c, reason) ==
  /\ planned' = [planned EXCEPT ![c] = Plan(from[c], Page)]
  /\ why' = [why EXCEPT ![c] = reason]
  /\ over' = [over EXCEPT ![c] = ~running]
  /\ Goes(c, IF planned'[c].panics THEN "panicked" ELSE "reading")

FirstRead(c) ==
  /\ request[c] = "subscribed"
  /\ StartRead(c, "request")
  /\ UNCHANGED <<feedVars, receiver, from, found>>

(* Mutant: the request subscribes when it has read. *)
FinishReadSubscribing(c) ==
  /\ request[c] = "reading"
  /\ \E lines \in LinesRead(planned[c]) : found' = [found EXCEPT ![c] = lines]
  /\ receiver' = [receiver EXCEPT ![c] = Subscribed]
  /\ Goes(c, "read")
  /\ UNCHANGED <<feedVars, from, planned, why, over>>

(* read_window, after the lock. *)
FinishRead(c) ==
  /\ request[c] = "reading"
  /\ \E lines \in LinesRead(planned[c]) : found' = [found EXCEPT ![c] = lines]
  /\ Goes(c, "read")
  /\ UNCHANGED <<feedVars, receiver, from, planned, why, over>>

(* Nothing to return yet, and a reason to wait for it. *)
WaitForMore(c) ==
  /\ found[c] = {}
  /\ \/ why[c] = "request" /\ Waits /\ running
     \/ why[c] = "event"

Decide(c) ==
  /\ request[c] = "read"
  /\ Goes(c, IF WaitForMore(c) THEN "waiting" ELSE "respond")
  /\ UNCHANGED <<feedVars, receiver, from, planned, why, found, over>>

(* rx.recv() while waiting: a line or a lag means "go look" ... *)
WakeOnLine(c) ==
  /\ request[c] = "waiting"
  /\ \/ /\ HasEvent(receiver[c]) /\ events[receiver[c] + 1] # Finished
        /\ receiver' = [receiver EXCEPT ![c] = @ + 1]
     \/ /\ HasLagged(receiver[c])
        /\ receiver' = [receiver EXCEPT ![c] = Resumed]
  /\ StartRead(c, "event")
  /\ UNCHANGED <<feedVars, from, found>>

(* ... the end of the job means a last look ... *)
WakeOnFinished(c) ==
  /\ request[c] = "waiting"
  /\ HasEvent(receiver[c]) /\ events[receiver[c] + 1] = Finished
  /\ receiver' = [receiver EXCEPT ![c] = @ + 1]
  /\ StartRead(c, "finished")
  /\ UNCHANGED <<feedVars, from, found>>

(* ... and so does the end of wait_ms, at any moment. *)
BudgetSpent(c) ==
  /\ request[c] = "waiting"
  /\ StartRead(c, "budget")
  /\ UNCHANGED <<feedVars, receiver, from, found>>

(* The response is completed with the state as it is now.  The client goes on
   from its `next_from`, and stops if it says `running: false`. *)
Respond(c) ==
  /\ request[c] = "respond"
  /\ from' = [from EXCEPT ![c] = planned[c].next]
  /\ Goes(c, IF running THEN "idle" ELSE "stopped")
  /\ UNCHANGED <<feedVars, receiver, planned, why, found, over>>

Poll(c) == \/ OpenRequest(c) \/ FirstRead(c) \/ FinishRead(c) \/ Decide(c)
           \/ WakeOnLine(c) \/ WakeOnFinished(c) \/ Respond(c)

PollRest == producer = "done" /\ UNCHANGED pollVars

PollNext == \/ Produce /\ UNCHANGED clientVars
            \/ \E c \in Clients : Poll(c) \/ BudgetSpent(c)
            \/ PollRest
PollSpec == PollInit /\ [][PollNext]_pollVars

(* tokio polls a request that can go on.  That wait_ms runs out is not assumed:
   a wake-up that is owed must not need it. *)
PollFairSpec == PollSpec /\ ProduceFairness /\ \A c \in Clients : WF_pollVars(Poll(c))

----------------------------------------------------------------------------
(* Properties. *)

(* No wake-up is missed: a request that waits while there is a line to give it,
   or while the job is over, answers without waiting for its budget to run out
   (jobs.rs, lines: "a line landing between the read and the wait cannot be
   missed"). *)
PollWakes ==
  \A c \in Clients : request[c] = "waiting" /\ (total > from[c] \/ ~running)
    ~> request[c] \in {"idle", "stopped", "panicked"}

(* A window read when the job was over, be it because its end was heard, lagged past or
   there from the first, has the lines that came with the end, up to a page, and the
   response is not completed with less (jobs.rs, lines: "the response carries any final
   lines alongside the terminal state"). *)
FinalLinesCarried ==
  \A c \in Clients : request[c] = "respond" /\ (over[c] \/ why[c] = "finished") /\ enabled =>
    found[c] = from[c]..(Least(from[c] + Page, total) - 1)

(* A client that polls as the README says, "advancing from to next_from, until running is
   false", has the whole output of a job that spills.  It fails even where a page holds
   every line: the state is read after the window (jobs.rs, lines), and lines printed in
   between are in neither the response nor a later one. *)
StoppedHasAll == \A c \in Clients : request[c] = "stopped" /\ enabled => from[c] = total

----------------------------------------------------------------------------
(* The inductive invariant: a window goes on from the client's cursor, and one
   planned when the job is over reaches as far as there is output. *)
PlannedInv ==
  \A c \in Clients : request[c] \in {"reading", "read", "respond"} =>
    /\ Planned(disk, offsets, total, planned[c], from[c])
    /\ enabled => planned[c].dropped = 0
    /\ why[c] = "finished" => over[c]
    /\ over[c] => /\ producer \in {"finishing", "done"}
                  /\ planned[c].next = Least(from[c] + Page, total)

PollInv == PollTypeOK /\ FeedInv /\ PlannedInv

(* While the spill file can be read back, what was read is that window. *)
FoundInv ==
  \A c \in Clients : request[c] \in {"read", "respond"} /\ over[c] /\ enabled =>
    found[c] = from[c]..(planned[c].next - 1)
=============================================================================
