----------------------------- MODULE OneShotProofs -----------------------------
(***************************************************************************)
(* What the refresher promises, for any number of captures, rotations and  *)
(* wedged shells and beside any calls, and what OneShot promises of a      *)
(* call, for any requests, rings and steps of a command, of Chrome and of  *)
(* the refresher; and what the calls for Google Docs rest on: the index of *)
(* a Drive, for any tree, and the renderer, for any document.              *)
(***************************************************************************)
EXTENDS OneShot, DriveIndex, DocRender, FiniteSetTheorems, WellFoundedInduction, TLAPS

----------------------------------------------------------------------------
(* The refresher and its shells by themselves. *)

LEMMA SlotExists == (CHOOSE n \in Captures : TRUE) \in Captures
<1>1. Captures # {}
  BY EnvAssumption, FS_EmptySet DEF EnvAssumption
<1> QED BY <1>1

LEMMA EnvInitInv == EnvInit => EnvInv
<1> SUFFICES ASSUME EnvInit PROVE EnvInv
  OBVIOUS
<1> USE SlotExists, EnvAssumption DEF EnvInit, EnvAssumption, Asleep, NoEnv, Current
<1>1. EnvTypeOK
  BY DEF EnvTypeOK
<1>2. ThreadInv
  BY DEF ThreadInv
<1>3. PidInv
  BY DEF PidInv
<1>4. DumpInv
  BY DEF DumpInv
<1>5. StraysComeLate
  BY DEF StraysComeLate
<1> QED BY <1>1, <1>2, <1>3, <1>4, <1>5 DEF EnvInv

(* The actions by name: what each does to the snapshot is what SnapshotsMoveForward
   needs, the rest is the invariant. *)
LEMMA EnvStepInv == ASSUME EnvInv, [EnvNext]_envVars PROVE EnvInv' /\ cache' >= cache
<1> USE EnvAssumption, SlotExists
    DEF EnvAssumption, EnvInv, EnvTypeOK, ThreadInv, PidInv, DumpInv, StraysComeLate, Current, NoEnv
<1>1. CASE Rotate
  BY <1>1 DEF Rotate
<1>2. CASE StartCapture
  BY <1>2 DEF StartCapture
<1>3. CASE RecvPid
  <2>1. /\ task' = [at |-> "output", slot |-> task.slot, pid |-> thread[task.slot] = "waiting"]
        /\ task.at = "pid" /\ thread[task.slot] \in {"waiting", "failed"}
        /\ UNCHANGED <<token, cache, thread, shell, dump, late, wedges>>
    BY <1>3 DEF RecvPid
  <2>2. EnvTypeOK'
    BY <2>1
  <2>3. ThreadInv' /\ DumpInv' /\ StraysComeLate' /\ cache' >= cache
    BY <2>1
  <2>4. PidInv'
    BY <2>1
  <2> QED BY <2>2, <2>3, <2>4
<1>4. CASE PidTimesOut
  BY <1>4 DEF PidTimesOut, Slow
<1>5. CASE RecvOutput
  BY <1>5 DEF RecvOutput, Output, Asleep
<1>6. CASE OutputTimesOut
  BY <1>6 DEF OutputTimesOut, InTime, Slow, Killed, Asleep
<1>7. ASSUME NEW n \in Captures, ShellSpawns(n) PROVE EnvInv' /\ cache' >= cache
  BY <1>7 DEF ShellSpawns
<1>8. ASSUME NEW n \in Captures, SpawnFails(n) PROVE EnvInv' /\ cache' >= cache
  BY <1>8 DEF SpawnFails
<1>9. ASSUME NEW n \in Captures, SendPid(n) PROVE EnvInv' /\ cache' >= cache
  BY <1>9 DEF SendPid
<1>10. ASSUME NEW n \in Captures, ThreadEnds(n) PROVE EnvInv' /\ cache' >= cache
  BY <1>10 DEF ThreadEnds, ThreadDone, Output
<1>11. ASSUME NEW n \in Captures, ShellDumps(n) PROVE EnvInv' /\ cache' >= cache
  BY <1>11 DEF ShellDumps
<1>12. ASSUME NEW n \in Captures, ShellHangs(n) PROVE EnvInv' /\ cache' >= cache
  BY <1>12 DEF ShellHangs
<1>13. CASE UNCHANGED envVars
  BY <1>13 DEF envVars
<1> QED
  BY <1>1, <1>2, <1>3, <1>4, <1>5, <1>6, <1>7, <1>8, <1>9, <1>10, <1>11, <1>12, <1>13
     DEF EnvNext, Refresher, Thread

----------------------------------------------------------------------------
(* Calls read the snapshot and change nothing of the refresher. *)

LEMMA StepOfRefresher == ASSUME [Next]_vars PROVE [EnvNext]_envVars
BY DEF Next, CallsNext, vars

(* The inductive invariant: types, what a thread has, what a capture knows and how old what
   it read is. *)
THEOREM EnvInvariantHolds == Spec => []EnvInv
<1>1. Init => EnvInv
  BY EnvInitInv DEF Init
<1>2. EnvInv /\ [Next]_vars => EnvInv'
  BY EnvStepInv, StepOfRefresher
<1> QED BY <1>1, <1>2, PTL DEF Spec

(* No shell outlives its capture unless its pid came after the bound (env_refresh.rs,
   capture). *)
THEOREM StraysAreLate == Spec => []StraysComeLate
<1>1. EnvInv => StraysComeLate
  BY DEF EnvInv
<1> QED BY <1>1, EnvInvariantHolds, PTL

(* The published snapshot is never replaced by an older one (env_refresh.rs,
   spawn_refresher). *)
THEOREM SnapshotsAdvance == Spec => SnapshotsMoveForward
<1>1. EnvInv /\ [Next]_vars => [cache' >= cache]_envVars
  BY EnvStepInv, StepOfRefresher
<1> QED BY <1>1, EnvInvariantHolds, PTL DEF Spec, SnapshotsMoveForward

----------------------------------------------------------------------------
(* The calls. *)

(* The initial states. *)
LEMMA InitInv == Init => CallInv
<1> SUFFICES ASSUME Init PROVE CallInv
  OBVIOUS
<1> USE DEF Init, CallsInit, ActivityInit
<1>1. CallTypeOK
  BY DEF CallTypeOK, Places, Ends, Scripts, Records
<1>2. RowInv /\ StoreAskedFirst
  BY DEF RowInv, StoreAskedFirst
<1>3. ScriptInv /\ TabInv
  BY DEF ScriptInv, TabInv
<1> QED BY <1>1, <1>2, <1>3 DEF CallInv

LEMMA CallIsCall == ASSUME CallTypeOK, NEW r \in Requests PROVE Call(r) \in Calls
BY OneShotAssumption DEF CallTypeOK, OneShotAssumption, Call

(* The rings keep records, and what they show of a call is what was put in last. *)
LEMMA TrimmedIn ==
  ASSUME NEW s \in Seq(Records)
  PROVE  /\ Trimmed(s) \in Seq(Records)
         /\ \A i \in DOMAIN Trimmed(s) : \E k \in DOMAIN s : Trimmed(s)[i] = s[k]
<1>1. MaxActivities \in Nat \ {0}
  BY ActivityAssumption DEF ActivityAssumption
<1>2. CASE Len(s) <= MaxActivities
  BY <1>1, <1>2 DEF Trimmed
<1>3. CASE Len(s) > MaxActivities
  <2> DEFINE m == Len(s) - MaxActivities + 1
  <2>1. m \in 1..Len(s) /\ Trimmed(s) = SubSeq(s, m, Len(s))
    BY <1>1, <1>3 DEF Trimmed
  <2> HIDE DEF m
  <2>2. /\ SubSeq(s, m, Len(s)) \in Seq(Records)
        /\ \A i \in DOMAIN SubSeq(s, m, Len(s)) :
             m + i - 1 \in DOMAIN s /\ SubSeq(s, m, Len(s))[i] = s[m + i - 1]
    BY <2>1
  <2> QED BY <2>1, <2>2
<1>4. Len(s) \in Nat
  OBVIOUS
<1> QED BY <1>1, <1>2, <1>3, <1>4

LEMMA AppendIn ==
  ASSUME NEW s \in Seq(Records), NEW rec \in Records
  PROVE  /\ Append(s, rec) \in Seq(Records) /\ Len(Append(s, rec)) = Len(s) + 1
         /\ \A i \in DOMAIN s : i \in DOMAIN Append(s, rec) /\ Append(s, rec)[i] = s[i]
         /\ Len(s) + 1 \in DOMAIN Append(s, rec) /\ Append(s, rec)[Len(s) + 1] = rec
         /\ \A i \in DOMAIN Append(s, rec) : i \in DOMAIN s \/ i = Len(s) + 1
OBVIOUS

LEMMA TailIn ==
  ASSUME NEW s \in Seq(Records), s # <<>>
  PROVE  /\ Tail(s) \in Seq(Records) /\ Head(s) \in Records /\ Head(s) = s[1]
         /\ \A i \in DOMAIN Tail(s) : i + 1 \in DOMAIN s /\ Tail(s)[i] = s[i + 1]
         /\ \A i \in DOMAIN s : i = 1 \/ (i - 1 \in DOMAIN Tail(s) /\ Tail(s)[i - 1] = s[i])
OBVIOUS

LEMMA WithEndIn ==
  ASSUME NEW s \in Seq(Records), NEW c \in Calls, NEW end \in Ends \cup {"running"}
  PROVE  /\ WithEnd(s, c, end) \in Seq(Records)
         /\ \A i \in DOMAIN WithEnd(s, c, end) :
              /\ i \in DOMAIN s
              /\ WithEnd(s, c, end)[i] = IF s[i].call = c THEN Record(c, end) ELSE s[i]
<1>1. Record(c, end) \in Records
  BY DEF Record, Records
<1>2. \A i \in 1..Len(s) : s[i] \in Records
  OBVIOUS
<1>3. WithEnd(s, c, end) = [i \in 1..Len(s) |-> IF s[i].call = c THEN Record(c, end) ELSE s[i]]
  BY DEF WithEnd
<1>4. \A i \in 1..Len(s) : (IF s[i].call = c THEN Record(c, end) ELSE s[i]) \in Records
  BY <1>1, <1>2
<1>5. WithEnd(s, c, end) \in [1..Len(s) -> Records]
  BY <1>3, <1>4
<1>6. Len(s) \in Nat /\ DOMAIN s = 1..Len(s) /\ DOMAIN WithEnd(s, c, end) = 1..Len(s)
  BY <1>3
<1> QED BY <1>3, <1>5, <1>6

LEMMA UpsertIn ==
  ASSUME NEW s \in Seq(Records), NEW rec \in Records
  PROVE  /\ Upsert(s, rec) \in Seq(Records)
         /\ \A i \in DOMAIN Upsert(s, rec) :
              \/ Upsert(s, rec)[i] = rec
              \/ \E k \in DOMAIN s : Upsert(s, rec)[i] = s[k] /\ s[k].call # rec.call
<1>1. /\ rec.call \in Calls /\ rec.end \in Ends \cup {"running"}
      /\ rec = Record(rec.call, rec.end)
  BY DEF Records, Record
<1>2. CASE Held(s, rec.call)
  <2>1. Upsert(s, rec) = WithEnd(s, rec.call, rec.end)
    BY <1>2 DEF Upsert
  <2> QED BY <1>1, <2>1, WithEndIn
<1>3. CASE ~Held(s, rec.call)
  <2> DEFINE t == Append(s, rec)
  <2>1. Upsert(s, rec) = Trimmed(t)
    BY <1>3 DEF Upsert
  <2>2. \A k \in DOMAIN s : s[k].call # rec.call
    BY <1>3 DEF Held
  <2>3. t \in Seq(Records) /\ \A k \in DOMAIN t : t[k] = rec \/ (k \in DOMAIN s /\ t[k] = s[k])
    BY AppendIn
  <2> HIDE DEF t
  <2>4. /\ Trimmed(t) \in Seq(Records)
        /\ \A i \in DOMAIN Trimmed(t) : \E k \in DOMAIN t : Trimmed(t)[i] = t[k]
    BY <2>3, TrimmedIn
  <2> QED BY <2>1, <2>2, <2>3, <2>4
<1> QED BY <1>2, <1>3

LEMMA PushedIn ==
  ASSUME log \in Seq(Records), NEW c \in Calls, PushRunning(c)
  PROVE  /\ log' \in Seq(Records)
         /\ \A i \in DOMAIN log' : log'[i] = Record(c, "running") \/ \E k \in DOMAIN log : log'[i] = log[k]
<1> DEFINE t == Append(log, Record(c, "running"))
<1>1. Record(c, "running") \in Records
  BY DEF Record, Records
<1>2. /\ t \in Seq(Records)
      /\ \A k \in DOMAIN t : t[k] = Record(c, "running") \/ (k \in DOMAIN log /\ t[k] = log[k])
  BY <1>1, AppendIn
<1>3. log' = Trimmed(t)
  BY DEF PushRunning
<1> HIDE DEF t
<1>4. /\ Trimmed(t) \in Seq(Records)
      /\ \A i \in DOMAIN Trimmed(t) : \E k \in DOMAIN t : Trimmed(t)[i] = t[k]
  BY <1>2, TrimmedIn
<1> QED BY <1>2, <1>3, <1>4

(* publish keeps the channel a sequence of records; what it appends is all that is new. *)
LEMMA PublishKeeps ==
  ASSUME CallTypeOK, NEW c \in Calls, NEW end \in Ends \cup {"running"}, Publish(c, end)
  PROVE  /\ sub' \in [at : {"away", "subscribed", "live"}, replay : Seq(Records), queue : Seq(Records)]
         /\ \A i \in DOMAIN sub'.queue :
              (\E k \in DOMAIN sub.queue : sub'.queue[i] = sub.queue[k]) \/ sub'.queue[i] = Record(c, end)
<1>1. Record(c, end) \in Records
  BY DEF Record, Records
<1>2. CASE sub.at = "away"
  BY <1>2 DEF Publish, CallTypeOK
<1>3. CASE sub.at # "away"
  <2>1. sub' = [sub EXCEPT !.queue = Append(@, Record(c, end))]
    BY <1>3 DEF Publish
  <2>2. sub' = [at |-> sub.at, replay |-> sub.replay, queue |-> Append(sub.queue, Record(c, end))]
    BY <2>1 DEF CallTypeOK
  <2>3. sub' \in [at : {"away", "subscribed", "live"}, replay : Seq(Records), queue : Seq(Records)]
    <3>1. /\ sub.queue \in Seq(Records) /\ sub.replay \in Seq(Records)
          /\ sub.at \in {"away", "subscribed", "live"}
      BY DEF CallTypeOK
    <3>2. Append(sub.queue, Record(c, end)) \in Seq(Records)
      BY <1>1, <3>1
    <3> QED BY <2>2, <3>1, <3>2
  <2>4. ASSUME NEW i \in DOMAIN sub'.queue
        PROVE  (\E k \in DOMAIN sub.queue : sub'.queue[i] = sub.queue[k]) \/ sub'.queue[i] = Record(c, end)
    BY <1>1, <2>2, <2>4 DEF CallTypeOK
  <2> QED BY <2>3, <2>4
<1> QED BY <1>2, <1>3

----------------------------------------------------------------------------
(* The handler's steps before and after the wait. *)

LEMMA RecordInv ==
  ASSUME CallInv, NEW r \in Requests,
         Refuse(r) \/ Start(r) \/ Announce(r) \/ FinishCall(r) \/ RecordCall(r) \/ AnnounceEnd(r)
           \/ NextStep(r)
  PROVE  CallInv'
<1> USE DEF Go, Places, Ends
<1>1. CASE Refuse(r)
  BY <1>1 DEF Refuse, CallInv, CallTypeOK, RowInv, ScriptInv, TabInv, StoreAskedFirst, Call,
              activityVars, IsCommand, Keeps, rowVars, Persisted
<1>2. CASE Start(r)
  <2>1. log' \in Seq(Records)
    BY <1>2, PushedIn, CallIsCall DEF Start, CallInv, CallTypeOK
  <2> QED BY <1>2, <2>1 DEF Start, CallInv, CallTypeOK, RowInv, ScriptInv, TabInv, StoreAskedFirst,
                            Call, IsCommand, Keeps, rowVars, Persisted
<1>3. CASE Announce(r)
  <2>1. Publish(Call(r), "running") /\ Persisted' = Persisted
    BY <1>3 DEF Announce, rowVars, Persisted
  <2>2. StoreAskedFirst'
    <3> SUFFICES ASSUME NEW i \in DOMAIN sub'.queue, sub'.queue[i].end # "running"
                 PROVE  sub'.queue[i].call \in Persisted
      BY <2>1 DEF StoreAskedFirst
    <3>1. Record(Call(r), "running").end = "running"
      BY DEF Record
    <3>2. PICK k \in DOMAIN sub.queue : sub'.queue[i] = sub.queue[k]
      BY <2>1, <3>1, PublishKeeps, CallIsCall DEF CallInv
    <3> QED BY <3>2 DEF CallInv, StoreAskedFirst
  <2>3. CallTypeOK'
    BY <1>3, <2>1, PublishKeeps, CallIsCall DEF Announce, CallInv, CallTypeOK
  <2>4. RowInv' /\ ScriptInv' /\ TabInv'
    BY <1>3 DEF Announce, CallInv, CallTypeOK, RowInv, ScriptInv, TabInv, Call, IsCommand, Keeps, rowVars, Persisted
  <2> QED BY <2>2, <2>3, <2>4 DEF CallInv
<1>4. CASE FinishCall(r)
  <2>1. log' = WithEnd(log, Call(r), result[r]) /\ result[r] \in Ends
    BY <1>4 DEF FinishCall, Stamp, CallInv, RowInv
  <2>2. log' \in Seq(Records)
    BY <2>1, WithEndIn, CallIsCall DEF CallInv, CallTypeOK
  <2> QED BY <1>4, <2>2 DEF FinishCall, After, GoesOn, CallInv, CallTypeOK, RowInv, ScriptInv, TabInv,
                            StoreAskedFirst, Call, IsCommand, Keeps, rowVars, Persisted
<1>5. CASE RecordCall(r)
  BY <1>5 DEF RecordCall, Persist, CallInv, CallTypeOK, RowInv, ScriptInv, TabInv, StoreAskedFirst,
              Call, IsCommand, Keeps, rowVars, Persisted
<1>6. CASE AnnounceEnd(r)
  <2>1. Publish(Call(r), result[r]) /\ Persisted' = Persisted /\ at[r] = "recorded"
    BY <1>6 DEF AnnounceEnd, rowVars, Persisted
  <2>2. Call(r) \in Persisted
    BY <2>1 DEF CallInv, RowInv
  <2>3. result[r] \in Ends \cup {"running"}
    BY <2>1 DEF CallInv, RowInv
  <2>4. StoreAskedFirst'
    <3> SUFFICES ASSUME NEW i \in DOMAIN sub'.queue, sub'.queue[i].end # "running"
                 PROVE  sub'.queue[i].call \in Persisted
      BY <2>1 DEF StoreAskedFirst
    <3>1. CASE sub'.queue[i] = Record(Call(r), result[r])
      BY <2>2, <3>1 DEF Record
    <3>2. CASE sub'.queue[i] # Record(Call(r), result[r])
      <4>1. PICK k \in DOMAIN sub.queue : sub'.queue[i] = sub.queue[k]
        BY <2>1, <2>3, <3>2, PublishKeeps, CallIsCall DEF CallInv
      <4> QED BY <4>1 DEF CallInv, StoreAskedFirst
    <3> QED BY <3>1, <3>2
  <2>5. CallTypeOK'
    BY <1>6, <2>1, <2>3, PublishKeeps, CallIsCall DEF AnnounceEnd, After, CallInv, CallTypeOK
  <2>6. RowInv' /\ ScriptInv' /\ TabInv'
    BY <1>6 DEF AnnounceEnd, After, GoesOn, CallInv, CallTypeOK, RowInv, ScriptInv, TabInv, Call,
                IsCommand, Keeps, rowVars, Persisted
  <2> QED BY <2>4, <2>5, <2>6 DEF CallInv
<1>7. CASE NextStep(r)
  BY <1>7 DEF NextStep, CallInv, CallTypeOK, RowInv, ScriptInv, TabInv, StoreAskedFirst, Call,
              activityVars, IsCommand, Keeps, rowVars, Persisted
<1> QED BY <1>1, <1>2, <1>3, <1>4, <1>5, <1>6, <1>7

----------------------------------------------------------------------------
(* The wait, from its start to its end: no event, no row. *)

LEMMA EndingInv ==
  ASSUME CallInv, NEW r \in Requests, at[r] \in {"begun", "waiting"},
         NEW end \in Ends, End(r, end), Go(r, "ended"),
         UNCHANGED <<ask, step, script, tabs, activityVars>>
  PROVE  CallInv'
<1> USE DEF End, Go, CallInv
<1>1. CallTypeOK' /\ StoreAskedFirst'
  BY DEF CallTypeOK, StoreAskedFirst, Places, activityVars, rowVars, Persisted
<1>2. RowInv'
  BY DEF CallTypeOK, RowInv, Call, activityVars, rowVars, Persisted
<1>3. ScriptInv' /\ TabInv'
  BY DEF CallTypeOK, ScriptInv, TabInv, IsCommand, Keeps
<1> QED BY <1>1, <1>2, <1>3

LEMMA WaitingInv ==
  ASSUME CallInv, NEW r \in Requests, at[r] = "begun",
         NEW s \in Scripts, script' = [script EXCEPT ![r] = s], Go(r, "waiting"),
         s # "none" => ~IsCommand(r), s = "open" => ask[r].kind \in {"fetch", "read"},
         UNCHANGED <<ask, step, result, tabs, activityVars>>
  PROVE  CallInv'
<1> USE DEF Go, CallInv
<1>1. CallTypeOK' /\ StoreAskedFirst'
  BY DEF CallTypeOK, StoreAskedFirst, Places, activityVars, rowVars, Persisted
<1>2. RowInv'
  BY DEF CallTypeOK, RowInv, Call, activityVars, rowVars, Persisted
<1>3. ScriptInv'
  BY DEF CallTypeOK, ScriptInv, IsCommand
<1>4. TabInv'
  <2>1. script[r] = "none"
    BY DEF ScriptInv
  <2>2. r \notin tabs \/ Keeps(r)
    BY <2>1 DEF TabInv
  <2> QED BY <2>2 DEF CallTypeOK, TabInv, Keeps
<1> QED BY <1>1, <1>2, <1>3, <1>4

LEMMA WaitInv ==
  ASSUME CallInv, NEW r \in Requests,
         FailsAtOnce(r) \/ Spawn(r) \/ Bridge(r) \/ RenderOnly(r) \/ Returns(r) \/ TimesOut(r)
           \/ HangUp(r)
  PROVE  CallInv'
<1> USE DEF Ends
<1>1. CASE FailsAtOnce(r)
  BY <1>1, EndingInv
     DEF FailsAtOnce, Fails, Denied, CannotRun, NoBridge, FormatUnsupported, WriteFails
<1>2. CASE Spawn(r)
  BY <1>2 DEF Spawn, Go, Places, activityVars, CallInv, CallTypeOK, RowInv, ScriptInv, TabInv,
              StoreAskedFirst, Call, IsCommand, Keeps, rowVars, Persisted
<1>3. ASSUME NEW kind \in {"fetch", "tab", "read", "paste"}, NEW first \in {"open", "extract", "set"},
             RunScript(r, kind, first), first = "open" => kind \in {"fetch", "read"}
      PROVE  CallInv'
  BY <1>3, WaitingInv DEF RunScript, Scripts, IsCommand
<1>4. CASE Bridge(r)
  BY <1>3, <1>4 DEF Bridge, FetchPage, ReadTab, ReadDocument, SetClipboard
<1>5. CASE RenderOnly(r)
  BY <1>5, EndingInv DEF RenderOnly
<1>6. CASE Returns(r)
  <2>1. CASE Collected(r)
    BY <2>1, EndingInv DEF Collected
  <2>2. CASE PageArrives(r)
    BY <2>2, EndingInv DEF PageArrives
  <2>3. CASE DownloadArrives(r)
    BY <2>3, EndingInv DEF DownloadArrives
  <2>4. CASE FlavorVerified(r)
    BY <2>4, EndingInv DEF FlavorVerified
  <2>5. CASE ScriptFailed(r)
    BY <2>5, EndingInv DEF ScriptFailed, Fails
  <2> QED BY <1>6, <2>1, <2>2, <2>3, <2>4, <2>5 DEF Returns
<1>7. CASE TimesOut(r)
  BY <1>7 DEF TimesOut, KillChild, Stopped, Scripts, Go, End, Places, activityVars, CallInv, CallTypeOK,
              RowInv, ScriptInv, TabInv, StoreAskedFirst, Call, IsCommand, Keeps, rowVars, Persisted
<1>8. CASE HangUp(r)
  BY <1>8 DEF HangUp, KillChild, Stopped, Scripts, Go, Places, activityVars, CallInv, CallTypeOK,
              RowInv, ScriptInv, TabInv, StoreAskedFirst, Call, IsCommand, Keeps, rowVars, Persisted
<1> QED BY <1>1, <1>2, <1>4, <1>5, <1>6, <1>7, <1>8

----------------------------------------------------------------------------
(* The command, the script and the user. *)

(* A running script goes from place to place; while its tab is open it goes on to where it
   will close it. *)
LEMMA ScriptMoves ==
  ASSUME CallInv, NEW r \in Requests, script[r] # "none",
         NEW s \in Scripts \ {"none", "open"}, Becomes(r, s), UNCHANGED <<Outside, tabs>>,
         r \in tabs => Keeps(r) \/ s \in {"load", "prepare", "extract", "closing", "failing"}
  PROVE  CallInv'
<1> USE DEF Becomes, Outside, CallInv
<1>1. CallTypeOK' /\ StoreAskedFirst' /\ RowInv'
  BY DEF CallTypeOK, StoreAskedFirst, RowInv, Call, activityVars, rowVars, Persisted
<1>2. ScriptInv'
  BY DEF CallTypeOK, ScriptInv, IsCommand
<1>3. TabInv'
  BY DEF CallTypeOK, TabInv, Keeps
<1> QED BY <1>1, <1>2, <1>3

LEMMA ProcessInv == ASSUME CallInv, NEW r \in Requests, Processes(r) PROVE CallInv'
<1>1. CASE ChildExits(r) \/ OutputEnds(r) \/ UserClosesTab(r)
  BY <1>1 DEF ChildExits, OutputEnds, UserClosesTab, Outside, activityVars, CallInv, CallTypeOK,
              RowInv, ScriptInv, TabInv, StoreAskedFirst, Call, IsCommand, Keeps, rowVars, Persisted
<1>2. CASE OpenTab(r)
  BY <1>2 DEF OpenTab, Becomes, Outside, Scripts, activityVars, CallInv, CallTypeOK,
              RowInv, ScriptInv, TabInv, StoreAskedFirst, Call, IsCommand, Keeps, rowVars, Persisted
<1>3. CASE Loaded(r)
  BY <1>3, ScriptMoves DEF Loaded, Scripts
<1>4. CASE Prepared(r)
  BY <1>4, ScriptMoves DEF Prepared, Scripts
<1>5. CASE Extracted(r)
  BY <1>5, ScriptMoves DEF Extracted, Scripts
<1>6. CASE Exported(r)
  BY <1>6, ScriptMoves DEF Exported, Scripts
<1>7. CASE TabRead(r)
  <2>1. r \notin tabs
    BY <1>7 DEF TabRead, CallInv, TabInv, Keeps
  <2> QED BY <1>7, <2>1, ScriptMoves DEF TabRead, Scripts
<1>8. CASE ClipboardSet(r)
  <2>1. r \in tabs => Keeps(r)
    BY <1>8 DEF ClipboardSet, CallInv, TabInv
  <2> QED BY <1>8, <2>1, ScriptMoves DEF ClipboardSet, Scripts
<1>9. CASE FlavorRead(r)
  <2>1. r \in tabs => Keeps(r)
    BY <1>9 DEF FlavorRead, CallInv, TabInv
  <2>2. PICK s \in {"ok", "error"} : Becomes(r, s)
    BY <1>9 DEF FlavorRead
  <2> QED BY <1>9, <2>1, <2>2, ScriptMoves DEF FlavorRead, Scripts
<1>10. CASE ScriptFails(r)
  <2>1. r \in tabs => Keeps(r) \/ ask[r].kind # "tab"
    BY <1>10 DEF CallInv, TabInv
  <2> QED BY <1>10, <2>1, ScriptMoves DEF ScriptFails, Scripts
<1>11. CASE ScriptDies(r)
  <2>1. r \in tabs => Keeps(r)
    BY <1>11 DEF ScriptDies, CallInv, TabInv
  <2> QED BY <1>11, <2>1, ScriptMoves DEF ScriptDies, Scripts
<1>12. CASE CloseTab(r)
  BY <1>12 DEF CloseTab, Becomes, Outside, Scripts, activityVars, CallInv, CallTypeOK,
               RowInv, ScriptInv, TabInv, StoreAskedFirst, Call, IsCommand, Keeps, rowVars, Persisted
<1> QED BY <1>1, <1>2, <1>3, <1>4, <1>5, <1>6, <1>7, <1>8, <1>9, <1>10, <1>11, <1>12
        DEF Processes, Script

(* The monitor takes events out of the replay and then out of its queue. *)
LEMMA WatchInv == ASSUME CallInv, Watching, UNCHANGED callVars PROVE CallInv'
<1>t. /\ log \in Seq(Records) /\ view \in Seq(Records)
      /\ sub.at \in {"away", "subscribed", "live"}
      /\ sub.replay \in Seq(Records) /\ sub.queue \in Seq(Records)
      /\ sub = [at |-> sub.at, replay |-> sub.replay, queue |-> sub.queue]
  BY DEF CallInv, CallTypeOK
<1>1. Persisted' = Persisted /\ RowInv' /\ ScriptInv' /\ TabInv'
  BY DEF callVars, Watching, Subscribe, ReadReplay, ReceiveReplay, ReceiveEvent, CallInv, RowInv, ScriptInv,
         TabInv, Call, IsCommand, Keeps, rowVars, Persisted
<1>2. CASE Subscribe
  BY <1>1, <1>2 DEF callVars, Subscribe, CallInv, CallTypeOK, StoreAskedFirst
<1>3. CASE ReadReplay
  <2>1. sub' = [at |-> "live", replay |-> log, queue |-> sub.queue] /\ log' = log /\ view' = view
    BY <1>3, <1>t DEF ReadReplay
  <2> QED BY <1>1, <1>t, <2>1 DEF callVars, CallInv, CallTypeOK, StoreAskedFirst
<1>4. CASE ReceiveReplay
  <2>1. /\ sub.replay # <<>> /\ view' = Upsert(view, Head(sub.replay)) /\ log' = log
        /\ sub' = [at |-> sub.at, replay |-> Tail(sub.replay), queue |-> sub.queue]
    BY <1>4, <1>t DEF ReceiveReplay
  <2>2. Tail(sub.replay) \in Seq(Records) /\ Head(sub.replay) \in Records
    BY <1>t, <2>1, TailIn
  <2>3. view' \in Seq(Records)
    BY <1>t, <2>1, <2>2, UpsertIn
  <2> QED BY <1>1, <1>t, <2>1, <2>2, <2>3 DEF callVars, CallInv, CallTypeOK, StoreAskedFirst
<1>5. CASE ReceiveEvent
  <2>1. /\ sub.queue # <<>> /\ view' = Upsert(view, Head(sub.queue)) /\ log' = log
        /\ sub' = [at |-> sub.at, replay |-> sub.replay, queue |-> Tail(sub.queue)]
    BY <1>5, <1>t DEF ReceiveEvent
  <2>2. /\ Tail(sub.queue) \in Seq(Records) /\ Head(sub.queue) \in Records
        /\ \A i \in DOMAIN Tail(sub.queue) :
             i + 1 \in DOMAIN sub.queue /\ Tail(sub.queue)[i] = sub.queue[i + 1]
    BY <1>t, <2>1, TailIn
  <2>3. view' \in Seq(Records)
    BY <1>t, <2>1, <2>2, UpsertIn
  <2>4. CallTypeOK'
    BY <1>t, <2>1, <2>2, <2>3 DEF callVars, CallInv, CallTypeOK
  <2>5. StoreAskedFirst'
    BY <1>1, <2>1, <2>2 DEF CallInv, StoreAskedFirst
  <2> QED BY <1>1, <2>4, <2>5 DEF CallInv
<1> QED BY <1>2, <1>3, <1>4, <1>5 DEF Watching

----------------------------------------------------------------------------
LEMMA StepInv == ASSUME CallInv, [Next]_vars PROVE CallInv'
<1>1. ASSUME NEW r \in Requests, Handler(r) PROVE CallInv'
  BY <1>1, RecordInv, WaitInv DEF Handler
<1>2. ASSUME NEW r \in Requests, HangUp(r) PROVE CallInv'
  BY <1>2, WaitInv
<1>3. ASSUME NEW r \in Requests, Processes(r) PROVE CallInv'
  BY <1>3, ProcessInv
<1>4. CASE Watching /\ UNCHANGED callVars
  BY <1>4, WatchInv
<1>5. CASE UNCHANGED <<callVars, activityVars>>
  BY <1>5 DEF callVars, activityVars, CallInv, CallTypeOK, RowInv, ScriptInv, TabInv,
              StoreAskedFirst, Call, IsCommand, Keeps, rowVars, Persisted
<1> QED BY <1>1, <1>2, <1>3, <1>4, <1>5 DEF Next, CallsNext, vars

(* The inductive invariant of calls and their tabs. *)
THEOREM InvariantHolds == Spec => []CallInv
<1>1. CallInv /\ [Next]_vars => CallInv'
  BY StepInv
<1> QED BY <1>1, InitInv, PTL DEF Spec

(* An end is announced after its row was handed to the store, which has it then unless
   there is no store or the append failed (events.rs, finish and persist). *)
THEOREM EndsFollowTheStore == Spec => []StoreAskedFirst
<1>1. CallInv => StoreAskedFirst
  BY DEF CallInv
<1> QED BY <1>1, InvariantHolds, PTL

(* A script that came to its end has closed its tab, unless it was to keep it
   (browser.rs, FETCH_SCRIPT; export.rs, EXPORT_SCRIPT). *)
THEOREM TabsClose == Spec => []TabsAreClosed
<1>1. CallInv => TabsAreClosed
  BY DEF CallInv, CallTypeOK, TabInv, TabsAreClosed
<1> QED BY <1>1, InvariantHolds, PTL

----------------------------------------------------------------------------
(* What a monitor shows. *)

(* A handler waits, gives up or is dropped: no step of a call's record. *)
Waits(r) ==
  /\ \/ at' = at
     \/ /\ at[r] \in {"begun", "waiting"}
        /\ \E place \in {"waiting", "ended", "gone"} : Go(r, place)
     \/ at[r] = "new" /\ step[r] = 1 /\ Refused(r) /\ Go(r, "answered")
  /\ UNCHANGED <<step, activityVars>>

(* What a step may be, for the ring, the store and the monitor. *)
LEMMA StepKinds ==
  ASSUME [Next]_vars
  PROVE  \/ \E r \in Requests : \/ Start(r) \/ Announce(r) \/ FinishCall(r) \/ RecordCall(r)
                                \/ AnnounceEnd(r) \/ NextStep(r) \/ Waits(r)
         \/ Watching /\ UNCHANGED callVars
         \/ UNCHANGED <<at, step, activityVars>>
<1>1. ASSUME NEW r \in Requests, FailsAtOnce(r) \/ RenderOnly(r) \/ TimesOut(r) PROVE Waits(r)
  BY <1>1 DEF FailsAtOnce, Fails, Denied, CannotRun, NoBridge, FormatUnsupported, WriteFails,
              RenderOnly, TimesOut, Waits
<1>2. ASSUME NEW r \in Requests, Spawn(r) \/ Bridge(r) \/ HangUp(r) PROVE Waits(r)
  BY <1>2 DEF Spawn, Bridge, FetchPage, ReadTab, ReadDocument, SetClipboard, RunScript, HangUp, Waits
<1>3. ASSUME NEW r \in Requests, Returns(r) PROVE Waits(r)
  BY <1>3 DEF Returns, Collected, PageArrives, DownloadArrives, FlavorVerified, ScriptFailed, Fails, Waits
<1>4. ASSUME NEW r \in Requests, Refuse(r) PROVE Waits(r)
  BY <1>4 DEF Refuse, Waits
<1>5. ASSUME NEW r \in Requests, Script(r) PROVE Waits(r)
  BY <1>5 DEF Script, OpenTab, Loaded, Prepared, Extracted, Exported, TabRead, ClipboardSet, FlavorRead,
              ScriptFails, ScriptDies, CloseTab, Outside, Waits
<1>6. ASSUME NEW r \in Requests, Processes(r) PROVE Waits(r)
  BY <1>5, <1>6 DEF Processes, ChildExits, OutputEnds, UserClosesTab, Outside, Waits
<1>7. CASE UNCHANGED <<callVars, activityVars>>
  BY <1>7 DEF callVars
<1> QED BY <1>1, <1>2, <1>3, <1>4, <1>6, <1>7 DEF Next, CallsNext, Handler, vars

(* What a step of a handler does to the places of the requests. *)
LEMMA StageStep == ASSUME CallInv, StageInv, [Next]_vars PROVE StageInv'
<1> USE DEF Go, Places, Call
<1>t. /\ at \in [Requests -> Places] /\ step \in [Requests -> {1, 2}]
      /\ \A r \in Requests : /\ <<r, step[r]>> \in Persisted => at[r] \in {"recorded", "closed", "answered"}
                             /\ step[r] = 1 => <<r, 2>> \notin Persisted
                             /\ at[r] = "closed" => step[r] = 1
  BY DEF CallInv, CallTypeOK, StageInv
<1>1. ASSUME NEW r \in Requests, Start(r) \/ Announce(r) \/ Waits(r) PROVE StageInv'
  BY <1>1, <1>t DEF Start, Announce, Waits, activityVars, StageInv, rowVars, Persisted
<1>2. ASSUME NEW r \in Requests, FinishCall(r) \/ AnnounceEnd(r) PROVE StageInv'
  BY <1>2, <1>t DEF FinishCall, AnnounceEnd, After, GoesOn, StageInv, rowVars, Persisted
<1>3. ASSUME NEW r \in Requests, RecordCall(r) PROVE StageInv'
  <2>1. /\ Persisted' = Persisted \cup {<<r, step[r]>>} /\ step' = step /\ at' = [at EXCEPT ![r] = "recorded"]
    BY <1>3 DEF RecordCall, Persist, rowVars, Persisted
  <2> SUFFICES ASSUME NEW q \in Requests
               PROVE  /\ <<q, step[q]>> \in Persisted' => at'[q] \in {"recorded", "closed", "answered"}
                      /\ step[q] = 1 => <<q, 2>> \notin Persisted'
                      /\ at'[q] = "closed" => step[q] = 1
    BY <2>1 DEF StageInv
  <2>2. CASE q = r
    <3>1. at'[r] = "recorded"
      BY <1>t, <2>1
    <3>2. ASSUME step[r] = 1 PROVE <<r, 2>> # <<r, step[r]>> /\ <<r, 2>> \notin Persisted
      <4>1. <<r, 2>>[2] # <<r, step[r]>>[2]
        BY <3>2
      <4>2. <<r, 2>> \notin Persisted
        BY <1>t, <3>2
      <4> QED BY <4>1, <4>2
    <3> QED BY <2>1, <2>2, <3>1, <3>2
  <2>3. CASE q # r
    <3>1. at'[q] = at[q] /\ \A k \in {1, 2} : <<q, k>> \in Persisted' => <<q, k>> \in Persisted
      BY <1>t, <2>1, <2>3
    <3> QED BY <1>t, <3>1
  <2> QED BY <2>2, <2>3
<1>4. ASSUME NEW r \in Requests, NextStep(r) PROVE StageInv'
  BY <1>4, <1>t DEF NextStep, activityVars, StageInv, rowVars, Persisted
<1>5. CASE (Watching /\ UNCHANGED callVars) \/ UNCHANGED <<at, step, activityVars>>
  BY <1>5, <1>t DEF Watching, Subscribe, ReadReplay, ReceiveReplay, ReceiveEvent, callVars, activityVars,
                    StageInv, rowVars, Persisted
<1> QED BY <1>1, <1>2, <1>3, <1>4, <1>5, StepKinds

LEMMA RingStep == ASSUME CallInv, StageInv, RingInv, [Next]_vars PROVE RingInv'
<1> USE DEF Go, Places
<1>t. /\ at \in [Requests -> Places] /\ step \in [Requests -> {1, 2}] /\ log \in Seq(Records)
      /\ \A r \in Requests : Call(r) \in Persisted => at[r] \in {"recorded", "closed", "answered"}
      /\ \A r \in Requests : step[r] = 1 => <<r, 2>> \notin Persisted
  BY DEF CallInv, CallTypeOK, StageInv
<1>1. ASSUME NEW r \in Requests, Start(r) PROVE RingInv'
  <2>1. /\ at[r] = "new" /\ PushRunning(Call(r)) /\ Call(r) \in Calls /\ Persisted' = Persisted
        /\ at' = [at EXCEPT ![r] = "pushed"] /\ step' = step
    BY <1>1, CallIsCall DEF Start, CallInv, rowVars, Persisted
  <2>2. ASSUME NEW c, IsShownRunning(log, c)', c # Call(r) PROVE IsShownRunning(log, c)
    BY <1>t, <2>1, <2>2, PushedIn DEF IsShownRunning, Record
  <2>3. \A q \in Requests : at'[q] = "stamped" => at[q] = "stamped" /\ Call(q)' = Call(q) /\ Call(q) # Call(r)
    BY <1>t, <2>1 DEF Call
  <2> QED BY <1>t, <2>1, <2>2, <2>3 DEF RingInv
<1>2. ASSUME NEW r \in Requests, FinishCall(r) PROVE RingInv'
  <2>1. /\ Call(r) \in Calls /\ result[r] \in Ends
        /\ log' = WithEnd(log, Call(r), result[r]) /\ Persisted' = Persisted /\ step' = step
        /\ \A q \in Requests : q # r => at'[q] = at[q]
    BY <1>2, <1>t, CallIsCall DEF FinishCall, Stamp, CallInv, RowInv, rowVars, Persisted
  <2>2. ASSUME NEW c, IsShownRunning(log, c)' PROVE IsShownRunning(log, c) /\ c # Call(r)
    <3>1. PICK i \in DOMAIN log' : log'[i].call = c /\ log'[i].end = "running"
      BY <2>2 DEF IsShownRunning
    <3>2. i \in DOMAIN log /\ log'[i] = IF log[i].call = Call(r) THEN Record(Call(r), result[r]) ELSE log[i]
      BY <1>t, <2>1, <3>1, WithEndIn
    <3>3. result[r] # "running"
      BY <2>1 DEF Ends
    <3> QED BY <3>1, <3>2, <3>3 DEF IsShownRunning, Record
  <2>3. \A q \in Requests : Call(q)' = Call(q)
    BY <2>1 DEF Call
  <2> QED BY <2>1, <2>2, <2>3 DEF RingInv
<1>3. ASSUME NEW r \in Requests, RecordCall(r) PROVE RingInv'
  BY <1>3, <1>t DEF RecordCall, Persist, RingInv, Call, IsShownRunning, rowVars, Persisted
<1>4. ASSUME NEW r \in Requests, Announce(r) \/ AnnounceEnd(r) \/ NextStep(r) \/ Waits(r)
      PROVE  RingInv'
  <2>1. /\ log' = log /\ Persisted' = Persisted
        /\ \A q \in Requests : at'[q] = "stamped" => at[q] = "stamped" /\ step'[q] = step[q]
    BY <1>4, <1>t DEF Announce, AnnounceEnd, After, GoesOn, NextStep, Waits, activityVars, rowVars, Persisted
  <2> QED BY <2>1 DEF RingInv, IsShownRunning, Call
<1>5. CASE (Watching /\ UNCHANGED callVars) \/ UNCHANGED <<at, step, activityVars>>
  <2>1. UNCHANGED <<log, Persisted, at, step>>
    BY <1>5 DEF Watching, Subscribe, ReadReplay, ReceiveReplay, ReceiveEvent, callVars, activityVars, rowVars, Persisted
  <2> QED BY <2>1 DEF RingInv, IsShownRunning, Call
<1> QED BY <1>1, <1>2, <1>3, <1>4, <1>5, StepKinds

(* publish appends to the queue of whoever has subscribed. *)
LEMMA PublishFacts ==
  ASSUME CallTypeOK, NEW c \in Calls, NEW end \in Ends \cup {"running"}, Publish(c, end)
  PROVE  /\ sub'.at = sub.at /\ sub'.replay = sub.replay
         /\ sub.at = "away" => sub'.queue = sub.queue
         /\ sub.at # "away" =>
              /\ sub.queue \in Seq(Records) /\ Record(c, end) \in Records
              /\ sub'.queue = Append(sub.queue, Record(c, end))
BY DEF CallTypeOK, Publish, Record, Records

LEMMA QuietStep == ASSUME CallInv, QuietInv, [Next]_vars PROVE QuietInv'
<1>1. ASSUME NEW r \in Requests, Announce(r) PROVE QuietInv'
  BY <1>1, CallIsCall, PublishFacts DEF Announce, CallInv, QuietInv
<1>2. ASSUME NEW r \in Requests, AnnounceEnd(r) PROVE QuietInv'
  <2>1. result[r] \in Ends /\ Publish(Call(r), result[r]) /\ view' = view
    BY <1>2 DEF AnnounceEnd, CallInv, RowInv
  <2> QED BY <2>1, CallIsCall, PublishFacts DEF CallInv, QuietInv
<1>3. CASE Watching
  BY <1>3 DEF Watching, Subscribe, ReadReplay, ReceiveReplay, ReceiveEvent, CallInv, CallTypeOK, QuietInv
<1>4. ASSUME NEW r \in Requests,
             Start(r) \/ FinishCall(r) \/ RecordCall(r) \/ NextStep(r) \/ Waits(r)
      PROVE  QuietInv'
  BY <1>4 DEF Start, FinishCall, RecordCall, NextStep, Waits, activityVars, QuietInv
<1>5. CASE UNCHANGED <<at, step, activityVars>>
  BY <1>5 DEF activityVars, QuietInv
<1> QED BY <1>1, <1>2, <1>3, <1>4, <1>5, StepKinds

(* A call becomes told when its end is announced. *)
LEMMA ToldStep ==
  ASSUME CallInv, StageInv, [Next]_vars, NEW c \in Calls, Told(c)'
  PROVE  Told(c) \/ \E r \in Requests : AnnounceEnd(r) /\ c = Call(r)
<1> USE DEF Go, Places
<1>t. /\ at \in [Requests -> Places] /\ step \in [Requests -> {1, 2}]
      /\ c \in Requests \X {1, 2}
  BY OneShotAssumption DEF CallInv, CallTypeOK, OneShotAssumption
<1>0. /\ c[1] \in Requests /\ c[2] \in {1, 2} /\ c = <<c[1], c[2]>>
  BY <1>t
<1>1. ASSUME NEW r \in Requests, RecordCall(r) PROVE Told(c)
  <2>1. /\ Persisted' = Persisted \cup {<<r, step[r]>>} /\ step' = step /\ at' = [at EXCEPT ![r] = "recorded"]
        /\ at[r] = "stamped"
    BY <1>1 DEF RecordCall, Persist, Call, rowVars, Persisted
  <2>2. c # <<r, step[r]>>
    <3>1. CASE c[1] = r /\ c[2] = step[r]
      BY <1>0, <1>t, <2>1, <3>1 DEF Told
    <3> QED BY <1>0, <3>1
  <2>3. c \in Persisted
    BY <2>1, <2>2 DEF Told
  <2>4. c[1] = r \/ at'[c[1]] = at[c[1]]
    BY <1>0, <1>t, <2>1
  <2> QED BY <1>0, <2>1, <2>3, <2>4 DEF Told
<1>2. ASSUME NEW r \in Requests, AnnounceEnd(r), c # Call(r) PROVE Told(c)
  <2>1. Persisted' = Persisted /\ step' = step /\ \A q \in Requests : q # r => at'[q] = at[q]
    BY <1>2, <1>t DEF AnnounceEnd, rowVars, Persisted
  <2>2. c[1] # r \/ c[2] # step[r]
    BY <1>0, <1>2 DEF Call
  <2> QED BY <1>0, <2>1, <2>2 DEF Told
<1>3. ASSUME NEW r \in Requests,
             Start(r) \/ Announce(r) \/ FinishCall(r) \/ NextStep(r) \/ Waits(r)
      PROVE  Told(c)
  <2>1. /\ Persisted' = Persisted
        /\ \A q \in Requests : at[q] = "recorded" => at'[q] = "recorded" /\ step'[q] = step[q]
    BY <1>3, <1>t DEF Start, Announce, FinishCall, NextStep, Waits, activityVars, rowVars, Persisted
  <2> QED BY <1>0, <2>1 DEF Told
<1>4. CASE (Watching /\ UNCHANGED callVars) \/ UNCHANGED <<at, step, activityVars>>
  <2>1. UNCHANGED <<Persisted, at, step>>
    BY <1>4 DEF Watching, Subscribe, ReadReplay, ReceiveReplay, ReceiveEvent, callVars, activityVars, rowVars, Persisted
  <2> QED BY <2>1 DEF Told
<1> QED BY <1>1, <1>2, <1>3, <1>4, StepKinds

(* ShownInv, of one call and of a state's queue, replay and view. *)
ShownAs(queue, replay, shown, c) ==
  /\ \A i \in DOMAIN queue : queue[i].call = c /\ queue[i].end = "running" =>
       \E k \in DOMAIN queue : k > i /\ queue[k].call = c /\ queue[k].end # "running"
  /\ IsShownRunning(replay, c) => HasEnd(queue, c)
  /\ IsShownRunning(shown, c) => HasEnd(replay, c) \/ HasEnd(queue, c)

LEMMA ShownByCall == ShownInv <=> \A c \in Calls : Told(c) => ShownAs(sub.queue, sub.replay, view, c)
BY DEF ShownInv, ShownAs

LEMMA ShownByCallNext ==
  ShownInv' <=> \A c \in Calls : Told(c)' => ShownAs(sub'.queue, sub'.replay, view', c)
BY DEF ShownInv, ShownAs, IsShownRunning, HasEnd

(* An end appended to the queue settles its call; what is appended about another call
   leaves this one settled. *)
LEMMA EndSettles ==
  ASSUME NEW queue \in Seq(Records), NEW replay, NEW shown, NEW rec \in Records, rec.end # "running"
  PROVE  ShownAs(Append(queue, rec), replay, shown, rec.call)
<1> DEFINE t == Append(queue, rec)
<1>1. /\ Len(queue) + 1 \in DOMAIN t /\ t[Len(queue) + 1] = rec
      /\ \A i \in DOMAIN t : i \in DOMAIN queue \/ i = Len(queue) + 1
      /\ \A i \in DOMAIN queue : i < Len(queue) + 1
  BY AppendIn
<1> HIDE DEF t
<1>2. HasEnd(t, rec.call)
  BY <1>1 DEF HasEnd
<1>3. ASSUME NEW i \in DOMAIN t, t[i].end = "running"
      PROVE  \E k \in DOMAIN t : k > i /\ t[k].call = rec.call /\ t[k].end # "running"
  <2>1. i \in DOMAIN queue
    BY <1>1, <1>3
  <2>2. Len(queue) + 1 > i
    BY <2>1
  <2> QED BY <1>1, <2>2
<1>4. ShownAs(t, replay, shown, rec.call)
  BY <1>2, <1>3 DEF ShownAs
<1> QED BY <1>4 DEF t

LEMMA OthersSettled ==
  ASSUME NEW queue \in Seq(Records), NEW replay, NEW shown, NEW rec \in Records, NEW c, c # rec.call,
         ShownAs(queue, replay, shown, c)
  PROVE  ShownAs(Append(queue, rec), replay, shown, c)
<1> DEFINE t == Append(queue, rec)
<1>1. /\ \A i \in DOMAIN queue : i \in DOMAIN t /\ t[i] = queue[i]
      /\ t[Len(queue) + 1] = rec
      /\ \A i \in DOMAIN t : i \in DOMAIN queue \/ i = Len(queue) + 1
  BY AppendIn
<1> HIDE DEF t
<1>2. HasEnd(queue, c) => HasEnd(t, c)
  BY <1>1 DEF HasEnd
<1>3. ASSUME NEW i \in DOMAIN t, t[i].call = c, t[i].end = "running"
      PROVE  \E k \in DOMAIN t : k > i /\ t[k].call = c /\ t[k].end # "running"
  <2>1. i \in DOMAIN queue /\ t[i] = queue[i]
    BY <1>1, <1>3
  <2>2. PICK k \in DOMAIN queue : k > i /\ queue[k].call = c /\ queue[k].end # "running"
    BY <1>3, <2>1 DEF ShownAs
  <2> QED BY <1>1, <2>2
<1>4. ShownAs(t, replay, shown, c)
  BY <1>2, <1>3 DEF ShownAs
<1> QED BY <1>4 DEF t

(* The first event of the replay is applied ... *)
LEMMA ReplaySettled ==
  ASSUME NEW queue \in Seq(Records), NEW replay \in Seq(Records), NEW shown \in Seq(Records),
         replay # <<>>, NEW c, ShownAs(queue, replay, shown, c)
  PROVE  ShownAs(queue, Tail(replay), Upsert(shown, Head(replay)), c)
<1> DEFINE rest == Tail(replay)
           rec == Head(replay)
           next == Upsert(shown, rec)
<1>1. /\ rec \in Records /\ rec = replay[1] /\ 1 \in DOMAIN replay
      /\ \A i \in DOMAIN rest : i + 1 \in DOMAIN replay /\ rest[i] = replay[i + 1]
      /\ \A i \in DOMAIN replay : i = 1 \/ (i - 1 \in DOMAIN rest /\ rest[i - 1] = replay[i])
  BY TailIn
<1>2. \A i \in DOMAIN next : next[i] = rec \/ \E k \in DOMAIN shown : next[i] = shown[k] /\ shown[k].call # rec.call
  BY <1>1, UpsertIn
<1> HIDE DEF rest, rec, next
<1>3. IsShownRunning(rest, c) => IsShownRunning(replay, c)
  BY <1>1 DEF IsShownRunning
<1>4. HasEnd(replay, c) => HasEnd(rest, c) \/ (rec.call = c /\ rec.end # "running")
  BY <1>1 DEF HasEnd
<1>5. IsShownRunning(next, c) =>
        \/ rec.call = c /\ rec.end = "running"
        \/ rec.call # c /\ IsShownRunning(shown, c)
  BY <1>2 DEF IsShownRunning
<1>6. rec.call = c /\ rec.end = "running" => IsShownRunning(replay, c)
  BY <1>1 DEF IsShownRunning
<1>7. ShownAs(queue, rest, next, c)
  BY <1>3, <1>4, <1>5, <1>6 DEF ShownAs
<1> QED BY <1>7 DEF rest, rec, next

(* ... and then the first of the queue. *)
LEMMA QueueSettled ==
  ASSUME NEW queue \in Seq(Records), NEW shown \in Seq(Records), queue # <<>>,
         NEW c, ShownAs(queue, <<>>, shown, c)
  PROVE  ShownAs(Tail(queue), <<>>, Upsert(shown, Head(queue)), c)
<1> DEFINE rest == Tail(queue)
           rec == Head(queue)
           next == Upsert(shown, rec)
<1>1. /\ rec \in Records /\ rec = queue[1] /\ 1 \in DOMAIN queue
      /\ \A i \in DOMAIN rest : i + 1 \in DOMAIN queue /\ rest[i] = queue[i + 1]
      /\ \A i \in DOMAIN queue : i = 1 \/ (i - 1 \in DOMAIN rest /\ rest[i - 1] = queue[i])
      /\ DOMAIN queue \subseteq Nat /\ DOMAIN rest \subseteq Nat
  BY TailIn
<1>2. \A i \in DOMAIN next : next[i] = rec \/ \E k \in DOMAIN shown : next[i] = shown[k] /\ shown[k].call # rec.call
  BY <1>1, UpsertIn
<1>s. /\ \A i \in DOMAIN queue : queue[i].call = c /\ queue[i].end = "running" =>
           \E k \in DOMAIN queue : k > i /\ queue[k].call = c /\ queue[k].end # "running"
      /\ IsShownRunning(shown, c) => HasEnd(queue, c)
      /\ ~HasEnd(<<>>, c) /\ ~IsShownRunning(<<>>, c)
  BY DEF ShownAs, HasEnd, IsShownRunning
<1> HIDE DEF rest, rec, next
<1>3. ASSUME NEW i \in DOMAIN rest, rest[i].call = c, rest[i].end = "running"
      PROVE  \E k \in DOMAIN rest : k > i /\ rest[k].call = c /\ rest[k].end # "running"
  <2>1. PICK k \in DOMAIN queue : k > i + 1 /\ queue[k].call = c /\ queue[k].end # "running"
    BY <1>1, <1>3, <1>s
  <2>2. k - 1 \in DOMAIN rest /\ rest[k - 1] = queue[k] /\ k - 1 > i
    BY <1>1, <2>1
  <2> QED BY <2>1, <2>2
<1>4. HasEnd(queue, c) => HasEnd(rest, c) \/ (rec.call = c /\ rec.end # "running")
  BY <1>1 DEF HasEnd
<1>5. IsShownRunning(next, c) =>
        \/ rec.call = c /\ rec.end = "running"
        \/ rec.call # c /\ IsShownRunning(shown, c)
  BY <1>2 DEF IsShownRunning
<1>6. ASSUME rec.call = c, rec.end = "running" PROVE HasEnd(rest, c)
  <2>1. PICK k \in DOMAIN queue : k > 1 /\ queue[k].call = c /\ queue[k].end # "running"
    BY <1>1, <1>6, <1>s
  <2>2. k - 1 \in DOMAIN rest /\ rest[k - 1] = queue[k]
    BY <1>1, <2>1
  <2> QED BY <2>1, <2>2 DEF HasEnd
<1>7. IsShownRunning(next, c) => HasEnd(rest, c)
  BY <1>4, <1>5, <1>6, <1>s
<1>8. ShownAs(rest, <<>>, next, c)
  BY <1>3, <1>7, <1>s DEF ShownAs
<1> QED BY <1>8 DEF rest, rec, next

LEMMA ShownStep == ASSUME MonitorInv, [Next]_vars PROVE ShownInv'
<1>t. /\ CallInv /\ CallTypeOK /\ StageInv /\ RingInv /\ QuietInv
      /\ sub.at \in {"away", "subscribed", "live"} /\ log \in Seq(Records) /\ view \in Seq(Records)
      /\ sub.replay \in Seq(Records) /\ sub.queue \in Seq(Records)
      /\ \A c \in Calls : Told(c) => ShownAs(sub.queue, sub.replay, view, c)
  BY ShownByCall DEF MonitorInv, CallInv, CallTypeOK
<1> SUFFICES ASSUME NEW c \in Calls, Told(c)'
             PROVE  ShownAs(sub'.queue, sub'.replay, view', c)
  BY ShownByCallNext
<1>1. ASSUME NEW r \in Requests, AnnounceEnd(r)
      PROVE  ShownAs(sub'.queue, sub'.replay, view', c)
  <2>1. /\ result[r] \in Ends /\ Publish(Call(r), result[r]) /\ view' = view /\ Call(r) \in Calls
    BY <1>1, <1>t, CallIsCall DEF AnnounceEnd, CallInv, RowInv
  <2>2. CASE sub.at = "away"
    <3>1. sub'.queue = <<>> /\ sub'.replay = <<>> /\ view' = <<>>
      BY <1>t, <2>1, <2>2, PublishFacts DEF QuietInv
    <3> QED BY <3>1 DEF ShownAs, IsShownRunning
  <2>3. CASE sub.at # "away"
    <3> DEFINE rec == Record(Call(r), result[r])
    <3>1. /\ rec \in Records /\ sub'.queue = Append(sub.queue, rec) /\ sub'.replay = sub.replay
          /\ rec.call = Call(r) /\ rec.end # "running"
      <4>1. rec.call = Call(r) /\ rec.end # "running"
        BY <2>1 DEF Record, Ends
      <4> QED BY <1>t, <2>1, <2>3, <4>1, PublishFacts
    <3> HIDE DEF rec
    <3>2. CASE c = Call(r)
      BY <1>t, <2>1, <3>1, <3>2, EndSettles
    <3>3. CASE c # Call(r)
      <4>1. Told(c) \/ \E q \in Requests : AnnounceEnd(q) /\ c = Call(q)
        BY <1>t, ToldStep
      <4>2. Told(c)
        <5>1. ASSUME NEW q \in Requests, AnnounceEnd(q) PROVE q = r
          <6>1. at[q] = "recorded" /\ at' = [at EXCEPT ![q] = After(q)] /\ After(q) # "recorded"
            BY <5>1 DEF AnnounceEnd, Go, After
          <6>2. at[r] = "recorded" /\ at' = [at EXCEPT ![r] = After(r)]
            BY <1>1 DEF AnnounceEnd, Go
          <6> QED BY <1>t, <6>1, <6>2 DEF CallTypeOK
        <5> QED BY <3>3, <4>1, <5>1
      <4> QED BY <1>t, <2>1, <3>1, <3>3, <4>2, OthersSettled
    <3> QED BY <3>2, <3>3
  <2> QED BY <2>2, <2>3
<1>2. CASE ~\E r \in Requests : AnnounceEnd(r)
  <2>0. Told(c) /\ ShownAs(sub.queue, sub.replay, view, c)
    BY <1>2, <1>t, ToldStep
  <2>1. ASSUME NEW r \in Requests, Announce(r)
        PROVE  ShownAs(sub'.queue, sub'.replay, view', c)
    <3>1. /\ at[r] = "pushed" /\ Publish(Call(r), "running") /\ view' = view /\ Call(r) \in Calls
      BY <2>1, <1>t, CallIsCall DEF Announce
    <3>2. c # Call(r)
      BY <2>0, <3>1, <1>t DEF StageInv, Told
    <3>3. CASE sub.at = "away"
      BY <1>t, <2>0, <3>1, <3>3, PublishFacts
    <3>4. CASE sub.at # "away"
      <4> DEFINE rec == Record(Call(r), "running")
      <4>1. /\ rec \in Records /\ sub'.queue = Append(sub.queue, rec) /\ sub'.replay = sub.replay
            /\ rec.call = Call(r)
        <5>1. rec.call = Call(r)
          BY DEF Record
        <5> QED BY <1>t, <3>1, <3>4, <5>1, PublishFacts
      <4> HIDE DEF rec
      <4> QED BY <1>t, <2>0, <3>1, <3>2, <4>1, OthersSettled
    <3> QED BY <3>3, <3>4
  <2>2. CASE Watching
    <3>1. CASE Subscribe
      <4>1. sub'.queue = sub.queue /\ sub'.replay = sub.replay /\ view' = view
        BY <1>t, <3>1 DEF Subscribe, CallTypeOK
      <4> QED BY <2>0, <4>1
    <3>2. CASE ReadReplay
      <4>1. sub'.queue = sub.queue /\ sub'.replay = log /\ view' = <<>>
        BY <1>t, <3>2 DEF ReadReplay, CallTypeOK, QuietInv
      <4>2. ~IsShownRunning(log, c)
        BY <1>t, <2>0 DEF RingInv, Told
      <4> QED BY <2>0, <4>1, <4>2 DEF ShownAs, IsShownRunning
    <3>3. CASE ReceiveReplay
      <4>1. /\ sub.replay # <<>> /\ sub'.queue = sub.queue /\ sub'.replay = Tail(sub.replay)
            /\ view' = Upsert(view, Head(sub.replay))
        BY <1>t, <3>3 DEF ReceiveReplay, CallTypeOK
      <4> QED BY <1>t, <2>0, <4>1, ReplaySettled
    <3>4. CASE ReceiveEvent
      <4>1. /\ sub.queue # <<>> /\ sub.replay = <<>> /\ sub'.replay = <<>>
            /\ sub'.queue = Tail(sub.queue) /\ view' = Upsert(view, Head(sub.queue))
        BY <1>t, <3>4 DEF ReceiveEvent, CallTypeOK
      <4> QED BY <1>t, <2>0, <4>1, QueueSettled
    <3> QED BY <2>2, <3>1, <3>2, <3>3, <3>4 DEF Watching
  <2>3. ASSUME NEW r \in Requests,
               Start(r) \/ FinishCall(r) \/ RecordCall(r) \/ NextStep(r) \/ Waits(r)
        PROVE  ShownAs(sub'.queue, sub'.replay, view', c)
    <3>1. UNCHANGED <<sub, view>>
      BY <2>3 DEF Start, FinishCall, RecordCall, NextStep, Waits, activityVars
    <3> QED BY <2>0, <3>1
  <2>4. CASE UNCHANGED <<at, step, activityVars>>
    BY <2>0, <2>4 DEF activityVars
  <2> QED BY <1>2, <2>1, <2>2, <2>3, <2>4, StepKinds
<1> QED BY <1>1, <1>2

LEMMA MonitorInitInv == Init => MonitorInv
<1> SUFFICES ASSUME Init PROVE MonitorInv
  OBVIOUS
<1> USE DEF Init, CallsInit, ActivityInit
<1>1. StageInv
  BY DEF StageInv, rowVars, Persisted
<1>2. RingInv /\ QuietInv /\ ShownInv
  BY DEF RingInv, QuietInv, ShownInv, Told, rowVars, Persisted
<1> QED BY <1>1, <1>2, InitInv DEF MonitorInv

THEOREM MonitorInvariantHolds == Spec => []MonitorInv
<1>1. MonitorInv /\ [Next]_vars => MonitorInv'
  BY StepInv, StageStep, RingStep, QuietStep, ShownStep DEF MonitorInv
<1> QED BY <1>1, MonitorInitInv, PTL DEF Spec

(* A monitor that has applied all it was sent shows no call as running that ended while
   the ring still had it, however the replay and the announcements overlap (events.rs,
   start, finish and replay; routes/events.rs, stream). *)
THEOREM EndsAreShown == Spec => []EndIsShown
<1>1. MonitorInv => EndIsShown
  <2> SUFFICES ASSUME MonitorInv, sub.replay = <<>>, sub.queue = <<>>, NEW i \in DOMAIN view,
                      Ended(view[i].call), view[i].call \in Persisted, view[i].end = "running"
               PROVE  FALSE
    BY DEF EndIsShown
  <2> DEFINE c == view[i].call
  <2>1. c \in Calls
    <3>1. view[i] \in Records
      BY DEF MonitorInv, CallInv, CallTypeOK
    <3> QED BY <3>1 DEF Records
  <2>2. Told(c)
    <3>1. c[1] \in Requests /\ c[2] \in {1, 2} /\ step \in [Requests -> {1, 2}]
      BY <2>1, OneShotAssumption DEF MonitorInv, CallInv, CallTypeOK, OneShotAssumption
    <3> QED BY <3>1 DEF Ended, Told
  <2>3. IsShownRunning(view, c)
    BY DEF IsShownRunning
  <2> QED BY <2>1, <2>2, <2>3 DEF MonitorInv, ShownInv, HasEnd
<1> QED BY <1>1, MonitorInvariantHolds, PTL

----------------------------------------------------------------------------
(* The index of Drive. *)

(* What the calls of walk still have to look at. *)
AheadIn(calls) == UNION {calls[k].dirs : k \in DOMAIN calls}
StubsAhead(calls) == UNION {calls[k].files : k \in DOMAIN calls}

(* The directories in seen were read: each of their subdirectories, and each mount, was read
   too or is ahead, and each of their documents is listed or ahead. *)
WalkedWith(seen, calls, listed) ==
  /\ \A d \in DOMAIN Dirs : Dirs[d] \in seen \cup {NoDir} => d \in seen \cup AheadIn(calls)
  /\ \A f \in tree : f.dir \in seen => f \in listed \cup StubsAhead(calls)

CallSet == [dirs : SUBSET DOMAIN Dirs, files : SUBSET tree]

DriveInv ==
  /\ tree \in SUBSET Documents /\ stack \in Seq(CallSet) /\ docs \in SUBSET tree
  /\ ~truncated /\ unread = {} => \E seen \in SUBSET DOMAIN Dirs : WalkedWith(seen, stack, docs)
  /\ truncated \in BOOLEAN
  /\ answer.is # "waiting" => stack = <<>> /\ answer = Resolved(docs, answer.title, truncated)

(* The innermost call of walk. *)
LEMMA TopFacts ==
  ASSUME NEW S, NEW calls \in Seq(S), calls # <<>>
  PROVE  /\ Len(calls) \in Nat \ {0} /\ DOMAIN calls = 1..Len(calls)
         /\ Last(calls) = calls[Len(calls)] /\ Last(calls) \in S
         /\ Front(calls) \in Seq(S) /\ Len(Front(calls)) = Len(calls) - 1
         /\ \A k \in 1..(Len(calls) - 1) : Front(calls)[k] = calls[k]
<1>1. Len(calls) \in Nat \ {0} /\ DOMAIN calls = 1..Len(calls)
  OBVIOUS
<1>2. Front(calls) = [k \in 1..(Len(calls) - 1) |-> calls[k]]
  BY <1>1 DEF Front
<1>3. Front(calls) \in Seq(S) /\ Len(Front(calls)) = Len(calls) - 1
  BY <1>1 DEF Front
<1>4. Last(calls) = calls[Len(calls)] /\ Last(calls) \in S
  BY <1>1 DEF Last
<1>5. \A k \in 1..(Len(calls) - 1) : Front(calls)[k] = calls[k]
  BY <1>2
<1>. QED  BY <1>1, <1>3, <1>4, <1>5

(* What is ahead of one call more. *)
LEMMA AheadOfMore ==
  ASSUME NEW calls \in Seq(CallSet), NEW call \in CallSet
  PROVE  /\ Append(calls, call) \in Seq(CallSet)
         /\ AheadIn(Append(calls, call)) = AheadIn(calls) \cup call.dirs
         /\ StubsAhead(Append(calls, call)) = StubsAhead(calls) \cup call.files
<1> DEFINE n == Len(calls)
           more == Append(calls, call)
<1>1. n \in Nat /\ DOMAIN calls = 1..n /\ more \in Seq(CallSet) /\ DOMAIN more = 1..(n + 1)
  OBVIOUS
<1>2. (\A k \in 1..n : more[k] = calls[k]) /\ more[n + 1] = call
  OBVIOUS
<1> HIDE DEF n, more
<1>3. 1..(n + 1) = 1..n \cup {n + 1}
  BY <1>1
<1>4. AheadIn(more) = AheadIn(calls) \cup call.dirs
  BY <1>1, <1>2, <1>3 DEF AheadIn
<1>5. StubsAhead(more) = StubsAhead(calls) \cup call.files
  BY <1>1, <1>2, <1>3 DEF StubsAhead
<1>. QED  BY <1>1, <1>4, <1>5 DEF more

(* What is ahead of the innermost call and of the others. *)
LEMMA AheadOfTop ==
  ASSUME NEW calls \in Seq(CallSet), calls # <<>>
  PROVE  /\ AheadIn(calls) = AheadIn(Front(calls)) \cup Last(calls).dirs
         /\ StubsAhead(calls) = StubsAhead(Front(calls)) \cup Last(calls).files
<1>1. Front(calls) \in Seq(CallSet) /\ Last(calls) \in CallSet
  BY TopFacts
<1>2. calls = Append(Front(calls), Last(calls))
  BY SMTT(30), TopFacts
<1>. QED  BY <1>1, <1>2, AheadOfMore

LEMMA DriveInitInv == DriveInit => DriveInv
<1> SUFFICES ASSUME DriveInit PROVE DriveInv
  OBVIOUS
<1> DEFINE first == [dirs |-> Subdirs(NoDir), files |-> {}]
<1>1. first \in CallSet /\ stack = <<first>> /\ tree \in SUBSET Documents
  BY DEF DriveInit, CallSet, Subdirs
<1>2. WalkedWith({}, stack, docs)
  BY <1>1 DEF WalkedWith, AheadIn, Subdirs
<1>3. answer.is = "waiting" /\ docs = {} /\ truncated \in BOOLEAN
  BY DEF DriveInit, Answer
<1> HIDE DEF first
<1>. QED  BY <1>1, <1>2, <1>3 DEF DriveInv

LEMMA WalkEntryInv == ASSUME DriveInv, WalkEntry PROVE DriveInv'
<1>1. PICK d \in Last(stack).dirs : Walk(d)
  BY DEF WalkEntry
<1> DEFINE top == [Last(stack) EXCEPT !.dirs = @ \ {d}]
           caller == Append(Front(stack), top)
           callee == Frame(d)
<1>2. /\ stack # <<>> /\ stack \in Seq(CallSet) /\ UNCHANGED <<tree, unread, docs, answer>>
      /\ tree \in SUBSET Documents /\ docs \in SUBSET tree /\ answer.is = "waiting"
  BY DEF DriveInv, WalkEntry
<1>3. Last(stack) \in CallSet /\ d \in DOMAIN Dirs
  BY <1>1, <1>2, TopFacts DEF CallSet
<1>4. top \in CallSet /\ top.dirs = Last(stack).dirs \ {d} /\ top.files = Last(stack).files
  BY <1>3 DEF CallSet
<1>5. callee \in CallSet /\ callee.dirs = Subdirs(d) /\ callee.files = {f \in tree : f.dir = d}
  BY DEF CallSet, Frame, Subdirs
<1> HIDE DEF top, callee, caller
<1>6. stack' = IF Depth > MaxDepth \/ Full \/ d \in unread THEN caller ELSE Append(caller, callee)
  BY <1>1 DEF Walk, TopWith, top, callee, caller
<1>7. /\ Front(stack) \in Seq(CallSet) /\ caller \in Seq(CallSet) /\ stack' \in Seq(CallSet)
      /\ AheadIn(caller) = AheadIn(Front(stack)) \cup (Last(stack).dirs \ {d})
      /\ StubsAhead(caller) = StubsAhead(Front(stack)) \cup Last(stack).files
  <2>1. Front(stack) \in Seq(CallSet)
    BY <1>2, TopFacts
  <2>2. /\ caller \in Seq(CallSet)
        /\ AheadIn(caller) = AheadIn(Front(stack)) \cup (Last(stack).dirs \ {d})
        /\ StubsAhead(caller) = StubsAhead(Front(stack)) \cup Last(stack).files
    BY <1>4, <2>1, AheadOfMore DEF caller
  <2>. QED  BY <1>5, <1>6, <2>1, <2>2
<1>8. ASSUME ~truncated', unread = {}
      PROVE  \E seen \in SUBSET DOMAIN Dirs : WalkedWith(seen, stack', docs)
  <2>1. ~truncated /\ stack' = Append(caller, callee)
    BY <1>1, <1>6, <1>8 DEF Walk
  <2>2. PICK seen \in SUBSET DOMAIN Dirs : WalkedWith(seen, stack, docs)
    BY <1>8, <2>1 DEF DriveInv
  <2> DEFINE now == seen \cup {d}
  <2>3. /\ AheadIn(stack') = AheadIn(Front(stack)) \cup (Last(stack).dirs \ {d}) \cup Subdirs(d)
        /\ AheadIn(stack) = AheadIn(Front(stack)) \cup Last(stack).dirs
        /\ StubsAhead(stack') = StubsAhead(stack) \cup {f \in tree : f.dir = d}
    BY <1>2, <1>5, <1>7, <2>1, AheadOfMore, AheadOfTop
  <2>4. \A e \in DOMAIN Dirs : Dirs[e] \in now \cup {NoDir} => e \in now \cup AheadIn(stack')
    BY <2>2, <2>3 DEF WalkedWith, Subdirs
  <2>5. \A f \in tree : f.dir \in now => f \in docs \cup StubsAhead(stack')
    BY <2>2, <2>3 DEF WalkedWith
  <2>. QED  BY <1>3, <2>4, <2>5 DEF WalkedWith
<1>9. truncated' \in BOOLEAN
  BY <1>1 DEF Walk
<1>. QED  BY <1>2, <1>7, <1>8, <1>9 DEF DriveInv, WalkedWith, CallSet

LEMMA ReadStubInv == ASSUME DriveInv, ReadStub PROVE DriveInv'
<1>1. PICK f \in Last(stack).files :
        IF Full
        THEN truncated' = TRUE /\ stack' = Front(stack) /\ UNCHANGED docs
        ELSE /\ docs' = docs \cup {f}
             /\ stack' = TopWith([Last(stack) EXCEPT !.files = @ \ {f}])
             /\ UNCHANGED truncated
  BY DEF ReadStub
<1> DEFINE top == [Last(stack) EXCEPT !.files = @ \ {f}]
<1>2. /\ stack # <<>> /\ stack \in Seq(CallSet) /\ UNCHANGED <<tree, unread, answer>>
      /\ tree \in SUBSET Documents /\ docs \in SUBSET tree /\ answer.is = "waiting"
  BY DEF DriveInv, ReadStub
<1>3. Last(stack) \in CallSet /\ Front(stack) \in Seq(CallSet) /\ f \in tree
  <2>1. Last(stack) \in CallSet /\ Front(stack) \in Seq(CallSet)
    BY <1>2, TopFacts
  <2>. QED  BY <1>1, <2>1 DEF CallSet
<1>4. top \in CallSet /\ top.files = Last(stack).files \ {f} /\ top.dirs = Last(stack).dirs
  BY <1>3 DEF CallSet
<1> HIDE DEF top
<1>5. CASE Full
  BY <1>1, <1>2, <1>3, <1>5 DEF DriveInv, CallSet
<1>6. CASE ~Full
  <2>1. stack' = Append(Front(stack), top) /\ docs' = docs \cup {f} /\ truncated' = truncated
    BY <1>1, <1>6 DEF TopWith, top
  <2>2. stack' \in Seq(CallSet)
    BY <1>3, <1>4, <2>1, AheadOfMore
  <2>3. /\ AheadIn(stack') = AheadIn(stack)
        /\ StubsAhead(stack) \subseteq StubsAhead(stack') \cup {f}
    <3>1. /\ AheadIn(stack') = AheadIn(Front(stack)) \cup Last(stack).dirs
          /\ StubsAhead(stack') = StubsAhead(Front(stack)) \cup (Last(stack).files \ {f})
      BY <1>3, <1>4, <2>1, AheadOfMore
    <3>2. /\ AheadIn(stack) = AheadIn(Front(stack)) \cup Last(stack).dirs
          /\ StubsAhead(stack) = StubsAhead(Front(stack)) \cup Last(stack).files
      BY <1>2, AheadOfTop
    <3>. QED  BY <3>1, <3>2
  <2>4. \A seen : WalkedWith(seen, stack, docs) => WalkedWith(seen, stack', docs')
    BY <2>1, <2>3 DEF WalkedWith
  <2>. QED  BY <1>2, <1>3, <2>1, <2>2, <2>4 DEF DriveInv, WalkedWith, CallSet
<1>. QED  BY <1>5, <1>6

LEMMA WalkReturnsInv == ASSUME DriveInv, WalkReturns PROVE DriveInv'
<1>1. /\ stack # <<>> /\ stack \in Seq(CallSet) /\ UNCHANGED <<tree, unread, docs, truncated, answer>>
      /\ Last(stack).dirs = {} /\ Last(stack).files = {} /\ stack' = Front(stack)
      /\ answer.is = "waiting"
  BY DEF DriveInv, WalkReturns
<1>2. Last(stack) \in CallSet /\ stack' \in Seq(CallSet)
  BY <1>1, TopFacts
<1>3. AheadIn(stack') = AheadIn(stack) /\ StubsAhead(stack') = StubsAhead(stack)
  BY <1>1, AheadOfTop
<1>. QED  BY <1>1, <1>2, <1>3 DEF DriveInv, WalkedWith, CallSet

LEMMA ResolvedTitle == \A ds, title, cut : Resolved(ds, title, cut).title = title
  BY DEF Resolved, Answer

LEMMA NoneWarns ==
  \A ds, title, cut : Resolved(ds, title, cut).is = "none" => Resolved(ds, title, cut).warns = cut
  BY DEF Resolved, Answer

LEMMA DriveNextInv == DriveInv /\ [DriveNext]_driveVars => DriveInv'
<1> SUFFICES ASSUME DriveInv, [DriveNext]_driveVars PROVE DriveInv'
  OBVIOUS
<1>1. CASE WalkEntry
  BY <1>1, WalkEntryInv
<1>2. CASE ReadStub
  BY <1>2, ReadStubInv
<1>3. CASE WalkReturns
  BY <1>3, WalkReturnsInv
<1>4. ASSUME NEW title \in Words, ResolveTitle(title) PROVE DriveInv'
  BY <1>4, ResolvedTitle DEF DriveInv, ResolveTitle, WalkedWith, CallSet
<1>5. CASE UNCHANGED driveVars
  BY <1>5 DEF DriveInv, driveVars, WalkedWith, CallSet
<1>. QED  BY <1>1, <1>2, <1>3, <1>4, <1>5 DEF DriveNext

(* With nothing ahead, the directories that were read have the mounts and all that is in them:
   they are all there are, and every document is listed. *)
LEMMA WholeTreeListed == DriveInv => AnswerIsForTheWholeTree
<1> SUFFICES ASSUME DriveInv, answer.is # "waiting", unread = {},
                    ~truncated \/ (answer.is = "none" /\ ~answer.warns)
             PROVE  answer = Resolved(tree, answer.title, FALSE)
  BY DEF AnswerIsForTheWholeTree
<1>0. truncated = FALSE
  <2>1. truncated \in BOOLEAN /\ answer = Resolved(docs, answer.title, truncated)
    BY DEF DriveInv
  <2>2. answer.is = "none" => answer.warns = truncated
    BY <2>1, NoneWarns
  <2>. QED  BY <2>1, <2>2
<1>1. stack = <<>> /\ answer = Resolved(docs, answer.title, FALSE) /\ docs \in SUBSET tree
  BY <1>0 DEF DriveInv
<1>2. PICK seen \in SUBSET DOMAIN Dirs : WalkedWith(seen, stack, docs)
  BY <1>0 DEF DriveInv
<1>3. AheadIn(stack) = {} /\ StubsAhead(stack) = {}
  BY <1>1 DEF AheadIn, StubsAhead
<1>4. seen = DOMAIN Dirs
  BY <1>2, <1>3, TreeAssumption DEF WalkedWith
<1>5. \A f \in tree : f \in docs
  BY <1>2, <1>3, <1>4, TreeAssumption DEF WalkedWith, DriveInv
<1>6. docs = tree
  BY <1>1, <1>5
<1>. QED  BY <1>1, <1>6

(* The inductive invariant of the walk, for any tree of directories and documents and any caps. *)
THEOREM DriveInvariantHolds == DriveSpec => []DriveInv
  BY DriveInitInv, DriveNextInv, PTL DEF DriveSpec

(* If every directory could be read, a title is resolved as if the whole tree had been looked
   at at once when no cap cut the listing short, and when nothing was found and the answer
   says nothing of a cap (drive.rs, resolve_title). *)
THEOREM AnswersAreForTheWholeTree == DriveSpec => []AnswerIsForTheWholeTree
  BY DriveInvariantHolds, WholeTreeListed, PTL

----------------------------------------------------------------------------
(* The renderer: tags. *)

ElementSet == Elements \cup {"fence", "image"}

(* The name of an element's tag, in the head of a table or not. *)
NameOf(element, head) ==
  IF element = "cell" THEN IF head THEN "th" ELSE "td" ELSE
    CASE element = "quote" -> "blockquote"
      [] element = "list" -> "ul"
      [] element = "item" -> "li"
      [] element \in {"head", "row"} -> "tr"
      [] OTHER -> element
Names == {NameOf(element, head) : element \in ElementSet, head \in BOOLEAN}

ItemSet ==
  [kind : ContentKinds \cup {"placeholder"}, at : Nat]
    \cup [kind : {"open", "close"}, at : {0}, name : Names]

(* A nonempty set of numbers has a least one. *)
LEMMA LeastOfNumbers ==
  ASSUME NEW T \in SUBSET Nat, T # {}
  PROVE  \E x \in T : \A y \in T : x <= y
<1>1. PICK x \in T : \A y \in T : ~(<<y, x>> \in OpToRel(<, Nat))
  BY NatLessThanWellFounded, WFMin
<1>2. \A y \in T : ~(y < x)
  BY <1>1 DEF OpToRel
<1>. QED  BY <1>2

(* The tags that are open after each of some items. *)
TagsAfter(t, items) ==
  /\ t = [k \in 0..Len(items) |-> t[k]]
  /\ t[0] = <<>>
  /\ \A k \in 1..Len(items) : t[k] = AfterItem(t[k - 1], items[k])

(* OpenTags is a fold over the items, and what it is after the last is what the tags come to. *)
LEMMA OpenTagsFold ==
  ASSUME NEW items \in Seq(ItemSet), NEW t, TagsAfter(t, items)
  PROVE  OpenTags(items) = t[Len(items)]
<1> DEFINE n == Len(items)
           Fold(g) == g = [k \in 0..n |-> IF k = 0 THEN <<>> ELSE AfterItem(g[k - 1], items[k])]
           f == CHOOSE g : Fold(g)
<1>1. n \in Nat
  OBVIOUS
<1>2. \A k \in 0..n : t[k] = IF k = 0 THEN <<>> ELSE AfterItem(t[k - 1], items[k])
  BY <1>1 DEF TagsAfter
<1>3. Fold(t)
  BY <1>2 DEF TagsAfter
<1>4. Fold(f)
  BY <1>3
<1>6. OpenTags(items) = f[n]
  BY DEF OpenTags
<1> HIDE DEF f
<1>5. \A k \in 0..n : f[k] = IF k = 0 THEN <<>> ELSE AfterItem(f[k - 1], items[k])
  BY <1>4
<1> HIDE DEF Fold
<1>7. \A k \in 0..n : f[k] = t[k]
  <2> DEFINE bad == {k \in 0..n : f[k] # t[k]}
  <2> SUFFICES ASSUME bad # {} PROVE FALSE
    OBVIOUS
  <2>0. bad \in SUBSET Nat
    BY <1>1
  <2>1. PICK x \in bad : \A y \in bad : x <= y
    <3> HIDE DEF bad
    <3>. QED  BY <2>0, LeastOfNumbers
  <2>2. x \in 1..n /\ x - 1 \in 0..n /\ x - 1 \notin bad
    BY <1>1, <1>5, <2>1 DEF TagsAfter
  <2>3. f[x - 1] = t[x - 1]
    BY <2>2
  <2>. QED  BY <1>5, <2>1, <2>2, <2>3 DEF TagsAfter
<1>. QED  BY <1>1, <1>6, <1>7

(* One item more. *)
LEMMA TagsOneMore ==
  ASSUME NEW items \in Seq(ItemSet), NEW item \in ItemSet, NEW t, TagsAfter(t, items)
  PROVE  \E u : TagsAfter(u, Append(items, item))
                /\ u[Len(Append(items, item))] = AfterItem(t[Len(items)], item)
<1> DEFINE n == Len(items)
           more == Append(items, item)
           u == [k \in 0..(n + 1) |-> IF k <= n THEN t[k] ELSE AfterItem(t[n], item)]
<1>1. n \in Nat /\ Len(more) = n + 1 /\ (\A k \in 1..n : more[k] = items[k]) /\ more[n + 1] = item
  OBVIOUS
<1> HIDE DEF more, n
<1>2. u = [k \in 0..Len(more) |-> u[k]] /\ u[0] = <<>>
  BY <1>1 DEF TagsAfter
<1>3. \A k \in 1..n : u[k] = t[k] /\ u[k - 1] = t[k - 1]
  BY <1>1
<1>4. u[n + 1] = AfterItem(t[n], item) /\ u[n] = t[n]
  BY <1>1
<1>5. \A k \in 1..(n + 1) : u[k] = AfterItem(u[k - 1], more[k])
  <2> TAKE k \in 1..(n + 1)
  <2>1. CASE k \in 1..n
    <3>1. t[k] = AfterItem(t[k - 1], items[k])
      BY <2>1 DEF TagsAfter, n
    <3>. QED  BY <1>1, <1>3, <2>1, <3>1
  <2>2. CASE k = n + 1
    <3>1. k - 1 = n
      BY <1>1, <2>2
    <3>. QED  BY <1>1, <1>4, <2>2, <3>1
  <2>. QED  BY <1>1, <2>1, <2>2
<1> HIDE DEF u
<1>6. TagsAfter(u, more) /\ u[Len(more)] = AfterItem(t[n], item)
  BY <1>1, <1>2, <1>4, <1>5 DEF TagsAfter
<1>. QED  BY <1>6 DEF more, n

(* Contents that take the place of others change no tags. *)
LEMMA TagsOfReplaced ==
  ASSUME NEW items \in Seq(ItemSet), NEW others \in Seq(ItemSet), Len(others) = Len(items),
         \A k \in DOMAIN items : others[k] = items[k] \/ (IsContent(items[k]) /\ IsContent(others[k])),
         NEW t, TagsAfter(t, items)
  PROVE  TagsAfter(t, others)
<1>1. \A k \in 1..Len(items) : \A tags : AfterItem(tags, others[k]) = AfterItem(tags, items[k])
  <2> TAKE k \in 1..Len(items)
  <2>1. CASE others[k] = items[k]
    BY <2>1
  <2>2. CASE IsContent(items[k]) /\ IsContent(others[k])
    BY <2>2 DEF IsContent, AfterItem
  <2>. QED  BY <2>1, <2>2
<1>. QED  BY <1>1 DEF TagsAfter

NamesOf(elements, head) == [k \in DOMAIN elements |-> NameOf(elements[k], head)]

LEMMA TagNames ==
  ASSUME NEW element \in ElementSet, inHead \in BOOLEAN
  PROVE  /\ HtmlTag(element) = NameOf(element, inHead)
         /\ Tag("open", HtmlTag(element)) \in ItemSet /\ Tag("close", HtmlTag(element)) \in ItemSet
<1>1. HtmlTag(element) = NameOf(element, inHead)
  BY DEF HtmlTag, NameOf
<1>2. NameOf(element, inHead) \in Names
  BY DEF Names
<1>. QED  BY <1>1, <1>2 DEF Tag, ItemSet

(* Elements nest: what is in what. *)
Nested(elements) ==
  \A i, k \in DOMAIN elements : i < k =>
    /\ elements[i] \notin {"image", "fence"}
    /\ elements[i] = "cell" => elements[k] \in {"em", "image"}
    /\ elements[i] = "head" => elements[k] \in {"cell", "em", "image"}

HasHead(elements) == \E k \in DOMAIN elements : elements[k] = "head"
InnermostOf(elements) == IF elements = <<>> THEN "document" ELSE Last(elements)
HtmlOf(elements) == IF InnermostOf(elements) \in {"image", "fence"} THEN Front(elements) ELSE elements

(* The HTML has the tags open of the elements that are. *)
TagsFit(items, elements, head) ==
  \E t : TagsAfter(t, items) /\ t[Len(items)] = NamesOf(HtmlOf(elements), head)

LEMMA EndFacts ==
  ASSUME NEW S, NEW s \in Seq(S), s # <<>>
  PROVE  /\ Len(s) \in Nat \ {0} /\ Last(s) = s[Len(s)] /\ Last(s) \in S
         /\ Front(s) \in Seq(S) /\ Len(Front(s)) = Len(s) - 1
         /\ DOMAIN Front(s) = 1..(Len(s) - 1) /\ DOMAIN s = 1..Len(s)
         /\ \A k \in 1..(Len(s) - 1) : Front(s)[k] = s[k]
<1>1. Len(s) \in Nat \ {0} /\ DOMAIN s = 1..Len(s)
  OBVIOUS
<1>2. Front(s) = [k \in 1..(Len(s) - 1) |-> s[k]]
  BY <1>1 DEF Front
<1>3. Front(s) \in Seq(S) /\ Len(Front(s)) = Len(s) - 1
  BY <1>1 DEF Front
<1>4. Last(s) = s[Len(s)] /\ Last(s) \in S
  BY <1>1 DEF Last
<1>5. \A k \in 1..(Len(s) - 1) : Front(s)[k] = s[k]
  BY <1>2
<1>6. DOMAIN Front(s) = 1..(Len(s) - 1)
  BY <1>2
<1>. QED  BY <1>1, <1>3, <1>4, <1>5, <1>6

LEMMA MoreFacts ==
  ASSUME NEW S, NEW s \in Seq(S), NEW x \in S
  PROVE  /\ Append(s, x) \in Seq(S) /\ Len(Append(s, x)) = Len(s) + 1 /\ Len(s) \in Nat
         /\ DOMAIN Append(s, x) = 1..(Len(s) + 1) /\ DOMAIN s = 1..Len(s)
         /\ \A k \in 1..Len(s) : Append(s, x)[k] = s[k]
         /\ Append(s, x)[Len(s) + 1] = x
         /\ Append(s, x) # <<>> /\ Last(Append(s, x)) = x /\ Front(Append(s, x)) = s
<1>1. /\ Append(s, x) \in Seq(S) /\ Len(Append(s, x)) = Len(s) + 1 /\ Len(s) \in Nat
      /\ DOMAIN Append(s, x) = 1..(Len(s) + 1) /\ DOMAIN s = 1..Len(s)
      /\ \A k \in 1..Len(s) : Append(s, x)[k] = s[k]
      /\ Append(s, x)[Len(s) + 1] = x
      /\ Append(s, x) # <<>>
  OBVIOUS
<1> DEFINE more == Append(s, x)
<1> HIDE DEF more
<1>2. Last(more) = x
  BY <1>1 DEF Last, more
<1>3. Front(more) = s
  <2>1. more \in Seq(S) /\ more # <<>>
    BY <1>1 DEF more
  <2>2. /\ Front(more) \in Seq(S) /\ Len(Front(more)) = Len(s)
        /\ \A k \in 1..Len(s) : Front(more)[k] = s[k]
    <3>1. Len(more) = Len(s) + 1 /\ \A k \in 1..Len(s) : more[k] = s[k]
      BY <1>1 DEF more
    <3>. QED  BY <1>1, <2>1, <3>1, EndFacts
  <2>. QED  BY <2>2
<1>. QED  BY <1>1, <1>2, <1>3 DEF more

(* What the parser may open keeps the elements nested; a head is opened in no head and with no
   cell open. *)
LEMMA OpenKeepsNested ==
  ASSUME NEW elements \in Seq(ElementSet), Nested(elements),
         NEW element \in ElementSet, element \in Inside(InnermostOf(elements))
  PROVE  /\ Append(elements, element) \in Seq(ElementSet)
         /\ Nested(Append(elements, element))
         /\ HtmlOf(elements) = elements
         /\ HasHead(Append(elements, element)) <=> HasHead(elements) \/ element = "head"
         /\ element = "head" => \A k \in DOMAIN elements : elements[k] # "cell"
<1> DEFINE n == Len(elements)
           more == Append(elements, element)
<1>1. /\ more \in Seq(ElementSet) /\ n \in Nat /\ DOMAIN more = 1..(n + 1) /\ DOMAIN elements = 1..n
      /\ \A k \in 1..n : more[k] = elements[k]
      /\ more[n + 1] = element
  BY MoreFacts
<1> HIDE DEF more, n
<1>2. InnermostOf(elements) \notin {"image", "fence"}
  BY DEF Inside
<1>3. HtmlOf(elements) = elements
  BY <1>2 DEF HtmlOf
<1>4. ASSUME NEW i \in 1..n
      PROVE  /\ elements[i] \notin {"image", "fence"}
             /\ elements[i] = "cell" => element \in {"em", "image"}
             /\ elements[i] = "head" => element \in {"cell", "em", "image"}
  <2>1. elements # <<>> /\ elements[n] = InnermostOf(elements) /\ n \in 1..n
    <3>1. elements # <<>>
      BY <1>1, <1>4
    <3>2. Last(elements) = elements[n]
      BY <3>1, EndFacts DEF n
    <3>. QED  BY <1>1, <1>4, <3>1, <3>2 DEF InnermostOf
  <2>2. CASE i = n
    BY <1>2, <2>1, <2>2 DEF Inside
  <2>3. CASE i # n
    <3>1. /\ elements[i] \notin {"image", "fence"}
          /\ elements[i] = "cell" => elements[n] \in {"em", "image"}
          /\ elements[i] = "head" => elements[n] \in {"cell", "em", "image"}
      BY <1>1, <1>4, <2>1, <2>3 DEF Nested
    <3>. QED  BY <1>2, <2>1, <3>1 DEF Inside
  <2>. QED  BY <2>2, <2>3
<1>5. Nested(more)
  <2> SUFFICES ASSUME NEW i \in 1..(n + 1), NEW k \in 1..(n + 1), i < k
               PROVE  /\ more[i] \notin {"image", "fence"}
                      /\ more[i] = "cell" => more[k] \in {"em", "image"}
                      /\ more[i] = "head" => more[k] \in {"cell", "em", "image"}
    BY <1>1 DEF Nested
  <2>1. i \in 1..n /\ more[i] = elements[i]
    BY <1>1
  <2>2. CASE k = n + 1
    BY <1>1, <1>4, <2>1, <2>2
  <2>3. CASE k # n + 1
    <3>1. k \in 1..n /\ more[k] = elements[k]
      BY <1>1, <2>3
    <3>. QED  BY <1>1, <2>1, <3>1 DEF Nested
  <2>. QED  BY <2>2, <2>3
<1>6. HasHead(more) <=> HasHead(elements) \/ element = "head"
  BY <1>1 DEF HasHead
<1>7. element = "head" => \A k \in DOMAIN elements : elements[k] # "cell"
  BY <1>1, <1>4
<1>. QED  BY <1>1, <1>3, <1>5, <1>6, <1>7 DEF more

(* When the innermost element ends, the others are in HTML as they were. *)
LEMMA CloseKeepsNested ==
  ASSUME NEW elements \in Seq(ElementSet), Nested(elements), elements # <<>>
  PROVE  /\ Front(elements) \in Seq(ElementSet)
         /\ Nested(Front(elements))
         /\ HtmlOf(Front(elements)) = Front(elements)
         /\ Last(elements) = "head" => /\ ~HasHead(Front(elements))
                                       /\ \A k \in DOMAIN Front(elements) : elements[k] # "cell"
         /\ Last(elements) # "head" => (HasHead(Front(elements)) <=> HasHead(elements))
<1> DEFINE n == Len(elements)
           front == Front(elements)
<1>1. /\ n \in Nat \ {0} /\ Last(elements) = elements[n] /\ DOMAIN elements = 1..n
      /\ front \in Seq(ElementSet) /\ Len(front) = n - 1 /\ DOMAIN front = 1..(n - 1)
      /\ \A k \in 1..(n - 1) : front[k] = elements[k]
  BY EndFacts
<1> HIDE DEF n, front
<1>2. \A k \in 1..(n - 1) :
        /\ elements[k] \notin {"image", "fence"}
        /\ elements[k] = "cell" => elements[n] \in {"em", "image"}
        /\ elements[k] = "head" => elements[n] \in {"cell", "em", "image"}
  BY <1>1 DEF Nested
<1>3. Nested(front)
  BY <1>1 DEF Nested
<1>4. InnermostOf(front) \notin {"image", "fence"}
  <2>1. CASE front = <<>>
    BY <2>1 DEF InnermostOf
  <2>2. CASE front # <<>>
    <3>1. Last(front) = front[n - 1] /\ n - 1 \in 1..(n - 1)
      <4>1. front \in Seq(ElementSet) /\ Len(front) = n - 1
        BY <1>1
      <4>2. Last(front) = front[Len(front)] /\ Len(front) \in Nat \ {0}
        BY <2>2, <4>1, EndFacts
      <4>. QED  BY <1>1, <4>1, <4>2
    <3>. QED  BY <1>1, <1>2, <2>2, <3>1 DEF InnermostOf
  <2>. QED  BY <2>1, <2>2
<1>5. Last(elements) = "head" => ~HasHead(front) /\ \A k \in DOMAIN front : elements[k] # "cell"
  BY <1>1, <1>2 DEF HasHead
<1>6. Last(elements) # "head" => (HasHead(front) <=> HasHead(elements))
  <2>1. \A k \in 1..n : k \in 1..(n - 1) \/ k = n
    BY <1>1
  <2>2. \A k \in 1..(n - 1) : k \in 1..n
    BY <1>1
  <2>. QED  BY <1>1, <2>1, <2>2 DEF HasHead
<1>. QED  BY <1>1, <1>3, <1>4, <1>5, <1>6 DEF front, HtmlOf

(* An element's tag is opened and closed with the name that the elements around it leave it. *)
LEMMA OpenTagFits ==
  ASSUME NEW elements \in Seq(ElementSet), Nested(elements), NEW head \in BOOLEAN,
         NEW items \in Seq(ItemSet), TagsFit(items, elements, head),
         NEW element \in Elements, element \in Inside(InnermostOf(elements)),
         NEW item \in ItemSet, item.kind = "open", item.name = NameOf(element, head)
  PROVE  TagsFit(Append(items, item), Append(elements, element), head \/ element = "head")
<1> DEFINE n == Len(elements)
           more == Append(elements, element)
           now == head \/ element = "head"
<1>1. PICK t : TagsAfter(t, items) /\ t[Len(items)] = NamesOf(HtmlOf(elements), head)
  BY DEF TagsFit
<1>2. /\ HtmlOf(elements) = elements /\ element \in ElementSet
      /\ element = "head" => \A k \in DOMAIN elements : elements[k] # "cell"
  BY OpenKeepsNested DEF ElementSet
<1>3. PICK u : TagsAfter(u, Append(items, item))
               /\ u[Len(Append(items, item))] = AfterItem(t[Len(items)], item)
  BY <1>1, TagsOneMore
<1>4. AfterItem(t[Len(items)], item) = Append(NamesOf(elements, head), NameOf(element, head))
  BY <1>1, <1>2 DEF AfterItem
<1>5. HtmlOf(more) = more
  BY <1>2, MoreFacts DEF HtmlOf, InnermostOf, Elements
<1>6. Append(NamesOf(elements, head), NameOf(element, head)) = NamesOf(more, now)
  <2>1. /\ n \in Nat /\ DOMAIN elements = 1..n /\ DOMAIN more = 1..(n + 1)
        /\ \A k \in 1..n : more[k] = elements[k]
        /\ more[n + 1] = element
    BY <1>2, MoreFacts
  <2> DEFINE before == NamesOf(elements, head)
             name == NameOf(element, head)
  <2>2. before = [k \in 1..n |-> NameOf(elements[k], head)] /\ before \in Seq({NameOf(elements[k], head) : k \in 1..n} \cup {name})
    BY <2>1 DEF NamesOf
  <2>3. Len(before) = n
    BY <2>1, <2>2
  <2> HIDE DEF before, name, n, more
  <2>4. Append(before, name) = [k \in 1..(n + 1) |-> IF k = n + 1 THEN name ELSE before[k]]
    BY <2>1, <2>2, <2>3
  <2>5. \A k \in 1..n : NameOf(elements[k], head) = NameOf(elements[k], now)
    <3>1. CASE element = "head"
      BY <1>2, <2>1, <3>1 DEF NameOf
    <3>2. CASE element # "head"
      BY <3>2
    <3>. QED  BY <3>1, <3>2
  <2>6. name = NameOf(element, now)
    BY DEF NameOf, name
  <2>7. \A k \in 1..(n + 1) : (IF k = n + 1 THEN name ELSE before[k]) = NameOf(more[k], now)
    <3> TAKE k \in 1..(n + 1)
    <3>1. CASE k = n + 1
      BY <2>1, <2>6, <3>1
    <3>2. CASE k # n + 1
      <4>1. k \in 1..n
        BY <2>1, <3>2
      <4>. QED  BY <2>1, <2>2, <2>5, <3>2, <4>1
    <3>. QED  BY <3>1, <3>2
  <2>8. NamesOf(more, now) = [k \in 1..(n + 1) |-> NameOf(more[k], now)]
    BY <2>1 DEF NamesOf
  <2>9. Append(before, name) = NamesOf(more, now)
    BY <2>4, <2>7, <2>8
  <2>. QED  BY <2>9 DEF before, name
<1>. QED  BY <1>3, <1>4, <1>5, <1>6 DEF TagsFit

LEMMA CloseTagFits ==
  ASSUME NEW elements \in Seq(ElementSet), Nested(elements), elements # <<>>,
         NEW head \in BOOLEAN, NEW items \in Seq(ItemSet), TagsFit(items, elements, head),
         Last(elements) \in Elements,
         NEW item \in ItemSet, item.kind = "close", item.name = NameOf(Last(elements), head)
  PROVE  TagsFit(Append(items, item), Front(elements), head /\ Last(elements) # "head")
<1> DEFINE n == Len(elements)
           front == Front(elements)
           now == head /\ Last(elements) # "head"
           tags == NamesOf(elements, head)
<1>1. PICK t : TagsAfter(t, items) /\ t[Len(items)] = NamesOf(HtmlOf(elements), head)
  BY DEF TagsFit
<1>2. HtmlOf(elements) = elements
  BY DEF HtmlOf, InnermostOf, Elements
<1>3. PICK u : TagsAfter(u, Append(items, item))
               /\ u[Len(Append(items, item))] = AfterItem(t[Len(items)], item)
  BY <1>1, TagsOneMore
<1>4. /\ n \in Nat \ {0} /\ Last(elements) = elements[n] /\ DOMAIN elements = 1..n
      /\ DOMAIN front = 1..(n - 1)
      /\ \A k \in 1..(n - 1) : front[k] = elements[k]
  BY EndFacts
<1>5. HtmlOf(front) = front
      /\ (Last(elements) = "head" => \A k \in 1..(n - 1) : elements[k] # "cell")
  BY <1>4, CloseKeepsNested
<1> DEFINE S == {NameOf(elements[k], head) : k \in 1..n}
<1>6. tags = [k \in 1..n |-> NameOf(elements[k], head)] /\ tags \in Seq(S) /\ tags # <<>> /\ Len(tags) = n
  BY <1>4 DEF NamesOf
<1>7. Last(tags) = item.name
  <2>1. Last(tags) = tags[n]
    BY <1>6, EndFacts
  <2>. QED  BY <1>4, <1>6, <2>1
<1> HIDE DEF tags, n, front, S
<1>8. AfterItem(tags, item) = Front(tags)
  BY <1>6, <1>7 DEF AfterItem
<1>9. Front(tags) = [k \in 1..(n - 1) |-> tags[k]]
  BY <1>4, <1>6 DEF Front
<1>10. \A k \in 1..(n - 1) : tags[k] = NameOf(front[k], now)
  <2> TAKE k \in 1..(n - 1)
  <2>1. tags[k] = NameOf(elements[k], head) /\ front[k] = elements[k]
    BY <1>4, <1>6
  <2>2. CASE Last(elements) = "head"
    BY <1>5, <2>1, <2>2 DEF NameOf
  <2>3. CASE Last(elements) # "head"
    BY <2>1, <2>3
  <2>. QED  BY <2>2, <2>3
<1>11. Front(tags) = NamesOf(front, now)
  BY <1>4, <1>9, <1>10 DEF NamesOf
<1>. QED  BY <1>1, <1>2, <1>3, <1>5, <1>8, <1>11 DEF TagsFit, tags, front

(* Contents leave the tags as they are. *)
LEMMA ContentFits ==
  ASSUME NEW items \in Seq(ItemSet), NEW elements, NEW head, TagsFit(items, elements, head),
         NEW item \in ItemSet, IsContent(item)
  PROVE  TagsFit(Append(items, item), elements, head)
<1>1. PICK t : TagsAfter(t, items) /\ t[Len(items)] = NamesOf(HtmlOf(elements), head)
  BY DEF TagsFit
<1>2. PICK u : TagsAfter(u, Append(items, item))
               /\ u[Len(Append(items, item))] = AfterItem(t[Len(items)], item)
  BY <1>1, TagsOneMore
<1>3. AfterItem(t[Len(items)], item) = t[Len(items)]
  BY DEF AfterItem, IsContent
<1>. QED  BY <1>1, <1>2, <1>3 DEF TagsFit

----------------------------------------------------------------------------
(* The renderer: contents. *)

(* The contents that an item is, or waits to be: a placeholder stands for the one that is
   in the queue under its number. *)
StandsFor(items, queue, k, n) ==
  IF items[k].kind = "placeholder"
  THEN \E j \in DOMAIN queue : queue[j].id = items[k].at /\ queue[j].at = n
  ELSE items[k].at = n

ShownIn(items) == {k \in DOMAIN items : IsContent(items[k])}

QueueSet == [id : Nat, lang : Langs \cup {"svg"}, at : Nat]

(* The contents in placed are in the HTML, each once and in their order, and those that are not
   as they should be are the ones in warned. *)
Filled(items, queue, placed, warned) ==
  /\ warned \in SUBSET placed
  /\ \A k \in ShownIn(items) : \E n \in placed : StandsFor(items, queue, k, n)
  /\ \A n \in placed : \E k \in ShownIn(items) : StandsFor(items, queue, k, n)
  /\ \A i, k \in ShownIn(items), m, n \in placed :
       i < k /\ StandsFor(items, queue, i, m) /\ StandsFor(items, queue, k, n) => m < n
  /\ \A k \in ShownIn(items) : items[k].kind # "placeholder" =>
       /\ items[k].kind \in DegradedKinds <=> items[k].at \in warned
       /\ \A j \in DOMAIN queue : queue[j].at # items[k].at
  /\ \A j \in DOMAIN queue : queue[j].at \in placed \ warned
  /\ \A i, j \in DOMAIN queue : i # j => queue[i].id # queue[j].id /\ queue[i].at # queue[j].at

(* A tag more. *)
LEMMA FilledWithTag ==
  ASSUME NEW items \in Seq(ItemSet), NEW queue, NEW placed \in SUBSET Nat, NEW warned,
         Filled(items, queue, placed, warned),
         NEW item \in ItemSet, ~IsContent(item)
  PROVE  Filled(Append(items, item), queue, placed, warned)
<1> DEFINE more == Append(items, item)
<1>1. /\ DOMAIN more = 1..(Len(items) + 1) /\ DOMAIN items = 1..Len(items) /\ Len(items) \in Nat
      /\ \A k \in DOMAIN items : more[k] = items[k]
      /\ more[Len(items) + 1] = item
  BY MoreFacts
<1> HIDE DEF more
<1>2. ShownIn(more) = ShownIn(items)
  BY <1>1 DEF ShownIn
<1>3. \A k \in ShownIn(items) : more[k] = items[k]
  BY <1>1 DEF ShownIn
<1>4. \A k \in ShownIn(items) : \A n : StandsFor(more, queue, k, n) <=> StandsFor(items, queue, k, n)
  BY <1>3 DEF StandsFor
<1>. QED  BY <1>2, <1>3, <1>4 DEF Filled, more

(* Contents that come after all that are placed. *)
LEMMA FilledWithContent ==
  ASSUME NEW items \in Seq(ItemSet), NEW queue \in Seq(QueueSet), NEW placed \in SUBSET Nat, NEW warned,
         Filled(items, queue, placed, warned),
         NEW n \in Nat, \A m \in placed : m < n,
         NEW kind \in ContentKinds
  PROVE  Filled(Append(items, Item(kind, n)), queue, placed \cup {n},
                IF kind \in DegradedKinds THEN warned \cup {n} ELSE warned)
<1> DEFINE item == Item(kind, n)
           more == Append(items, item)
           now == IF kind \in DegradedKinds THEN warned \cup {n} ELSE warned
           last == Len(items) + 1
<1>1. item \in ItemSet /\ item.kind = kind /\ item.at = n /\ kind # "placeholder" /\ IsContent(item)
  BY DEF Item, ItemSet, ContentKinds, IsContent
<1> HIDE DEF item
<1>2. /\ DOMAIN more = 1..last /\ DOMAIN items = 1..Len(items) /\ Len(items) \in Nat
      /\ \A k \in DOMAIN items : more[k] = items[k]
      /\ more[last] = item
  BY <1>1, MoreFacts
<1> HIDE DEF more
<1>3. ShownIn(more) = ShownIn(items) \cup {last}
  BY <1>1, <1>2 DEF ShownIn
<1>4. \A k \in ShownIn(items) : more[k] = items[k] /\ k \in 1..Len(items) /\ k < last
  BY <1>2 DEF ShownIn
<1>5. \A k \in ShownIn(items) : \A m : StandsFor(more, queue, k, m) <=> StandsFor(items, queue, k, m)
  BY <1>4 DEF StandsFor
<1>6. \A m : StandsFor(more, queue, last, m) <=> m = n
  BY <1>1, <1>2 DEF StandsFor
<1>7. n \notin placed /\ now \in SUBSET (placed \cup {n}) /\ warned \in SUBSET placed
  BY DEF Filled
<1>8. \A k \in ShownIn(items) : \A m : StandsFor(items, queue, k, m) => m \in placed
  <2> SUFFICES ASSUME NEW k \in ShownIn(items), NEW m, StandsFor(items, queue, k, m) PROVE m \in placed
    OBVIOUS
  <2>1. CASE items[k].kind = "placeholder"
    BY <2>1 DEF Filled, StandsFor
  <2>2. CASE items[k].kind # "placeholder"
    BY <2>2 DEF Filled, StandsFor
  <2>. QED  BY <2>1, <2>2
<1>9. \A k \in ShownIn(more) : \E m \in placed \cup {n} : StandsFor(more, queue, k, m)
  <2> TAKE k \in ShownIn(more)
  <2>1. CASE k = last
    BY <1>6, <2>1
  <2>2. CASE k # last
    BY <1>3, <1>5, <2>2 DEF Filled
  <2>. QED  BY <2>1, <2>2
<1>10. \A m \in placed \cup {n} : \E k \in ShownIn(more) : StandsFor(more, queue, k, m)
  <2> TAKE m \in placed \cup {n}
  <2>1. CASE m = n
    BY <1>3, <1>6, <2>1
  <2>2. CASE m # n
    BY <1>3, <1>5, <2>2 DEF Filled
  <2>. QED  BY <2>1, <2>2
<1>11. \A i, k \in ShownIn(more), l, m \in placed \cup {n} :
         i < k /\ StandsFor(more, queue, i, l) /\ StandsFor(more, queue, k, m) => l < m
  <2> SUFFICES ASSUME NEW i \in ShownIn(more), NEW k \in ShownIn(more),
                      NEW l \in placed \cup {n}, NEW m \in placed \cup {n},
                      i < k, StandsFor(more, queue, i, l), StandsFor(more, queue, k, m)
               PROVE  l < m
    OBVIOUS
  <2>0. i \in 1..last /\ k \in 1..last
    BY <1>2 DEF ShownIn
  <2>1. i # last
    BY <1>2, <2>0
  <2>2. i \in ShownIn(items) /\ StandsFor(items, queue, i, l) /\ l \in placed
    BY <1>3, <1>5, <1>8, <2>1
  <2>3. CASE k = last
    BY <1>6, <2>2, <2>3
  <2>4. CASE k # last
    <3>1. k \in ShownIn(items) /\ StandsFor(items, queue, k, m) /\ m \in placed
      BY <1>3, <1>5, <1>8, <2>4
    <3>. QED  BY <2>2, <3>1 DEF Filled
  <2>. QED  BY <2>3, <2>4
<1>12. \A k \in ShownIn(more) : more[k].kind # "placeholder" =>
         /\ more[k].kind \in DegradedKinds <=> more[k].at \in now
         /\ \A j \in DOMAIN queue : queue[j].at # more[k].at
  <2> SUFFICES ASSUME NEW k \in ShownIn(more), more[k].kind # "placeholder"
               PROVE  /\ more[k].kind \in DegradedKinds <=> more[k].at \in now
                      /\ \A j \in DOMAIN queue : queue[j].at # more[k].at
    OBVIOUS
  <2>1. CASE k = last
    <3>1. more[k].kind = kind /\ more[k].at = n
      BY <1>1, <1>2, <2>1
    <3>2. \A j \in DOMAIN queue : queue[j].at # n
      BY <1>7 DEF Filled
    <3>. QED  BY <1>7, <3>1, <3>2
  <2>2. CASE k # last
    <3>1. k \in ShownIn(items) /\ more[k] = items[k]
      BY <1>3, <1>4, <2>2
    <3>2. items[k].at \in placed
      BY <1>8, <3>1 DEF StandsFor
    <3>3. /\ items[k].kind \in DegradedKinds <=> items[k].at \in warned
          /\ \A j \in DOMAIN queue : queue[j].at # items[k].at
      BY <3>1 DEF Filled
    <3>. QED  BY <1>7, <3>1, <3>2, <3>3
  <2>. QED  BY <2>1, <2>2
<1>13. \A j \in DOMAIN queue : queue[j].at \in (placed \cup {n}) \ now
  BY <1>7 DEF Filled
<1>14. \A i, j \in DOMAIN queue : i # j => queue[i].id # queue[j].id /\ queue[i].at # queue[j].at
  BY DEF Filled
<1> HIDE DEF now, last
<1>15. Filled(more, queue, placed \cup {n}, now)
  BY <1>7, <1>9, <1>10, <1>11, <1>12, <1>13, <1>14 DEF Filled
<1>. QED  BY <1>15 DEF more, now, item

(* A placeholder with a number of its own for them. *)
LEMMA FilledWithPlaceholder ==
  ASSUME NEW items \in Seq(ItemSet), NEW queue \in Seq(QueueSet), NEW placed \in SUBSET Nat, NEW warned,
         Filled(items, queue, placed, warned),
         NEW n \in Nat, \A m \in placed : m < n,
         NEW entry \in QueueSet, entry.at = n, \A j \in DOMAIN queue : queue[j].id # entry.id
  PROVE  Filled(Append(items, Item("placeholder", entry.id)), Append(queue, entry), placed \cup {n}, warned)
<1> DEFINE item == Item("placeholder", entry.id)
           more == Append(items, item)
           longer == Append(queue, entry)
           last == Len(items) + 1
           end == Len(queue) + 1
<1>1. item \in ItemSet /\ item.kind = "placeholder" /\ item.at = entry.id /\ IsContent(item)
  BY DEF Item, ItemSet, IsContent, QueueSet
<1> HIDE DEF item
<1>2. /\ DOMAIN more = 1..last /\ DOMAIN items = 1..Len(items) /\ Len(items) \in Nat
      /\ \A k \in DOMAIN items : more[k] = items[k]
      /\ more[last] = item
  BY <1>1, MoreFacts
<1>3. /\ DOMAIN longer = 1..end /\ DOMAIN queue = 1..Len(queue) /\ Len(queue) \in Nat
      /\ \A j \in DOMAIN queue : longer[j] = queue[j]
      /\ longer[end] = entry
  BY MoreFacts
<1> HIDE DEF more, longer
<1>4. DOMAIN longer = DOMAIN queue \cup {end} /\ end \notin DOMAIN queue
  BY <1>3
<1>5. ShownIn(more) = ShownIn(items) \cup {last}
  BY <1>1, <1>2 DEF ShownIn
<1>6. \A k \in ShownIn(items) : more[k] = items[k] /\ k \in 1..Len(items) /\ k < last
  BY <1>2 DEF ShownIn
<1>7. \A k \in ShownIn(items) : items[k].kind = "placeholder" =>
        \E j \in DOMAIN queue : queue[j].id = items[k].at
  BY DEF Filled, StandsFor
<1>8. \A k \in ShownIn(items) : \A m : StandsFor(more, longer, k, m) <=> StandsFor(items, queue, k, m)
  <2> TAKE k \in ShownIn(items)
  <2> TAKE m
  <2>1. CASE items[k].kind # "placeholder"
    BY <1>6, <2>1 DEF StandsFor
  <2>2. CASE items[k].kind = "placeholder"
    <3>1. entry.id # items[k].at
      BY <1>7, <2>2
    <3>2. (\E j \in DOMAIN longer : longer[j].id = items[k].at /\ longer[j].at = m)
            <=> \E j \in DOMAIN queue : queue[j].id = items[k].at /\ queue[j].at = m
      BY <1>3, <1>4, <3>1
    <3>. QED  BY <1>6, <2>2, <3>2 DEF StandsFor
  <2>. QED  BY <2>1, <2>2
<1>9. \A m : StandsFor(more, longer, last, m) <=> m = n
  <2> TAKE m
  <2>1. (\E j \in DOMAIN longer : longer[j].id = entry.id /\ longer[j].at = m) <=> entry.at = m
    BY <1>3, <1>4
  <2>. QED  BY <1>1, <1>2, <2>1 DEF StandsFor
<1>10. n \notin placed /\ warned \in SUBSET placed /\ warned \in SUBSET (placed \cup {n})
  BY DEF Filled
<1>11. \A k \in ShownIn(items) : \A m : StandsFor(items, queue, k, m) => m \in placed
  <2> SUFFICES ASSUME NEW k \in ShownIn(items), NEW m, StandsFor(items, queue, k, m) PROVE m \in placed
    OBVIOUS
  <2>1. CASE items[k].kind = "placeholder"
    BY <2>1 DEF Filled, StandsFor
  <2>2. CASE items[k].kind # "placeholder"
    BY <2>2 DEF Filled, StandsFor
  <2>. QED  BY <2>1, <2>2
<1>12. \A k \in ShownIn(more) : \E m \in placed \cup {n} : StandsFor(more, longer, k, m)
  <2> TAKE k \in ShownIn(more)
  <2>1. CASE k = last
    BY <1>9, <2>1
  <2>2. CASE k # last
    BY <1>5, <1>8, <2>2 DEF Filled
  <2>. QED  BY <2>1, <2>2
<1>13. \A m \in placed \cup {n} : \E k \in ShownIn(more) : StandsFor(more, longer, k, m)
  <2> TAKE m \in placed \cup {n}
  <2>1. CASE m = n
    BY <1>5, <1>9, <2>1
  <2>2. CASE m # n
    BY <1>5, <1>8, <2>2 DEF Filled
  <2>. QED  BY <2>1, <2>2
<1>14. \A i, k \in ShownIn(more), l, m \in placed \cup {n} :
         i < k /\ StandsFor(more, longer, i, l) /\ StandsFor(more, longer, k, m) => l < m
  <2> SUFFICES ASSUME NEW i \in ShownIn(more), NEW k \in ShownIn(more),
                      NEW l \in placed \cup {n}, NEW m \in placed \cup {n},
                      i < k, StandsFor(more, longer, i, l), StandsFor(more, longer, k, m)
               PROVE  l < m
    OBVIOUS
  <2>0. i \in 1..last /\ k \in 1..last
    BY <1>2 DEF ShownIn
  <2>1. i # last
    BY <1>2, <2>0
  <2>2. i \in ShownIn(items) /\ StandsFor(items, queue, i, l) /\ l \in placed
    BY <1>5, <1>8, <1>11, <2>1
  <2>3. CASE k = last
    BY <1>9, <2>2, <2>3
  <2>4. CASE k # last
    <3>1. k \in ShownIn(items) /\ StandsFor(items, queue, k, m) /\ m \in placed
      BY <1>5, <1>8, <1>11, <2>4
    <3>. QED  BY <2>2, <3>1 DEF Filled
  <2>. QED  BY <2>3, <2>4
<1>15. \A k \in ShownIn(more) : more[k].kind # "placeholder" =>
         /\ more[k].kind \in DegradedKinds <=> more[k].at \in warned
         /\ \A j \in DOMAIN longer : longer[j].at # more[k].at
  <2> SUFFICES ASSUME NEW k \in ShownIn(more), more[k].kind # "placeholder"
               PROVE  /\ more[k].kind \in DegradedKinds <=> more[k].at \in warned
                      /\ \A j \in DOMAIN longer : longer[j].at # more[k].at
    OBVIOUS
  <2>1. k \in ShownIn(items) /\ more[k] = items[k]
    BY <1>1, <1>2, <1>5, <1>6
  <2>2. items[k].at \in placed
    BY <1>11, <2>1 DEF StandsFor
  <2>3. /\ items[k].kind \in DegradedKinds <=> items[k].at \in warned
        /\ \A j \in DOMAIN queue : queue[j].at # items[k].at
    BY <2>1 DEF Filled
  <2>. QED  BY <1>3, <1>4, <1>10, <2>1, <2>2, <2>3
<1>16. \A j \in DOMAIN longer : longer[j].at \in (placed \cup {n}) \ warned
  BY <1>3, <1>4, <1>10 DEF Filled
<1>17. \A i, j \in DOMAIN longer : i # j => longer[i].id # longer[j].id /\ longer[i].at # longer[j].at
  <2>1. \A j \in DOMAIN queue : queue[j].at # n /\ queue[j].id # entry.id
    BY <1>10 DEF Filled
  <2>2. \A i, j \in DOMAIN queue : i # j => queue[i].id # queue[j].id /\ queue[i].at # queue[j].at
    BY DEF Filled
  <2>. QED  BY <1>3, <1>4, <2>1, <2>2
<1> HIDE DEF last, end
<1>18. Filled(more, longer, placed \cup {n}, warned)
  BY <1>10, <1>12, <1>13, <1>14, <1>15, <1>16, <1>17 DEF Filled
<1>. QED  BY <1>18 DEF more, longer, item

(* The HTML once the first of the queue has got its picture, or the reason why there is none. *)
Substituted(items, queue, kind) ==
  [k \in DOMAIN items |->
     IF items[k] = Item("placeholder", Head(queue).id) THEN Item(kind, Head(queue).at) ELSE items[k]]
WarnedOf(warned, kind, n) == IF kind \in DegradedKinds THEN warned \cup {n} ELSE warned

LEMMA FilledWithPicture ==
  ASSUME NEW items \in Seq(ItemSet), NEW queue \in Seq(QueueSet), queue # <<>>,
         NEW placed \in SUBSET Nat, NEW warned, Filled(items, queue, placed, warned),
         NEW kind \in ContentKinds
  PROVE  /\ Substituted(items, queue, kind) \in Seq(ItemSet)
         /\ Len(Substituted(items, queue, kind)) = Len(items)
         /\ \A k \in DOMAIN items :
              \/ Substituted(items, queue, kind)[k] = items[k]
              \/ IsContent(items[k]) /\ IsContent(Substituted(items, queue, kind)[k])
         /\ Filled(Substituted(items, queue, kind), Tail(queue), placed,
                   WarnedOf(warned, kind, Head(queue).at))
<1> DEFINE next == Substituted(items, queue, kind)
           first == queue[1]
           rest == Tail(queue)
           item == Item(kind, first.at)
           waiting == Item("placeholder", first.id)
           now == IF kind \in DegradedKinds THEN warned \cup {first.at} ELSE warned
<1>1. Head(queue) = first /\ first \in QueueSet /\ Len(queue) \in Nat \ {0} /\ DOMAIN queue = 1..Len(queue)
  OBVIOUS
<1>2. DOMAIN rest = 1..(Len(queue) - 1) /\ \A j \in 1..(Len(queue) - 1) : rest[j] = queue[j + 1]
  BY <1>1
<1>3. /\ item \in ItemSet /\ item.kind = kind /\ item.at = first.at /\ kind # "placeholder" /\ IsContent(item)
      /\ waiting.kind = "placeholder" /\ waiting.at = first.id /\ IsContent(waiting)
  BY <1>1 DEF Item, ItemSet, ContentKinds, IsContent, QueueSet
<1>4. \A k \in DOMAIN items : items[k].kind = "placeholder" /\ items[k].at = first.id <=> items[k] = waiting
  <2> TAKE k \in DOMAIN items
  <2>1. items[k] \in ItemSet
    OBVIOUS
  <2>2. ASSUME items[k].kind = "placeholder", items[k].at = first.id PROVE items[k] = waiting
    <3>1. items[k] \in [kind : ContentKinds \cup {"placeholder"}, at : Nat]
      BY <2>1, <2>2 DEF ItemSet
    <3>2. items[k] = [kind |-> items[k].kind, at |-> items[k].at]
      BY <3>1
    <3>. QED  BY <2>2, <3>2 DEF Item
  <2>. QED  BY <1>3, <2>2
<1> HIDE DEF item, waiting, first, rest
<1>5. /\ DOMAIN next = DOMAIN items /\ DOMAIN items = 1..Len(items)
      /\ \A k \in DOMAIN items : next[k] = IF items[k] = waiting THEN item ELSE items[k]
  BY <1>1 DEF item, waiting, Substituted
<1>6. next \in Seq(ItemSet) /\ Len(next) = Len(items)
  <2>1. \A k \in 1..Len(items) : next[k] \in ItemSet
    BY <1>3, <1>5
  <2>2. next = [k \in 1..Len(items) |-> next[k]] /\ Len(items) \in Nat
    BY <1>5 DEF Substituted
  <2>. QED  BY <2>1, <2>2
<1>7. \A k \in DOMAIN items : next[k] = items[k] \/ (IsContent(items[k]) /\ IsContent(next[k]))
  BY <1>3, <1>5
<1>8. ShownIn(next) = ShownIn(items)
  BY <1>3, <1>5 DEF ShownIn
<1>9. /\ \A j \in DOMAIN rest : j + 1 \in DOMAIN queue /\ rest[j] = queue[j + 1] /\ j + 1 # 1
      /\ \A j \in DOMAIN queue : j # 1 => j - 1 \in DOMAIN rest /\ rest[j - 1] = queue[j]
      /\ 1 \in DOMAIN queue /\ queue[1] = first
  BY <1>1, <1>2 DEF first
<1>10. \A i, j \in DOMAIN queue : i # j => queue[i].id # queue[j].id /\ queue[i].at # queue[j].at
  BY DEF Filled
<1>11. \A k \in ShownIn(items) : \A n : StandsFor(next, rest, k, n) <=> StandsFor(items, queue, k, n)
  <2> TAKE k \in ShownIn(items)
  <2> TAKE n
  <2>0. k \in DOMAIN items
    BY DEF ShownIn
  <2>1. CASE items[k] = waiting
    <3>1. StandsFor(next, rest, k, n) <=> first.at = n
      BY <1>3, <1>5, <2>0, <2>1 DEF StandsFor
    <3>2. StandsFor(items, queue, k, n) <=> \E j \in DOMAIN queue : queue[j].id = first.id /\ queue[j].at = n
      BY <1>3, <2>1 DEF StandsFor
    <3>3. \A j \in DOMAIN queue : queue[j].id = first.id => j = 1
      BY <1>9, <1>10
    <3>. QED  BY <1>9, <3>1, <3>2, <3>3
  <2>2. CASE items[k] # waiting /\ items[k].kind = "placeholder"
    <3>1. items[k].at # first.id /\ next[k] = items[k]
      BY <1>4, <1>5, <2>0, <2>2
    <3>2. (\E j \in DOMAIN rest : rest[j].id = items[k].at /\ rest[j].at = n)
            <=> \E j \in DOMAIN queue : queue[j].id = items[k].at /\ queue[j].at = n
      <4>1. ASSUME NEW j \in DOMAIN rest, rest[j].id = items[k].at, rest[j].at = n
            PROVE  \E i \in DOMAIN queue : queue[i].id = items[k].at /\ queue[i].at = n
        <5>1. j + 1 \in DOMAIN queue /\ queue[j + 1] = rest[j]
          BY <1>9
        <5>. QED  BY <4>1, <5>1
      <4>2. ASSUME NEW j \in DOMAIN queue, queue[j].id = items[k].at, queue[j].at = n
            PROVE  \E i \in DOMAIN rest : rest[i].id = items[k].at /\ rest[i].at = n
        <5>1. j # 1
          BY <1>9, <3>1, <4>2
        <5>2. j - 1 \in DOMAIN rest /\ rest[j - 1] = queue[j]
          BY <1>9, <5>1
        <5>. QED  BY <4>2, <5>2
      <4>. QED  BY <4>1, <4>2
    <3>. QED  BY <2>2, <3>1, <3>2 DEF StandsFor
  <2>3. CASE items[k].kind # "placeholder"
    BY <1>3, <1>5, <2>0, <2>3 DEF StandsFor
  <2>. QED  BY <2>1, <2>2, <2>3
<1>12. first.at \in placed \ warned /\ warned \in SUBSET placed /\ now \in SUBSET placed
  BY <1>9 DEF Filled
<1>13. \A k \in ShownIn(next) : next[k].kind # "placeholder" =>
         /\ next[k].kind \in DegradedKinds <=> next[k].at \in now
         /\ \A j \in DOMAIN rest : rest[j].at # next[k].at
  <2> SUFFICES ASSUME NEW k \in ShownIn(items), next[k].kind # "placeholder"
               PROVE  /\ next[k].kind \in DegradedKinds <=> next[k].at \in now
                      /\ \A j \in DOMAIN rest : rest[j].at # next[k].at
    BY <1>8
  <2>0. k \in DOMAIN items
    BY DEF ShownIn
  <2>1. CASE items[k] = waiting
    <3>1. next[k].kind = kind /\ next[k].at = first.at
      BY <1>3, <1>5, <2>0, <2>1
    <3>2. \A j \in DOMAIN rest : rest[j].at # first.at
      <4> TAKE j \in DOMAIN rest
      <4>. QED  BY <1>9, <1>10
    <3>3. kind \in DegradedKinds <=> first.at \in now
      BY <1>12
    <3>. QED  BY <3>1, <3>2, <3>3
  <2>2. CASE items[k] # waiting
    <3>1. next[k] = items[k]
      BY <1>5, <2>0, <2>2
    <3>2. /\ items[k].kind \in DegradedKinds <=> items[k].at \in warned
          /\ \A j \in DOMAIN queue : queue[j].at # items[k].at
      BY <2>2, <3>1 DEF Filled
    <3>3. items[k].at # first.at
      BY <1>9, <3>2
    <3>. QED  BY <1>9, <3>1, <3>2, <3>3
  <2>. QED  BY <2>1, <2>2
<1>14. \A j \in DOMAIN rest : rest[j].at \in placed \ now
  <2> TAKE j \in DOMAIN rest
  <2>1. rest[j].at \in placed \ warned
    BY <1>9 DEF Filled
  <2>2. rest[j].at # first.at
    BY <1>9, <1>10
  <2>. QED  BY <2>1, <2>2
<1>15. \A i, j \in DOMAIN rest : i # j => rest[i].id # rest[j].id /\ rest[i].at # rest[j].at
  <2> SUFFICES ASSUME NEW i \in DOMAIN rest, NEW j \in DOMAIN rest, i # j
               PROVE  rest[i].id # rest[j].id /\ rest[i].at # rest[j].at
    OBVIOUS
  <2>1. i + 1 # j + 1
    BY <1>1, <1>2
  <2>. QED  BY <1>9, <1>10, <2>1
<1> HIDE DEF now, next
<1>16. Filled(next, rest, placed, now)
  <2>1. \A k \in ShownIn(next) : \E n \in placed : StandsFor(next, rest, k, n)
    BY <1>8, <1>11 DEF Filled
  <2>2. \A n \in placed : \E k \in ShownIn(next) : StandsFor(next, rest, k, n)
    BY <1>8, <1>11 DEF Filled
  <2>3. \A i, k \in ShownIn(next), m, n \in placed :
          i < k /\ StandsFor(next, rest, i, m) /\ StandsFor(next, rest, k, n) => m < n
    BY <1>8, <1>11 DEF Filled
  <2>. QED  BY <1>12, <1>13, <1>14, <1>15, <2>1, <2>2, <2>3 DEF Filled
<1>. QED  BY <1>1, <1>6, <1>7, <1>16 DEF now, next, rest, WarnedOf

----------------------------------------------------------------------------
(* The renderer: its steps. *)

RenderTypeOK ==
  /\ phase \in {"parsing", "finishing", "done"} /\ contents \in Nat /\ inHead \in BOOLEAN
  /\ open \in Seq(ElementSet) /\ out \in Seq(ItemSet) /\ pending \in Seq(QueueSet)
  /\ fence \in [lang : Langs \cup {"none"}, at : Nat]

(* What is in an open fence comes with its end. *)
FenceInv ==
  IF Top = "fence" THEN fence.at = contents /\ contents # 0 /\ fence.lang \in Langs ELSE fence.at = 0
Placed == (1..contents) \ {fence.at}

PhaseInv ==
  /\ phase = "parsing" => \A j \in DOMAIN pending : pending[j].id = j - 1
  /\ phase # "parsing" => open = <<>>
  /\ phase = "done" => pending = <<>>

NestInv == Nested(open) /\ (inHead <=> HasHead(open)) /\ TagsFit(out, open, inHead)
FillInv == Filled(out, pending, Placed, warnings)

RenderInv == RenderTypeOK /\ FenceInv /\ PhaseInv /\ NestInv /\ FillInv

LEMMA RenderInitInv == RenderInit => RenderInv
<1> SUFFICES ASSUME RenderInit PROVE RenderInv
  OBVIOUS
<1> USE DEF RenderInit
<1>1. RenderTypeOK
  <2>1. fence \in [lang : Langs \cup {"none"}, at : Nat]
    BY DEF NoFence
  <2>2. open \in Seq(ElementSet) /\ out \in Seq(ItemSet) /\ pending \in Seq(QueueSet)
    OBVIOUS
  <2>. QED  BY <2>1, <2>2 DEF RenderTypeOK
<1>2. FenceInv /\ PhaseInv
  BY DEF FenceInv, PhaseInv, Top, NoFence
<1>3. TagsFit(out, open, inHead)
  <2> DEFINE t == [k \in 0..0 |-> <<>>]
  <2>1. TagsAfter(t, out)
    BY DEF TagsAfter
  <2>2. NamesOf(HtmlOf(open), inHead) = <<>>
    BY DEF NamesOf, HtmlOf, InnermostOf
  <2>3. t[Len(out)] = NamesOf(HtmlOf(open), inHead)
    BY <2>2
  <2> HIDE DEF t
  <2>. QED  BY <2>1, <2>3 DEF TagsFit
<1>4. Nested(open) /\ (inHead <=> HasHead(open))
  BY DEF Nested, HasHead
<1>5. FillInv
  BY DEF FillInv, Filled, Placed, ShownIn, NoFence
<1>. QED  BY <1>1, <1>2, <1>3, <1>4, <1>5 DEF RenderInv, NestInv

(* Contents n are shown, shown with a warning, or deferred. *)
Emits(n) ==
  \/ \E kind \in ContentKinds \ DegradedKinds : Show(kind, n)
  \/ \E kind \in DegradedKinds : Degrade(kind, n)
  \/ \E lang \in Langs \cup {"svg"} : Defer(lang, n)

LEMMA EmitsFill ==
  ASSUME RenderInv, phase = "parsing", NEW n \in Nat, \A m \in Placed : m < n, Emits(n)
  PROVE  /\ out' \in Seq(ItemSet) /\ pending' \in Seq(QueueSet)
         /\ \A j \in DOMAIN pending' : pending'[j].id = j - 1
         /\ TagsFit(out', open, inHead)
         /\ Filled(out', pending', Placed \cup {n}, warnings')
<1>1. /\ out \in Seq(ItemSet) /\ pending \in Seq(QueueSet) /\ Placed \in SUBSET Nat
      /\ TagsFit(out, open, inHead) /\ Filled(out, pending, Placed, warnings)
      /\ \A j \in DOMAIN pending : pending[j].id = j - 1
  BY DEF RenderInv, RenderTypeOK, NestInv, FillInv, PhaseInv, Placed
<1>2. \A kind \in ContentKinds \cup {"placeholder"}, k \in Nat : Item(kind, k) \in ItemSet /\ IsContent(Item(kind, k))
  BY DEF Item, ItemSet, IsContent, ContentKinds
<1>3. ASSUME NEW kind \in ContentKinds, Emit(Item(kind, n)), pending' = pending,
             warnings' = IF kind \in DegradedKinds THEN warnings \cup {n} ELSE warnings
      PROVE  /\ out' \in Seq(ItemSet) /\ pending' \in Seq(QueueSet)
             /\ \A j \in DOMAIN pending' : pending'[j].id = j - 1
             /\ TagsFit(out', open, inHead)
             /\ Filled(out', pending', Placed \cup {n}, warnings')
  <2>1. out' = Append(out, Item(kind, n))
    BY <1>3 DEF Emit
  <2>2. out' \in Seq(ItemSet) /\ TagsFit(out', open, inHead)
    BY <1>1, <1>2, <2>1, MoreFacts, ContentFits
  <2>3. Filled(out', pending', Placed \cup {n}, warnings')
    BY <1>1, <1>3, <2>1, FilledWithContent
  <2>. QED  BY <1>1, <1>3, <2>2, <2>3
<1>4. ASSUME NEW kind \in ContentKinds \ DegradedKinds, Show(kind, n)
      PROVE  Emit(Item(kind, n)) /\ pending' = pending /\ warnings' = warnings
  BY <1>4 DEF Show
<1>5. ASSUME NEW kind \in DegradedKinds, Degrade(kind, n)
      PROVE  Emit(Item(kind, n)) /\ pending' = pending /\ warnings' = warnings \cup {n} /\ kind \in ContentKinds
  BY <1>5 DEF Degrade, DegradedKinds, ContentKinds
<1>6. ASSUME NEW lang \in Langs \cup {"svg"}, Defer(lang, n)
      PROVE  /\ out' \in Seq(ItemSet) /\ pending' \in Seq(QueueSet)
             /\ \A j \in DOMAIN pending' : pending'[j].id = j - 1
             /\ TagsFit(out', open, inHead)
             /\ Filled(out', pending', Placed \cup {n}, warnings')
  <2> DEFINE entry == [id |-> Len(pending), lang |-> lang, at |-> n]
  <2>1. entry \in QueueSet /\ entry.at = n /\ entry.id = Len(pending) /\ Len(pending) \in Nat
    BY <1>1 DEF QueueSet
  <2>2. /\ out' = Append(out, Item("placeholder", entry.id)) /\ pending' = Append(pending, entry)
        /\ warnings' = warnings
    BY <1>6 DEF Defer, Emit, NumberOfPlaceholder
  <2> HIDE DEF entry
  <2>3. \A j \in DOMAIN pending : pending[j].id # entry.id
    BY <1>1, <2>1
  <2>4. Filled(out', pending', Placed \cup {n}, warnings')
    BY <1>1, <2>1, <2>2, <2>3, FilledWithPlaceholder
  <2>5. out' \in Seq(ItemSet) /\ TagsFit(out', open, inHead)
    BY <1>1, <1>2, <2>1, <2>2, MoreFacts, ContentFits
  <2>6. pending' \in Seq(QueueSet) /\ \A j \in DOMAIN pending' : pending'[j].id = j - 1
    BY <1>1, <2>1, <2>2
  <2>. QED  BY <2>4, <2>5, <2>6
<1>. QED  BY <1>3, <1>4, <1>5, <1>6 DEF Emits

(* All contents so far are placed, but those of an open fence. *)
LEMMA PlacedFacts ==
  ASSUME RenderInv
  PROVE  /\ Placed \in SUBSET Nat /\ contents \in Nat
         /\ Top # "fence" => fence.at = 0 /\ Placed = 1..contents /\ \A m \in Placed : m < contents + 1
         /\ Top = "fence" => /\ fence.at = contents /\ fence.lang \in Langs
                             /\ Placed \cup {contents} = 1..contents /\ \A m \in Placed : m < contents
  BY DEF RenderInv, RenderTypeOK, FenceInv, Placed

LEMMA TopIsInnermost == Top = InnermostOf(open)
  BY DEF Top, InnermostOf

LEMMA StartTagInv ==
  ASSUME RenderInv, NEW element \in Elements, StartTag(element) PROVE RenderInv'
<1>1. /\ element \in Inside(Top) /\ UNCHANGED <<contents, phase, fence, pending, warnings>>
      /\ open' = Append(open, element) /\ inHead' = (inHead \/ element = "head")
      /\ out' = Append(out, Tag("open", HtmlTag(element))) /\ phase = "parsing"
  BY DEF StartTag, MayOpen, Emit, More
<1>2. /\ element \in ElementSet /\ element # "fence"
      /\ open \in Seq(ElementSet) /\ inHead \in BOOLEAN /\ out \in Seq(ItemSet) /\ pending \in Seq(QueueSet)
      /\ Nested(open) /\ TagsFit(out, open, inHead) /\ (inHead <=> HasHead(open)) /\ FillInv
  BY DEF RenderInv, RenderTypeOK, NestInv, ElementSet, Elements
<1> DEFINE item == Tag("open", HtmlTag(element))
<1>3. item \in ItemSet /\ item.kind = "open" /\ item.name = NameOf(element, inHead) /\ ~IsContent(item)
  BY <1>2, TagNames DEF Tag, IsContent
<1> HIDE DEF item
<1>4. TagsFit(out', open', inHead')
  BY <1>1, <1>2, <1>3, OpenTagFits, TopIsInnermost DEF item
<1>5. open' \in Seq(ElementSet) /\ Nested(open') /\ (inHead' <=> HasHead(open'))
  BY <1>1, <1>2, OpenKeepsNested, TopIsInnermost
<1>6. Top' = element
  BY <1>1, <1>2, MoreFacts DEF Top
<1>7. Top # "fence"
  BY <1>1 DEF Inside
<1>8. FenceInv' /\ Placed' = Placed
  BY <1>1, <1>2, <1>6, <1>7, PlacedFacts DEF FenceInv, Placed
<1>9. FillInv'
  BY <1>1, <1>2, <1>3, <1>8, PlacedFacts, FilledWithTag DEF FillInv, item
<1>10. RenderTypeOK'
  BY <1>1, <1>2, <1>3, <1>5, MoreFacts DEF RenderInv, RenderTypeOK, item
<1>11. PhaseInv'
  BY <1>1 DEF RenderInv, PhaseInv
<1>. QED  BY <1>4, <1>5, <1>8, <1>9, <1>10, <1>11 DEF RenderInv, NestInv

LEMMA EndTagInv ==
  ASSUME RenderInv, NEW element \in Elements, EndTag(element) PROVE RenderInv'
<1>1. /\ Top = element /\ UNCHANGED <<contents, phase, fence, pending, warnings>>
      /\ open' = Front(open) /\ inHead' = (inHead /\ element # "head")
      /\ out' = Append(out, Tag("close", HtmlTag(element))) /\ phase = "parsing"
  BY DEF EndTag, Emit, StillHead
<1>2. /\ element \in ElementSet /\ element # "fence" /\ element # "document"
      /\ open \in Seq(ElementSet) /\ inHead \in BOOLEAN /\ out \in Seq(ItemSet) /\ pending \in Seq(QueueSet)
      /\ Nested(open) /\ TagsFit(out, open, inHead) /\ (inHead <=> HasHead(open)) /\ FillInv
  BY DEF RenderInv, RenderTypeOK, NestInv, ElementSet, Elements
<1>3. open # <<>> /\ Last(open) = element
  BY <1>1, <1>2 DEF Top
<1> DEFINE item == Tag("close", HtmlTag(element))
<1>4. item \in ItemSet /\ item.kind = "close" /\ item.name = NameOf(element, inHead) /\ ~IsContent(item)
  BY <1>2, TagNames DEF Tag, IsContent
<1> HIDE DEF item
<1>5. TagsFit(out', open', inHead')
  BY <1>1, <1>2, <1>3, <1>4, CloseTagFits DEF item
<1>6. open' \in Seq(ElementSet) /\ Nested(open') /\ (inHead' <=> HasHead(open')) /\ HtmlOf(open') = open'
  BY <1>1, <1>2, <1>3, CloseKeepsNested
<1>7. Top' # "fence"
  <2>1. Top' = InnermostOf(open')
    BY DEF Top, InnermostOf
  <2>2. CASE InnermostOf(open') \in {"image", "fence"}
    <3>1. Front(open') = open'
      BY <1>6, <2>2 DEF HtmlOf
    <3>2. open' # <<>>
      BY <2>2 DEF InnermostOf
    <3>3. Len(Front(open')) = Len(open') - 1 /\ Len(open') \in Nat
      BY <1>6, <3>2, EndFacts
    <3>. QED  BY <3>1, <3>3
  <2>. QED  BY <2>1, <2>2
<1>8. FenceInv' /\ Placed' = Placed
  BY <1>1, <1>2, <1>7, PlacedFacts DEF FenceInv, Placed
<1>9. FillInv'
  BY <1>1, <1>2, <1>4, <1>8, PlacedFacts, FilledWithTag DEF FillInv, item
<1>10. RenderTypeOK'
  BY <1>1, <1>2, <1>4, <1>6, MoreFacts DEF RenderInv, RenderTypeOK, item
<1>11. PhaseInv'
  BY <1>1 DEF RenderInv, PhaseInv
<1>. QED  BY <1>5, <1>6, <1>8, <1>9, <1>10, <1>11 DEF RenderInv, NestInv

LEMMA TextInv == ASSUME RenderInv, Text PROVE RenderInv'
<1>1. /\ phase = "parsing" /\ contents' = contents + 1 /\ Top # "fence"
      /\ Emit(Item("text", contents + 1))
      /\ UNCHANGED <<phase, open, inHead, fence, pending, warnings>>
  BY DEF Text, More, Counted, This
<1>2. Emits(contents + 1)
  BY <1>1 DEF Emits, Show, ContentKinds, DegradedKinds
<1>0. contents + 1 \in Nat /\ \A m \in Placed : m < contents + 1
  BY PlacedFacts
<1>3. /\ out' \in Seq(ItemSet) /\ pending' \in Seq(QueueSet)
      /\ \A j \in DOMAIN pending' : pending'[j].id = j - 1
      /\ TagsFit(out', open, inHead)
      /\ Filled(out', pending', Placed \cup {contents + 1}, warnings')
  BY <1>0, <1>1, <1>2, EmitsFill
<1>4. Placed' = Placed \cup {contents + 1} /\ Top' = Top
  BY <1>1, PlacedFacts DEF Placed, Top
<1>. QED  BY <1>1, <1>3, <1>4 DEF RenderInv, RenderTypeOK, FenceInv, PhaseInv, NestInv, FillInv

(* A fence or an image opens no tag. *)
LEMMA SilentOpen ==
  ASSUME RenderInv, NEW element \in {"fence", "image"}, element \in Inside(Top),
         open' = Append(open, element), UNCHANGED inHead
  PROVE  /\ open' \in Seq(ElementSet) /\ Nested(open') /\ (inHead' <=> HasHead(open')) /\ Top' = element
         /\ \A items : TagsFit(items, open, inHead) => TagsFit(items, open', inHead')
<1>1. element \in ElementSet /\ open \in Seq(ElementSet) /\ Nested(open) /\ (inHead <=> HasHead(open))
  BY DEF RenderInv, RenderTypeOK, NestInv, ElementSet
<1>2. /\ open' \in Seq(ElementSet) /\ Nested(open') /\ (inHead' <=> HasHead(open')) /\ HtmlOf(open) = open
  BY <1>1, OpenKeepsNested, TopIsInnermost
<1>3. open' # <<>> /\ Last(open') = element /\ Front(open') = open
  BY <1>1, MoreFacts
<1>4. Top' = element /\ HtmlOf(open') = open
  BY <1>3 DEF Top, HtmlOf, InnermostOf
<1>. QED  BY <1>2, <1>4 DEF TagsFit

LEMMA SilentClose ==
  ASSUME RenderInv, Top \in {"fence", "image"}, open' = Front(open), UNCHANGED inHead
  PROVE  /\ open' \in Seq(ElementSet) /\ Nested(open') /\ (inHead' <=> HasHead(open'))
         /\ Top' # "fence"
         /\ \A items : TagsFit(items, open, inHead) => TagsFit(items, open', inHead')
<1>1. /\ open \in Seq(ElementSet) /\ Nested(open) /\ (inHead <=> HasHead(open))
      /\ open # <<>> /\ Last(open) = Top
  BY DEF RenderInv, RenderTypeOK, NestInv, Top
<1>2. /\ open' \in Seq(ElementSet) /\ Nested(open') /\ (inHead' <=> HasHead(open')) /\ HtmlOf(open') = open'
  BY <1>1, CloseKeepsNested
<1>3. HtmlOf(open) = open'
  BY <1>1 DEF HtmlOf, InnermostOf
<1>4. InnermostOf(open') \notin {"image", "fence"}
  <2> SUFFICES ASSUME InnermostOf(open') \in {"image", "fence"} PROVE FALSE
    OBVIOUS
  <2>1. Front(open') = open' /\ open' # <<>>
    BY <1>2 DEF HtmlOf, InnermostOf
  <2>2. Len(Front(open')) = Len(open') - 1 /\ Len(open') \in Nat
    BY <1>2, <2>1, EndFacts
  <2>. QED  BY <2>1, <2>2
<1>5. Top' # "fence"
  BY <1>4 DEF Top, InnermostOf
<1>. QED  BY <1>2, <1>3, <1>5 DEF TagsFit

LEMMA StartFenceInv == ASSUME RenderInv, StartFence PROVE RenderInv'
<1>1. PICK lang \in Langs : fence' = [lang |-> lang, at |-> contents + 1]
  BY DEF StartFence, This
<1>2. /\ phase = "parsing" /\ contents' = contents + 1 /\ "fence" \in Inside(Top)
      /\ open' = Append(open, "fence")
      /\ UNCHANGED <<phase, out, inHead, pending, warnings>>
  BY DEF StartFence, More, Counted, This, MayOpen
<1>3. /\ open' \in Seq(ElementSet) /\ Nested(open') /\ (inHead' <=> HasHead(open')) /\ Top' = "fence"
      /\ \A items : TagsFit(items, open, inHead) => TagsFit(items, open', inHead')
  BY <1>2, SilentOpen
<1>4. Top # "fence"
  BY <1>2 DEF Inside
<1>5. Placed' = Placed /\ fence'.at = contents + 1 /\ fence'.lang = lang
  BY <1>1, <1>2, <1>4, PlacedFacts DEF Placed
<1>6. fence' \in [lang : Langs \cup {"none"}, at : Nat] /\ contents' \in Nat /\ contents' # 0
  BY <1>1, <1>2, PlacedFacts
<1>. QED  BY <1>2, <1>3, <1>5, <1>6 DEF RenderInv, RenderTypeOK, FenceInv, PhaseInv, NestInv, FillInv

LEMMA EndFenceInv == ASSUME RenderInv, EndFence PROVE RenderInv'
<1>1. /\ phase = "parsing" /\ Top = "fence" /\ open' = Front(open) /\ fence' = NoFence
      /\ UNCHANGED <<phase, contents, inHead>>
  BY DEF EndFence
<1>2. fence.at = contents /\ contents \in Nat /\ fence.lang \in Langs
  BY <1>1, PlacedFacts
<1>3. Emits(contents)
  <2>1. CASE ~IsDiagram(fence.lang)
    BY <1>2, <2>1 DEF EndFence, EmitCode, Emits, ContentKinds, DegradedKinds
  <2>2. CASE IsDiagram(fence.lang) /\ ShouldRender(fence.lang)
    BY <1>2, <2>2 DEF EndFence, IsDiagram, Emits
  <2>3. CASE IsDiagram(fence.lang) /\ ~ShouldRender(fence.lang)
    BY <1>2, <2>3 DEF EndFence, Emits, DegradedKinds
  <2>. QED  BY <2>1, <2>2, <2>3
<1>4. /\ out' \in Seq(ItemSet) /\ pending' \in Seq(QueueSet)
      /\ \A j \in DOMAIN pending' : pending'[j].id = j - 1
      /\ TagsFit(out', open, inHead)
      /\ Filled(out', pending', Placed \cup {contents}, warnings')
  BY <1>1, <1>2, <1>3, EmitsFill, PlacedFacts
<1>5. /\ open' \in Seq(ElementSet) /\ Nested(open') /\ (inHead' <=> HasHead(open')) /\ Top' # "fence"
      /\ TagsFit(out', open', inHead')
  BY <1>1, <1>4, SilentClose
<1>6. /\ fence' \in [lang : Langs \cup {"none"}, at : Nat] /\ fence'.at = 0
      /\ Placed' = Placed \cup {contents}
  BY <1>1, PlacedFacts DEF Placed, NoFence
<1>. QED  BY <1>1, <1>4, <1>5, <1>6 DEF RenderInv, RenderTypeOK, FenceInv, PhaseInv, NestInv, FillInv

LEMMA StartImageInv == ASSUME RenderInv, StartImage PROVE RenderInv'
<1>1. PICK target \in Targets : Image(target, contents + 1)
  BY DEF StartImage, This
<1>2. /\ phase = "parsing" /\ contents' = contents + 1 /\ "image" \in Inside(Top)
      /\ open' = Append(open, "image")
      /\ UNCHANGED <<phase, inHead, fence>>
  BY DEF StartImage, More, Counted, This, MayOpen
<1>3. Emits(contents + 1)
  BY <1>1 DEF Targets, Image, EmbedRaster, Emits, ContentKinds, DegradedKinds
<1>4. Top # "fence"
  BY <1>2 DEF Inside
<1>0. contents + 1 \in Nat /\ \A m \in Placed : m < contents + 1
  BY PlacedFacts
<1>5. /\ out' \in Seq(ItemSet) /\ pending' \in Seq(QueueSet)
      /\ \A j \in DOMAIN pending' : pending'[j].id = j - 1
      /\ TagsFit(out', open, inHead)
      /\ Filled(out', pending', Placed \cup {contents + 1}, warnings')
  BY <1>0, <1>2, <1>3, EmitsFill
<1>6. /\ open' \in Seq(ElementSet) /\ Nested(open') /\ (inHead' <=> HasHead(open')) /\ Top' = "image"
      /\ TagsFit(out', open', inHead')
  BY <1>2, <1>5, SilentOpen
<1>7. Placed' = Placed \cup {contents + 1} /\ fence'.at = 0 /\ contents' \in Nat
  BY <1>2, <1>4, PlacedFacts DEF Placed
<1>. QED  BY <1>2, <1>5, <1>6, <1>7 DEF RenderInv, RenderTypeOK, FenceInv, PhaseInv, NestInv, FillInv

LEMMA EndImageInv == ASSUME RenderInv, EndImage PROVE RenderInv'
<1>1. /\ phase = "parsing" /\ Top = "image" /\ open' = Front(open)
      /\ UNCHANGED <<phase, contents, out, inHead, fence, pending, warnings>>
  BY DEF EndImage
<1>2. /\ open' \in Seq(ElementSet) /\ Nested(open') /\ (inHead' <=> HasHead(open')) /\ Top' # "fence"
      /\ TagsFit(out', open', inHead')
  BY <1>1, SilentClose DEF RenderInv, NestInv
<1>3. Placed' = Placed /\ fence'.at = 0
  BY <1>1, PlacedFacts DEF Placed
<1>. QED  BY <1>1, <1>2, <1>3 DEF RenderInv, RenderTypeOK, FenceInv, PhaseInv, NestInv, FillInv

(* One of the queue gets its picture or not. *)
LEMMA SubstituteInv ==
  ASSUME RenderInv, Rendering, NEW kind \in ContentKinds, Substitute(kind),
         warnings' = IF kind \in DegradedKinds THEN warnings \cup {Head(pending).at} ELSE warnings
  PROVE  RenderInv'
<1>1. /\ phase = "finishing" /\ pending # <<>> /\ pending' = Tail(pending)
      /\ out' = [k \in DOMAIN out |-> IF out[k] = Item("placeholder", Head(pending).id)
                                      THEN Item(kind, Head(pending).at) ELSE out[k]]
      /\ UNCHANGED <<phase, open, contents, inHead, fence>>
  BY DEF Rendering, Substitute, Replaced, Rendered
<1>2. /\ out \in Seq(ItemSet) /\ pending \in Seq(QueueSet) /\ Placed \in SUBSET Nat
      /\ Filled(out, pending, Placed, warnings)
  BY PlacedFacts DEF RenderInv, RenderTypeOK, FillInv
<1>3. /\ out' \in Seq(ItemSet) /\ Len(out') = Len(out)
      /\ \A k \in DOMAIN out : out'[k] = out[k] \/ (IsContent(out[k]) /\ IsContent(out'[k]))
      /\ Filled(out', pending', Placed, warnings')
  <2>1. out' = Substituted(out, pending, kind) /\ warnings' = WarnedOf(warnings, kind, Head(pending).at)
    BY <1>1 DEF Substituted, WarnedOf
  <2>2. pending # <<>> /\ pending' = Tail(pending) /\ kind \in ContentKinds
    BY <1>1
  <2>3. /\ Substituted(out, pending, kind) \in Seq(ItemSet)
        /\ Len(Substituted(out, pending, kind)) = Len(out)
        /\ \A k \in DOMAIN out :
             \/ Substituted(out, pending, kind)[k] = out[k]
             \/ IsContent(out[k]) /\ IsContent(Substituted(out, pending, kind)[k])
        /\ Filled(Substituted(out, pending, kind), Tail(pending), Placed,
                  WarnedOf(warnings, kind, Head(pending).at))
    BY <1>2, <2>2, FilledWithPicture
  <2>. QED  BY <2>1, <2>2, <2>3
<1>4. PICK t : TagsAfter(t, out) /\ t[Len(out)] = NamesOf(HtmlOf(open), inHead)
  BY DEF RenderInv, NestInv, TagsFit
<1>5. TagsAfter(t, out')
  BY <1>2, <1>3, <1>4, TagsOfReplaced
<1>6. TagsFit(out', open', inHead')
  BY <1>1, <1>3, <1>4, <1>5 DEF TagsFit
<1>7. pending' \in Seq(QueueSet)
  BY <1>1, <1>2
<1>8. Placed' = Placed /\ Top' = Top
  BY <1>1 DEF Placed, Top
<1>. QED  BY <1>1, <1>3, <1>6, <1>7, <1>8 DEF RenderInv, RenderTypeOK, FenceInv, PhaseInv, NestInv, FillInv

LEMMA GiveUpInv == ASSUME RenderInv, Rendering, GiveUp PROVE RenderInv'
<1>1. CASE Rendered.lang = "svg"
  BY <1>1, SubstituteInv DEF GiveUp, Rendered, ContentKinds, DegradedKinds
<1>2. CASE Rendered.lang # "svg"
  BY <1>2, SubstituteInv DEF GiveUp, Rendered, ContentKinds, DegradedKinds
<1>. QED  BY <1>1, <1>2

LEMMA RenderNextInv == RenderInv /\ [RenderNext]_renderVars => RenderInv'
<1> SUFFICES ASSUME RenderInv, [RenderNext]_renderVars PROVE RenderInv'
  OBVIOUS
<1>0. ASSUME UNCHANGED <<open, contents, out, inHead, fence, pending, warnings>>, phase' = phase
      PROVE  RenderInv'
  BY <1>0 DEF RenderInv, RenderTypeOK, FenceInv, PhaseInv, NestInv, FillInv, Placed, Top
<1>1. ASSUME NEW element \in Elements, StartTag(element) PROVE RenderInv'
  BY <1>1, StartTagInv
<1>2. ASSUME NEW element \in Elements, EndTag(element) PROVE RenderInv'
  BY <1>2, EndTagInv
<1>3. CASE Text
  BY <1>3, TextInv
<1>4. CASE StartFence
  BY <1>4, StartFenceInv
<1>5. CASE EndFence
  BY <1>5, EndFenceInv
<1>6. CASE StartImage
  BY <1>6, StartImageInv
<1>7. CASE EndImage
  BY <1>7, EndImageInv
<1>8. CASE EndOfDocument
  BY <1>8 DEF EndOfDocument, RenderInv, RenderTypeOK, FenceInv, PhaseInv, NestInv, FillInv, Placed, Top
<1>9. CASE Measure
  BY <1>0, <1>9 DEF Measure
<1>10. CASE Screenshot
  BY <1>10, SubstituteInv DEF Screenshot, ContentKinds, DegradedKinds
<1>11. CASE MeasureFails \/ ScreenshotFails
  BY <1>11, GiveUpInv DEF MeasureFails, ScreenshotFails
<1>12. CASE Converted
  BY <1>12 DEF Converted, RenderInv, RenderTypeOK, FenceInv, PhaseInv, NestInv, FillInv, Placed, Top
<1>13. CASE UNCHANGED renderVars
  BY <1>0, <1>13 DEF renderVars
<1>. QED
  BY <1>1, <1>2, <1>3, <1>4, <1>5, <1>6, <1>7, <1>8, <1>9, <1>10, <1>11, <1>12, <1>13 DEF RenderNext

(* The tags that are open have the names of the open elements. *)
LEMMA FittingTagsNest == RenderInv => HtmlNests
<1> SUFFICES ASSUME RenderInv PROVE HtmlNests
  OBVIOUS
<1>1. /\ out \in Seq(ItemSet) /\ inHead \in BOOLEAN /\ (inHead <=> HasHead(open)) /\ open \in Seq(ElementSet)
  BY DEF RenderInv, RenderTypeOK, NestInv
<1>2. PICK t : TagsAfter(t, out) /\ t[Len(out)] = NamesOf(HtmlOf(open), inHead)
  BY DEF RenderInv, NestInv, TagsFit
<1>3. OpenTags(out) = NamesOf(HtmlOf(open), inHead)
  BY <1>1, <1>2, OpenTagsFold
<1>4. OpenInHtml = HtmlOf(open)
  BY DEF OpenInHtml, HtmlOf, Top, InnermostOf
<1>5. Contains(open, "head") <=> inHead
  BY <1>1 DEF Contains, HasHead
<1>6. \A element : TagOf(element) = NameOf(element, inHead)
  BY <1>5 DEF TagOf, NameOf, HtmlTag
<1>. QED  BY <1>3, <1>4, <1>6 DEF HtmlNests, NamesOf

(* When nothing waits for Chrome, what every item stands for is what it shows. *)
LEMMA AllIsShown == RenderInv => NothingVanishes
<1> SUFFICES ASSUME RenderInv, phase = "done"
             PROVE  /\ \A n \in 1..contents : \E k \in Shown : out[k].at = n
                    /\ \A i, k \in Shown : i < k => out[i].at < out[k].at
                    /\ \A k \in Shown :
                         /\ out[k].kind \in ContentKinds /\ out[k].at \in 1..contents
                         /\ out[k].kind \in DegradedKinds <=> out[k].at \in warnings
  BY DEF NothingVanishes
<1>1. open = <<>> /\ pending = <<>> /\ Top # "fence"
  BY DEF RenderInv, PhaseInv, Top
<1>2. Placed = 1..contents
  BY <1>1, PlacedFacts
<1>3. Shown = ShownIn(out) /\ DOMAIN pending = {}
  BY <1>1 DEF Shown, ShownIn
<1>4. Filled(out, pending, Placed, warnings) /\ out \in Seq(ItemSet)
  BY DEF RenderInv, FillInv, RenderTypeOK
<1>5. \A k \in Shown : out[k].kind # "placeholder"
  BY <1>3, <1>4 DEF Filled, StandsFor
<1>6. \A k \in Shown : \A n : StandsFor(out, pending, k, n) <=> out[k].at = n
  BY <1>5 DEF StandsFor
<1>7. \A k \in Shown : out[k].kind \in ContentKinds
  <2> TAKE k \in Shown
  <2>1. out[k] \in ItemSet /\ IsContent(out[k])
    BY <1>4 DEF Shown
  <2>. QED  BY <1>5, <2>1 DEF ItemSet, IsContent
<1>8. \A k \in Shown : out[k].at \in 1..contents
  BY <1>2, <1>3, <1>4, <1>6 DEF Filled
<1>9. \A n \in 1..contents : \E k \in Shown : out[k].at = n
  BY <1>2, <1>3, <1>4, <1>6 DEF Filled
<1>10. \A i, k \in Shown : i < k => out[i].at < out[k].at
  BY <1>2, <1>3, <1>4, <1>6, <1>8 DEF Filled
<1>11. \A k \in Shown : out[k].kind \in DegradedKinds <=> out[k].at \in warnings
  BY <1>3, <1>4, <1>5 DEF Filled
<1>. QED  BY <1>7, <1>8, <1>9, <1>10, <1>11

(* The inductive invariant of the renderer and of what fills its placeholders in: tags fit the
   open elements, and every item is some content or has its place in the queue. *)
THEOREM RenderInvariantHolds == RenderSpec => []RenderInv
  BY RenderInitInv, RenderNextInv, PTL DEF RenderSpec

(* For any document, the HTML nests as the Markdown does, and cells are head cells in the head
   of a table only (render.rs, start and end). *)
THEOREM TheHtmlNests == RenderSpec => []HtmlNests
  BY RenderInvariantHolds, FittingTagsNest, PTL

(* For any document and whichever of Chrome's runs fail, each content is in the result, once
   and in order, and has a warning if it is not as it should be (diagram.rs, mod.rs). *)
THEOREM NothingIsLost == RenderSpec => []NothingVanishes
  BY RenderInvariantHolds, AllIsShown, PTL
================================================================================
