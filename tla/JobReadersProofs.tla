-------------------------- MODULE JobReadersProofs --------------------------
(***************************************************************************)
(* Theorems about the readers of a job's output, those that follow its     *)
(* stream and those that poll and wait, for every cap, channel, chunk and  *)
(* page, any number of readers and any sequence of disk errors.            *)
(***************************************************************************)
EXTENDS JobStream, JobPoll, BufferProofs, FiniteSetTheorems

----------------------------------------------------------------------------
(* The job. *)

LEMMA FeedTypes ==
  ASSUME FeedTypeOK, FeedInv
  PROVE  /\ BufferInv /\ total \in Nat /\ Len(events) \in Nat /\ DOMAIN events = 1..Len(events)
         /\ running \in BOOLEAN /\ enabled \in BOOLEAN /\ Len(events) <= total + 1
         /\ (Len(events) > total => producer = "done" /\ ~running)
         /\ (producer = "done" => Len(events) = total + 1)
<1>1. /\ BufferInv /\ total \in Nat /\ Len(events) \in Nat /\ DOMAIN events = 1..Len(events)
      /\ running \in BOOLEAN /\ enabled \in BOOLEAN
  BY DEF FeedTypeOK, FeedInv, BufferInv, BufferTypeOK
<1>2. /\ Len(events) = CASE producer = "pushed" -> total - 1
                         [] producer = "done"   -> total + 1
                         [] OTHER               -> total
      /\ producer \in {"idle", "pushed", "finishing", "done"}
  BY DEF FeedTypeOK, FeedInv
<1>3. running <=> producer \in {"idle", "pushed"}
  BY Zenon DEF FeedTypeOK, FeedInv
<1>4. /\ Len(events) <= total + 1 /\ (Len(events) > total => producer = "done")
      /\ (producer = "done" => Len(events) = total + 1)
  BY <1>1, <1>2
<1>. QED  BY <1>1, <1>3, <1>4

LEMMA FeedInitInv == FeedInit => FeedTypeOK /\ FeedInv
<1> SUFFICES ASSUME FeedInit PROVE FeedTypeOK /\ FeedInv
  OBVIOUS
<1>1. BufferInv /\ total = 0
  BY BufferInitInv DEF FeedInit, BufferInit
<1>2. running = TRUE /\ events = <<>> /\ producer = "idle"
  BY DEF FeedInit
<1>3. events \in Seq([kind : {"line", "finished"}, index : Nat]) /\ Len(events) = 0
      /\ DOMAIN events = {}
  BY <1>2
<1>4. FeedTypeOK
  BY <1>1, <1>2, <1>3 DEF FeedTypeOK, BufferInv
<1>5. running <=> producer \in {"idle", "pushed"}
  BY <1>2
<1>. QED  BY <1>1, <1>2, <1>3, <1>4, <1>5 DEF FeedInv, BufferInv

(* An event is sent behind the ones sent before. *)
LEMMA SendFacts ==
  ASSUME FeedTypeOK, NEW e \in [kind : {"line", "finished"}, index : Nat],
         events' = Append(events, e)
  PROVE  /\ events' \in Seq([kind : {"line", "finished"}, index : Nat])
         /\ Len(events') = Len(events) + 1 /\ DOMAIN events' = 1..(Len(events) + 1)
         /\ DOMAIN events = 1..Len(events) /\ Len(events) \in Nat
         /\ \A k \in 1..Len(events) : events'[k] = events[k]
         /\ events'[Len(events) + 1] = e
  BY DEF FeedTypeOK

(* What the job's own steps leave of the buffer, the state and the channel. *)
LEMMA ProduceFacts ==
  ASSUME FeedTypeOK, FeedInv, Produce
  PROVE  /\ FeedTypeOK' /\ FeedInv'
         /\ total' >= total /\ Len(events') >= Len(events) /\ producer # "done"
         /\ (enabled' => enabled) /\ (running' => running)
         /\ \A w, f : f \in Nat /\ Planned(disk, offsets, total, w, f)
                        => Planned(disk', offsets', total', w, f)
<1>1. /\ BufferInv /\ total \in Nat /\ Len(events) \in Nat /\ DOMAIN events = 1..Len(events)
      /\ enabled \in BOOLEAN
  BY FeedTypes
<1>2. CASE PushLine
  <2>1. /\ Push /\ producer = "idle" /\ producer' = "pushed"
        /\ running' = running /\ events' = events
    BY <1>2 DEF PushLine
  <2>2. BufferInv' /\ total' = total + 1
    BY <1>1, <2>1, PushInv DEF Push
  <2>3. enabled' => enabled
    BY <2>1 DEF Push, SpillAppend, SpillFails
  <2>4. FeedTypeOK'
    BY <2>1, <2>2 DEF FeedTypeOK, BufferInv
  <2>5. FeedInv'
    BY <1>1, <2>1, <2>2 DEF FeedInv, BufferInv
  <2>6. \A w, f : f \in Nat /\ Planned(disk, offsets, total, w, f)
                    => Planned(disk', offsets', total', w, f)
    BY <1>1, <2>1, PushKeepsPlanned
  <2>. QED  BY <1>1, <2>1, <2>2, <2>3, <2>4, <2>5, <2>6
<1>3. ASSUME ~PushLine
      PROVE  /\ UNCHANGED bufferVars /\ BufferTypeOK' /\ RingIsTail' /\ SpillIsIndexed'
  <2>1. UNCHANGED bufferVars
    BY <1>3 DEF Produce, SendLine, FinishState, SendFinished
  <2>. QED  BY <2>1, <1>1 DEF BufferInv, bufferVars, BufferTypeOK, RingIsTail, SpillIsIndexed,
                              FirstIndex
<1>4. CASE SendLine
  <2>1. /\ producer = "pushed" /\ producer' = "idle" /\ running' = running /\ ~PushLine
        /\ events' = Append(events, LineEvent(total - 1))
    BY <1>4 DEF SendLine, PushLine
  <2>2. Len(events) = total - 1
    BY <2>1 DEF FeedInv
  <2>3. LineEvent(total - 1) \in [kind : {"line", "finished"}, index : Nat]
    BY <1>1, <2>2 DEF LineEvent
  <2> DEFINE e == LineEvent(total - 1)
  <2>4. e = LineEvent(total - 1) /\ e \in [kind : {"line", "finished"}, index : Nat]
        /\ events' = Append(events, e)
    BY <2>1, <2>3
  <2> HIDE DEF e
  <2>5. /\ events' \in Seq([kind : {"line", "finished"}, index : Nat])
        /\ Len(events') = Len(events) + 1 /\ DOMAIN events' = 1..(Len(events) + 1)
        /\ \A k \in 1..Len(events) : events'[k] = events[k]
        /\ events'[Len(events) + 1] = e
    BY <2>4, SendFacts
  <2>6. FeedTypeOK'
    BY <1>3, <2>1, <2>5 DEF FeedTypeOK
  <2>7. \A k \in DOMAIN events' : events'[k] = IF k <= total THEN LineEvent(k - 1) ELSE Finished
    <3>1. \A k \in 1..Len(events) : events'[k] = IF k <= total THEN LineEvent(k - 1) ELSE Finished
      BY <1>1, <2>5 DEF FeedInv
    <3>2. events'[total] = LineEvent(total - 1)
      BY <1>1, <2>2, <2>4, <2>5
    <3>3. \A k \in DOMAIN events' : k \in 1..Len(events) \/ k = total
      BY <1>1, <2>2, <2>5
    <3>. QED  BY <1>1, <3>1, <3>2, <3>3
  <2>8. FeedInv'
    BY <1>1, <1>3, <2>1, <2>2, <2>5, <2>7 DEF FeedInv, bufferVars
  <2>. QED  BY <1>1, <1>3, <2>1, <2>5, <2>6, <2>8 DEF bufferVars
<1>5. CASE FinishState
  <2>1. /\ producer = "idle" /\ producer' = "finishing" /\ running' = FALSE /\ events' = events
        /\ ~PushLine
    BY <1>5 DEF FinishState, PushLine
  <2>2. FeedTypeOK'
    BY <1>3, <2>1 DEF FeedTypeOK
  <2>3. FeedInv'
    <3>1. running' <=> producer' \in {"idle", "pushed"}
      BY <2>1
    <3>. QED  BY <1>1, <1>3, <2>1, <3>1 DEF FeedInv, bufferVars
  <2>. QED  BY <1>1, <1>3, <2>1, <2>2, <2>3 DEF bufferVars
<1>6. CASE SendFinished
  <2>1. /\ producer = "finishing" /\ producer' = "done" /\ running' = running /\ ~PushLine
        /\ events' = Append(events, Finished)
    BY <1>6 DEF SendFinished, PushLine
  <2>2. Len(events) = total
    BY <2>1 DEF FeedInv
  <2> DEFINE e == Finished
  <2>4. e = Finished /\ e \in [kind : {"line", "finished"}, index : Nat]
        /\ events' = Append(events, e)
    BY <2>1 DEF Finished
  <2> HIDE DEF e
  <2>5. /\ events' \in Seq([kind : {"line", "finished"}, index : Nat])
        /\ Len(events') = Len(events) + 1 /\ DOMAIN events' = 1..(Len(events) + 1)
        /\ \A k \in 1..Len(events) : events'[k] = events[k]
        /\ events'[Len(events) + 1] = e
    BY <2>4, SendFacts
  <2>6. FeedTypeOK'
    BY <1>3, <2>1, <2>5 DEF FeedTypeOK
  <2>7. \A k \in DOMAIN events' : events'[k] = IF k <= total THEN LineEvent(k - 1) ELSE Finished
    <3>1. \A k \in 1..Len(events) : events'[k] = IF k <= total THEN LineEvent(k - 1) ELSE Finished
      BY <1>1, <2>5 DEF FeedInv
    <3>2. events'[total + 1] = Finished
      BY <1>1, <2>2, <2>4, <2>5
    <3>3. \A k \in DOMAIN events' : k \in 1..Len(events) \/ k = total + 1
      BY <1>1, <2>2, <2>5
    <3>. QED  BY <1>1, <3>1, <3>2, <3>3
  <2>8. FeedInv'
    BY <1>1, <1>3, <2>1, <2>2, <2>5, <2>7 DEF FeedInv, bufferVars
  <2>. QED  BY <1>1, <1>3, <2>1, <2>5, <2>6, <2>8 DEF bufferVars
<1>. QED  BY <1>2, <1>4, <1>5, <1>6 DEF Produce

(* A reader's step leaves the job as it is. *)
LEMMA FeedKept ==
  ASSUME FeedTypeOK, FeedInv, UNCHANGED feedVars
  PROVE  FeedTypeOK' /\ FeedInv'
  BY DEF feedVars, bufferVars, FeedTypeOK, FeedInv, BufferTypeOK, RingIsTail, SpillIsIndexed,
         FirstIndex

(* What the channel has next for a receiver. *)
LEMMA NextEvent ==
  ASSUME FeedTypeOK, FeedInv, NEW p \in Nat, HasEvent(p)
  PROVE  /\ p + 1 \in DOMAIN events
         /\ (events[p + 1].kind = "line" => p < total /\ events[p + 1].index = p)
         /\ (events[p + 1] = Finished => p = total /\ producer = "done")
<1>1. /\ total \in Nat /\ Len(events) \in Nat /\ DOMAIN events = 1..Len(events)
      /\ Len(events) <= total + 1 /\ (Len(events) > total => producer = "done")
  BY FeedTypes
<1>2. p + 1 \in DOMAIN events
  BY <1>1 DEF HasEvent
<1>3. events[p + 1] = IF p + 1 <= total THEN LineEvent(p + 1 - 1) ELSE Finished
  BY <1>2 DEF FeedInv
<1>4. p + 1 - 1 = p
  OBVIOUS
<1>5. CASE p + 1 <= total
  BY <1>1, <1>2, <1>3, <1>4, <1>5 DEF LineEvent, Finished
<1>6. CASE ~(p + 1 <= total)
  BY <1>1, <1>2, <1>3, <1>6 DEF Finished
<1>. QED  BY <1>5, <1>6

----------------------------------------------------------------------------
(* Streams. *)

(* The lines of a window have an order: they are without a hole. *)
LEMMA InOrderFacts ==
  ASSUME NEW a \in Nat, NEW b \in Int, NEW lines, lines = a..b
  PROVE  /\ InOrder(lines) \in Seq(Nat) /\ ToSet(InOrder(lines)) = lines
         /\ \A i, j \in DOMAIN InOrder(lines) : i < j => InOrder(lines)[i] < InOrder(lines)[j]
<1> DEFINE n == Cardinality(lines)
           f == [k \in 1..n |-> a + k - 1]
<1>1. n = IF a > b THEN 0 ELSE b - a + 1
  BY FS_Interval
<1>2. f \in [1..n -> lines]
  BY <1>1
<1>3. ToSet(f) = lines
  <2>1. \A x \in lines : x - a + 1 \in 1..n /\ f[x - a + 1] = x
    BY <1>1
  <2>2. \A k \in DOMAIN f : f[k] \in lines
    BY <1>2
  <2>. QED  BY <2>1, <2>2 DEF ToSet
<1>4. \A i, j \in DOMAIN f : i < j => f[i] < f[j]
  BY <1>1
<1>5. InOrder(lines) \in [1..n -> lines] /\ ToSet(InOrder(lines)) = lines
      /\ \A i, j \in DOMAIN InOrder(lines) : i < j => InOrder(lines)[i] < InOrder(lines)[j]
  BY <1>2, <1>3, <1>4 DEF InOrder
<1>6. InOrder(lines) \in Seq(Nat)
  <2>1. n \in Nat /\ lines \subseteq Nat
    BY <1>1
  <2>. QED  BY <1>5, <2>1
<1>. QED  BY <1>5, <1>6

(* A run of lines sent behind those before the cursor. *)
LEMMA SentOn ==
  ASSUME NEW old \in Seq(Nat), NEW new \in Seq(Nat), NEW c \in Nat, NEW d \in Nat,
         \A i \in DOMAIN old : old[i] < c,
         \A i, j \in DOMAIN old : i < j => old[i] < old[j],
         \A i, j \in DOMAIN new : i < j => new[i] < new[j],
         \A i \in DOMAIN new : new[i] >= c /\ new[i] < d, c <= d
  PROVE  /\ old \o new \in Seq(Nat)
         /\ \A i \in DOMAIN (old \o new) : (old \o new)[i] < d
         /\ \A i, j \in DOMAIN (old \o new) : i < j => (old \o new)[i] < (old \o new)[j]
         /\ ToSet(old \o new) = ToSet(old) \cup ToSet(new)
<1> DEFINE all == old \o new
           m == Len(old)
<1>1. /\ all \in Seq(Nat) /\ DOMAIN all = 1..(m + Len(new)) /\ m \in Nat /\ Len(new) \in Nat
      /\ DOMAIN old = 1..m /\ DOMAIN new = 1..Len(new)
      /\ \A i \in 1..(m + Len(new)) : all[i] = IF i <= m THEN old[i] ELSE new[i - m]
  OBVIOUS
<1> HIDE DEF all, m
<1>2. \A i \in DOMAIN all : \/ i \in DOMAIN old /\ all[i] = old[i]
                            \/ i - m \in DOMAIN new /\ all[i] = new[i - m] /\ i > m
  BY <1>1
<1>3. \A i \in DOMAIN old : i \in DOMAIN all /\ all[i] = old[i] /\ old[i] \in Nat
  BY <1>1
<1>4. \A i \in DOMAIN new : i + m \in DOMAIN all /\ all[i + m] = new[i] /\ new[i] \in Nat
  <2> TAKE i \in DOMAIN new
  <2>1. i \in Nat /\ i >= 1 /\ i <= Len(new) /\ new[i] \in Nat
    BY <1>1
  <2>2. i + m \in 1..(m + Len(new)) /\ ~(i + m <= m) /\ (i + m) - m = i
    BY <1>1, <2>1
  <2>. QED  BY <1>1, <2>1, <2>2
<1>5. ASSUME NEW i \in DOMAIN all
      PROVE  all[i] < d
  <2>1. CASE i \in DOMAIN old /\ all[i] = old[i]
    BY <1>3, <2>1
  <2>2. CASE i - m \in DOMAIN new /\ all[i] = new[i - m]
    BY <1>4, <2>2
  <2>. QED  BY <1>2, <2>1, <2>2
<1>6. ASSUME NEW i \in DOMAIN all, NEW j \in DOMAIN all, i < j
      PROVE  all[i] < all[j]
  <2>1. i \in Nat /\ j \in Nat
    BY <1>1
  <2>2. CASE j \in DOMAIN old /\ all[j] = old[j]
    <3>1. i \in DOMAIN old /\ all[i] = old[i]
      BY <1>1, <1>3, <1>6, <2>1, <2>2
    <3>. QED  BY <1>6, <2>2, <3>1
  <2>3. CASE j - m \in DOMAIN new /\ all[j] = new[j - m] /\ j > m
    <3>1. CASE i \in DOMAIN old /\ all[i] = old[i]
      BY <1>3, <1>4, <2>3, <3>1
    <3>2. CASE i - m \in DOMAIN new /\ all[i] = new[i - m] /\ i > m
      <4>1. i - m < j - m
        BY <1>1, <1>6, <2>1
      <4>. QED  BY <2>3, <3>2, <4>1
    <3>. QED  BY <1>2, <3>1, <3>2
  <2>. QED  BY <1>2, <2>2, <2>3
<1>7. ToSet(all) = ToSet(old) \cup ToSet(new)
  BY <1>2, <1>3, <1>4 DEF ToSet
<1>. QED  BY <1>1, <1>5, <1>6, <1>7 DEF all

(* One line sent behind them. *)
LEMMA SentOne ==
  ASSUME NEW old \in Seq(Nat), NEW x \in Nat, \A i \in DOMAIN old : old[i] < x,
         \A i, j \in DOMAIN old : i < j => old[i] < old[j]
  PROVE  /\ \A i \in DOMAIN Append(old, x) : Append(old, x)[i] < x + 1
         /\ \A i, j \in DOMAIN Append(old, x) : i < j => Append(old, x)[i] < Append(old, x)[j]
         /\ ToSet(Append(old, x)) = ToSet(old) \cup {x}
<1> DEFINE all == Append(old, x)
           m == Len(old)
<1>1. /\ DOMAIN all = 1..(m + 1) /\ m \in Nat /\ DOMAIN old = 1..m /\ all[m + 1] = x
      /\ \A i \in 1..m : all[i] = old[i] /\ old[i] \in Nat
  OBVIOUS
<1> HIDE DEF all, m
<1>2. \A i \in DOMAIN all : all[i] < x + 1 /\ (i = m + 1 \/ i \in DOMAIN old)
  BY <1>1
<1>3. \A i, j \in DOMAIN all : i < j => all[i] < all[j]
  <2> TAKE i, j \in DOMAIN all
  <2> HAVE i < j
  <2>1. i \in DOMAIN old
    BY <1>1
  <2>2. CASE j \in DOMAIN old
    BY <1>1, <2>1, <2>2
  <2>3. CASE j = m + 1
    BY <1>1, <2>1, <2>3
  <2>. QED  BY <1>2, <2>2, <2>3
<1>4. ToSet(all) = ToSet(old) \cup {x}
  <2>1. \A i \in DOMAIN all : all[i] \in ToSet(old) \cup {x}
    BY <1>1, <1>2 DEF ToSet
  <2>2. \A i \in DOMAIN old : i \in DOMAIN all /\ all[i] = old[i]
    BY <1>1
  <2>3. m + 1 \in DOMAIN all /\ all[m + 1] = x
    BY <1>1
  <2>. QED  BY <2>1, <2>2, <2>3 DEF ToSet
<1>. QED  BY <1>2, <1>3, <1>4 DEF all

(* The invariants, of one watcher. *)
Good(s) ==
  /\ \A i, j \in DOMAIN sent[s] : i < j => sent[s][i] < sent[s][j]
  /\ \A i \in DOMAIN sent[s] : sent[s][i] < cursor[s]
  /\ phase[s] # "replayed" /\ (phase[s] \in Replaying => cursor[s] <= boundary[s])
  /\ phase[s] \in {"replayRead", "resyncRead"} =>
       /\ Planned(disk, offsets, total, window[s], cursor[s]) /\ cursor[s] < window[s].next
       /\ phase[s] = "replayRead" => window[s].next <= boundary[s]
       /\ enabled => window[s].dropped = 0
  /\ phase[s] = "subscribed" => pos[s] <= total \/ ~running
  /\ phase[s] = "bounded" => pos[s] <= boundary[s] \/ ~running
  /\ phase[s] \in {"replay", "replayRead"} => pos[s] <= boundary[s] \/ ended[s]
  /\ phase[s] \in Following => ~ended[s]
  /\ phase[s] = "lagged" => pos[s] <= total
  /\ phase[s] \in {"resync", "resyncRead"} => pos[s] <= target[s]
  /\ phase[s] = "live" => pos[s] <= cursor[s]
  /\ phase[s] = "exited" /\ ~ended[s] => producer = "done" /\ cursor[s] = total

LEMMA GoodWatchers == IInv <=> TypeOK /\ FeedInv /\ \A s \in Watchers : Good(s)
  BY DEF IInv, SentInOrder, CursorInv, WindowInv, PlaceInv, Good

LEMMA GoodWatchersNext == IInv' <=> TypeOK' /\ FeedInv' /\ \A s \in Watchers : Good(s)'
  BY DEF IInv, SentInOrder, CursorInv, WindowInv, PlaceInv, Good

(* What the invariant says of a watcher's fields. *)
LEMMA WatcherTypes ==
  ASSUME IInv, NEW s \in Watchers
  PROVE  /\ FeedTypeOK /\ FeedInv /\ BufferInv /\ Good(s)
         /\ total \in Nat /\ Len(events) \in Nat /\ Len(events) <= total + 1
         /\ (Len(events) > total => producer = "done" /\ ~running)
         /\ running \in BOOLEAN /\ enabled \in BOOLEAN
         /\ phase[s] \in Phases /\ pos[s] \in 0..Len(events) /\ boundary[s] \in 0..total
         /\ target[s] \in 0..total /\ cursor[s] \in 0..total /\ told[s] \in 0..total
         /\ ended[s] \in BOOLEAN /\ announced[s] \in BOOLEAN /\ sent[s] \in Seq(Nat)
         /\ window[s] \in WindowSet
<1>1. TypeOK /\ FeedTypeOK /\ FeedInv /\ Good(s)
  BY GoodWatchers DEF TypeOK
<1>. QED  BY <1>1, FeedTypes DEF TypeOK

(* A step of one watcher is a matter of this watcher. *)
LEMMA OneWatcher ==
  ASSUME IInv, UNCHANGED feedVars, NEW s \in Watchers, TypeOK', Good(s)',
         \A q \in Watchers \ {s} :
           /\ phase'[q] = phase[q]
           /\ pos'[q] = pos[q]
           /\ boundary'[q] = boundary[q]
           /\ ended'[q] = ended[q]
           /\ cursor'[q] = cursor[q]
           /\ target'[q] = target[q]
           /\ window'[q] = window[q]
           /\ announced'[q] = announced[q]
           /\ sent'[q] = sent[q]
           /\ told'[q] = told[q]
  PROVE  IInv'
<1>1. FeedInv' /\ UNCHANGED <<disk, offsets, total, enabled, running, producer>>
  BY FeedKept, GoodWatchers DEF TypeOK, feedVars, bufferVars
<1>2. ASSUME NEW q \in Watchers \ {s}
      PROVE  Good(q)'
  <2>1. Good(q)
    BY GoodWatchers
  <2>. QED  BY <1>1, <2>1 DEF Good
<1>. QED  BY <1>1, <1>2, GoodWatchersNext

LEMMA SubscribeStep ==
  ASSUME IInv, NEW s \in Watchers, Subscribe(s)
  PROVE  IInv'
<1> USE DEF Subscribe, Become
<1>t. /\ FeedTypeOK /\ FeedInv /\ BufferInv /\ Good(s)
      /\ total \in Nat /\ Len(events) \in Nat /\ Len(events) <= total + 1
      /\ (Len(events) > total => producer = "done" /\ ~running)
      /\ running \in BOOLEAN /\ enabled \in BOOLEAN
      /\ phase[s] \in Phases /\ pos[s] \in 0..Len(events) /\ boundary[s] \in 0..total
      /\ target[s] \in 0..total /\ cursor[s] \in 0..total /\ told[s] \in 0..total
      /\ ended[s] \in BOOLEAN /\ announced[s] \in BOOLEAN /\ sent[s] \in Seq(Nat)
      /\ window[s] \in WindowSet
  BY WatcherTypes
<1>1. FeedTypeOK' /\ UNCHANGED feedVars
  BY <1>t, FeedKept
<1>u. UNCHANGED <<recent, total, enabled, offsets, spilledLen, disk, running, events, producer>>
  BY <1>1 DEF feedVars, bufferVars
<1>2. TypeOK'
  BY <1>t, <1>1, <1>u DEF IInv, TypeOK, Phases, Subscribed
<1>3. Good(s)'
  <2>1. /\ phase'[s] = "subscribed" /\ pos'[s] = Len(events) /\ sent' = sent /\ cursor' = cursor
        /\ boundary' = boundary /\ phase[s] = "new"
    BY DEF IInv, TypeOK, Subscribed
  <2>. QED  BY <1>t, <1>u, <2>1 DEF Good, Replaying, Following
<1>4. \A q \in Watchers \ {s} : phase'[q] = phase[q] /\ pos'[q] = pos[q]
  BY DEF IInv, TypeOK
<1>. QED  BY <1>1, <1>2, <1>3, <1>4, OneWatcher

LEMMA ReadBoundaryStep ==
  ASSUME IInv, NEW s \in Watchers, ReadBoundary(s)
  PROVE  IInv'
<1> USE DEF ReadBoundary, Become
<1>t. /\ FeedTypeOK /\ FeedInv /\ BufferInv /\ Good(s)
      /\ total \in Nat /\ Len(events) \in Nat /\ Len(events) <= total + 1
      /\ (Len(events) > total => producer = "done" /\ ~running)
      /\ running \in BOOLEAN /\ enabled \in BOOLEAN
      /\ phase[s] \in Phases /\ pos[s] \in 0..Len(events) /\ boundary[s] \in 0..total
      /\ target[s] \in 0..total /\ cursor[s] \in 0..total /\ told[s] \in 0..total
      /\ ended[s] \in BOOLEAN /\ announced[s] \in BOOLEAN /\ sent[s] \in Seq(Nat)
      /\ window[s] \in WindowSet
  BY WatcherTypes
<1>1. FeedTypeOK' /\ UNCHANGED feedVars
  BY <1>t, FeedKept
<1>u. UNCHANGED <<recent, total, enabled, offsets, spilledLen, disk, running, events, producer>>
  BY <1>1 DEF feedVars, bufferVars
<1>2. TypeOK'
  BY <1>t, <1>1, <1>u DEF IInv, TypeOK, Phases
<1>3. Good(s)'
  <2>1. /\ phase'[s] = "bounded" /\ boundary'[s] = total /\ sent' = sent /\ cursor' = cursor
        /\ pos' = pos /\ phase[s] = "subscribed"
    BY DEF IInv, TypeOK
  <2>. QED  BY <1>t, <1>u, <2>1 DEF Good, Replaying, Following
<1>4. \A q \in Watchers \ {s} : phase'[q] = phase[q] /\ boundary'[q] = boundary[q]
  BY DEF IInv, TypeOK
<1>. QED  BY <1>1, <1>2, <1>3, <1>4, OneWatcher

LEMMA ReadStateStep ==
  ASSUME IInv, NEW s \in Watchers, ReadState(s)
  PROVE  IInv'
<1> USE DEF ReadState, Become
<1>t. /\ FeedTypeOK /\ FeedInv /\ BufferInv /\ Good(s)
      /\ total \in Nat /\ Len(events) \in Nat /\ Len(events) <= total + 1
      /\ (Len(events) > total => producer = "done" /\ ~running)
      /\ running \in BOOLEAN /\ enabled \in BOOLEAN
      /\ phase[s] \in Phases /\ pos[s] \in 0..Len(events) /\ boundary[s] \in 0..total
      /\ target[s] \in 0..total /\ cursor[s] \in 0..total /\ told[s] \in 0..total
      /\ ended[s] \in BOOLEAN /\ announced[s] \in BOOLEAN /\ sent[s] \in Seq(Nat)
      /\ window[s] \in WindowSet
  BY WatcherTypes
<1>1. FeedTypeOK' /\ UNCHANGED feedVars
  BY <1>t, FeedKept
<1>u. UNCHANGED <<recent, total, enabled, offsets, spilledLen, disk, running, events, producer>>
  BY <1>1 DEF feedVars, bufferVars
<1>2. TypeOK'
  BY <1>t, <1>1, <1>u DEF IInv, TypeOK, Phases
<1>3. Good(s)'
  <2>1. /\ phase'[s] = "replay" /\ ended'[s] = ~running /\ sent' = sent /\ cursor' = cursor
        /\ pos' = pos /\ boundary' = boundary /\ phase[s] = "bounded"
    BY DEF IInv, TypeOK
  <2>. QED  BY <1>t, <1>u, <2>1 DEF Good, Replaying, Following
<1>4. \A q \in Watchers \ {s} : phase'[q] = phase[q] /\ ended'[q] = ended[q]
  BY DEF IInv, TypeOK
<1>. QED  BY <1>1, <1>2, <1>3, <1>4, OneWatcher

LEMMA ReplayDoneStep ==
  ASSUME IInv, NEW s \in Watchers, ReplayDone(s)
  PROVE  IInv'
<1> USE DEF ReplayDone, Become
<1>t. /\ FeedTypeOK /\ FeedInv /\ BufferInv /\ Good(s)
      /\ total \in Nat /\ Len(events) \in Nat /\ Len(events) <= total + 1
      /\ (Len(events) > total => producer = "done" /\ ~running)
      /\ running \in BOOLEAN /\ enabled \in BOOLEAN
      /\ phase[s] \in Phases /\ pos[s] \in 0..Len(events) /\ boundary[s] \in 0..total
      /\ target[s] \in 0..total /\ cursor[s] \in 0..total /\ told[s] \in 0..total
      /\ ended[s] \in BOOLEAN /\ announced[s] \in BOOLEAN /\ sent[s] \in Seq(Nat)
      /\ window[s] \in WindowSet
  BY WatcherTypes
<1>1. FeedTypeOK' /\ UNCHANGED feedVars
  BY <1>t, FeedKept
<1>u. UNCHANGED <<recent, total, enabled, offsets, spilledLen, disk, running, events, producer>>
  BY <1>1 DEF feedVars, bufferVars
<1>2. TypeOK'
  BY <1>t, <1>1, <1>u DEF IInv, TypeOK, Phases
<1>3. Good(s)'
  <2>1. phase[s] = "replay" /\ cursor[s] = boundary[s]
    BY <1>t DEF Good, Replaying
  <2>2. /\ phase'[s] = (IF ended[s] THEN "exited" ELSE "live") /\ cursor'[s] = cursor[s]
        /\ sent' = sent /\ pos' = pos /\ boundary' = boundary /\ ended' = ended
    BY <2>1 DEF IInv, TypeOK
  <2>. QED  BY <1>t, <1>u, <2>1, <2>2 DEF Good, Replaying, Following
<1>4. \A q \in Watchers \ {s} : phase'[q] = phase[q] /\ cursor'[q] = cursor[q]
  BY DEF IInv, TypeOK
<1>. QED  BY <1>1, <1>2, <1>3, <1>4, OneWatcher

(* A line of the channel is the one at the cursor, or went out already. *)
LEMMA RecvLineFacts ==
  ASSUME IInv, NEW s \in Watchers, RecvLine(s)
  PROVE  /\ pos[s] < total /\ events[pos[s] + 1].index = pos[s] /\ pos[s] + 1 <= Len(events)
         /\ phase[s] = "live" /\ pos[s] <= cursor[s] /\ ~ended[s]
<1>t. FeedTypeOK /\ FeedInv /\ Good(s) /\ Len(events) \in Nat /\ pos[s] \in 0..Len(events)
  BY WatcherTypes
<1>1. HasEvent(pos[s]) /\ events[pos[s] + 1].kind = "line" /\ phase[s] = "live" /\ pos[s] \in Nat
  BY <1>t DEF RecvLine
<1>2. pos[s] + 1 <= Len(events)
  BY <1>t, <1>1 DEF HasEvent
<1>. QED  BY <1>t, <1>1, <1>2, NextEvent DEF Good, Following

LEMMA RecvLineStep ==
  ASSUME IInv, NEW s \in Watchers, RecvLine(s)
  PROVE  IInv'
<1> USE DEF RecvLine, Become
<1>t. /\ FeedTypeOK /\ FeedInv /\ BufferInv /\ Good(s)
      /\ total \in Nat /\ Len(events) \in Nat /\ Len(events) <= total + 1
      /\ (Len(events) > total => producer = "done" /\ ~running)
      /\ running \in BOOLEAN /\ enabled \in BOOLEAN
      /\ phase[s] \in Phases /\ pos[s] \in 0..Len(events) /\ boundary[s] \in 0..total
      /\ target[s] \in 0..total /\ cursor[s] \in 0..total /\ told[s] \in 0..total
      /\ ended[s] \in BOOLEAN /\ announced[s] \in BOOLEAN /\ sent[s] \in Seq(Nat)
      /\ window[s] \in WindowSet
  BY WatcherTypes
<1>1. FeedTypeOK' /\ UNCHANGED feedVars
  BY <1>t, FeedKept
<1>u. UNCHANGED <<recent, total, enabled, offsets, spilledLen, disk, running, events, producer>>
  BY <1>1 DEF feedVars, bufferVars
<1>e. /\ pos[s] < total /\ events[pos[s] + 1].index = pos[s] /\ pos[s] + 1 <= Len(events)
      /\ phase[s] = "live" /\ pos[s] <= cursor[s] /\ ~ended[s]
  BY RecvLineFacts
<1>p. pos' = [pos EXCEPT ![s] = @ + 1] /\ UNCHANGED <<phase, boundary, ended, target, window, announced, told>>
  OBVIOUS
<1>2. CASE pos[s] < cursor[s]
  <2>0. sent' = sent /\ cursor' = cursor
    BY <1>e, <1>t, <1>2
  <2>1. TypeOK'
    BY <1>t, <1>1, <1>u, <1>e, <1>p, <2>0 DEF IInv, TypeOK
  <2>2. Good(s)'
    <3>1. pos'[s] = pos[s] + 1
      BY <1>p DEF IInv, TypeOK
    <3>. QED  BY <1>t, <1>u, <1>e, <1>p, <1>2, <2>0, <3>1 DEF Good, Replaying, Following
  <2>3. \A q \in Watchers \ {s} : pos'[q] = pos[q]
    BY <1>p DEF IInv, TypeOK
  <2>. QED  BY <1>1, <1>p, <2>0, <2>1, <2>2, <2>3, OneWatcher
<1>3. CASE pos[s] = cursor[s]
  <2>0. sent' = [sent EXCEPT ![s] = Append(@, pos[s])] /\ cursor' = [cursor EXCEPT ![s] = pos[s] + 1]
    BY <1>e, <1>t, <1>3
  <2>1. TypeOK'
    <3>1. sent' \in [Watchers -> Seq(Nat)]
      BY <1>t, <2>0 DEF IInv, TypeOK
    <3>2. cursor' \in [Watchers -> 0..total'] /\ pos' \in [Watchers -> 0..Len(events')]
      BY <1>t, <1>u, <1>e, <1>p, <2>0 DEF IInv, TypeOK
    <3>. QED  BY <1>t, <1>1, <1>u, <1>p, <3>1, <3>2 DEF IInv, TypeOK
  <2>2. Good(s)'
    <3>1. /\ pos'[s] = pos[s] + 1 /\ cursor'[s] = pos[s] + 1
          /\ sent'[s] = Append(sent[s], pos[s])
      BY <1>p, <2>0 DEF IInv, TypeOK
    <3>3. (\A i \in DOMAIN sent[s] : sent[s][i] < pos[s]) /\ pos[s] \in Nat
      BY <1>t, <1>3 DEF Good
    <3>2. sent[s] \in Seq(Nat) /\ \A i, j \in DOMAIN sent[s] : i < j => sent[s][i] < sent[s][j]
      BY <1>t DEF Good
    <3>7. /\ \A i \in DOMAIN Append(sent[s], pos[s]) : Append(sent[s], pos[s])[i] < pos[s] + 1
          /\ \A i, j \in DOMAIN Append(sent[s], pos[s]) :
               i < j => Append(sent[s], pos[s])[i] < Append(sent[s], pos[s])[j]
      BY <3>2, <3>3, SentOne
    <3>4. \A i \in DOMAIN sent'[s] : sent'[s][i] < cursor'[s]
      BY <3>1, <3>7
    <3>5. \A i, j \in DOMAIN sent'[s] : i < j => sent'[s][i] < sent'[s][j]
      BY <3>1, <3>7
    <3>6. pos'[s] <= cursor'[s] /\ phase'[s] = "live" /\ ~ended'[s]
      BY <1>p, <1>e, <3>1, <3>3
    <3>. QED  BY <3>4, <3>5, <3>6 DEF Good, Replaying, Following
  <2>3. \A q \in Watchers \ {s} : pos'[q] = pos[q] /\ sent'[q] = sent[q] /\ cursor'[q] = cursor[q]
    BY <1>p, <2>0 DEF IInv, TypeOK
  <2>. QED  BY <1>1, <1>p, <2>1, <2>2, <2>3, OneWatcher
<1>. QED  BY <1>e, <1>t, <1>2, <1>3

(* The end of the job comes behind its lines. *)
LEMMA RecvFinishedStep ==
  ASSUME IInv, NEW s \in Watchers, RecvFinished(s)
  PROVE  IInv'
<1> USE DEF RecvFinished, Become
<1>t. /\ FeedTypeOK /\ FeedInv /\ BufferInv /\ Good(s)
      /\ total \in Nat /\ Len(events) \in Nat /\ Len(events) <= total + 1
      /\ (Len(events) > total => producer = "done" /\ ~running)
      /\ running \in BOOLEAN /\ enabled \in BOOLEAN
      /\ phase[s] \in Phases /\ pos[s] \in 0..Len(events) /\ boundary[s] \in 0..total
      /\ target[s] \in 0..total /\ cursor[s] \in 0..total /\ told[s] \in 0..total
      /\ ended[s] \in BOOLEAN /\ announced[s] \in BOOLEAN /\ sent[s] \in Seq(Nat)
      /\ window[s] \in WindowSet
  BY WatcherTypes
<1>1. FeedTypeOK' /\ UNCHANGED feedVars
  BY <1>t, FeedKept
<1>u. UNCHANGED <<recent, total, enabled, offsets, spilledLen, disk, running, events, producer>>
  BY <1>1 DEF feedVars, bufferVars
<1>e. /\ pos[s] = total /\ producer = "done" /\ pos[s] + 1 <= Len(events)
      /\ phase[s] = "live" /\ pos[s] <= cursor[s] /\ ~ended[s]
  <2>1. HasEvent(pos[s]) /\ events[pos[s] + 1] = Finished /\ phase[s] = "live" /\ pos[s] \in Nat
    BY <1>t
  <2>2. pos[s] + 1 <= Len(events)
    BY <1>t, <2>1 DEF HasEvent
  <2>. QED  BY <1>t, <2>1, <2>2, NextEvent DEF Good, Following
<1>2. TypeOK'
  BY <1>t, <1>1, <1>u, <1>e DEF IInv, TypeOK, Phases
<1>3. Good(s)'
  <2>1. /\ phase'[s] = "exited" /\ sent' = sent /\ cursor' = cursor
        /\ ended' = ended
    BY DEF IInv, TypeOK
  <2>. QED  BY <1>t, <1>u, <1>e, <2>1 DEF Good, Replaying, Following
<1>4. \A q \in Watchers \ {s} : phase'[q] = phase[q] /\ pos'[q] = pos[q]
  BY DEF IInv, TypeOK
<1>. QED  BY <1>1, <1>2, <1>3, <1>4, OneWatcher

(* What was lost of the channel is in the buffer by now. *)
LEMMA RecvLaggedStep ==
  ASSUME IInv, NEW s \in Watchers, RecvLagged(s)
  PROVE  IInv'
<1> USE DEF RecvLagged, Become
<1>t. /\ FeedTypeOK /\ FeedInv /\ BufferInv /\ Good(s)
      /\ total \in Nat /\ Len(events) \in Nat /\ Len(events) <= total + 1
      /\ (Len(events) > total => producer = "done" /\ ~running)
      /\ running \in BOOLEAN /\ enabled \in BOOLEAN
      /\ phase[s] \in Phases /\ pos[s] \in 0..Len(events) /\ boundary[s] \in 0..total
      /\ target[s] \in 0..total /\ cursor[s] \in 0..total /\ told[s] \in 0..total
      /\ ended[s] \in BOOLEAN /\ announced[s] \in BOOLEAN /\ sent[s] \in Seq(Nat)
      /\ window[s] \in WindowSet
  BY WatcherTypes
<1>1. FeedTypeOK' /\ UNCHANGED feedVars
  BY <1>t, FeedKept
<1>u. UNCHANGED <<recent, total, enabled, offsets, spilledLen, disk, running, events, producer>>
  BY <1>1 DEF feedVars, bufferVars
<1>e. Resumed \in 0..Len(events) /\ Resumed <= total /\ phase[s] = "live" /\ ~ended[s]
  BY <1>t, BroadcastAssumption DEF Resumed, HasLagged, Good, Following
<1>2. TypeOK'
  BY <1>t, <1>1, <1>u, <1>e DEF IInv, TypeOK, Phases
<1>3. Good(s)'
  <2>1. /\ phase'[s] = "lagged" /\ sent' = sent /\ cursor' = cursor
        /\ ended' = ended /\ pos'[s] = Resumed
    BY DEF IInv, TypeOK
  <2>. QED  BY <1>t, <1>u, <1>e, <2>1 DEF Good, Replaying, Following
<1>4. \A q \in Watchers \ {s} : phase'[q] = phase[q] /\ pos'[q] = pos[q]
  BY DEF IInv, TypeOK
<1>. QED  BY <1>1, <1>2, <1>3, <1>4, OneWatcher

LEMMA ReadTargetStep ==
  ASSUME IInv, NEW s \in Watchers, ReadTarget(s)
  PROVE  IInv'
<1> USE DEF ReadTarget, Become
<1>t. /\ FeedTypeOK /\ FeedInv /\ BufferInv /\ Good(s)
      /\ total \in Nat /\ Len(events) \in Nat /\ Len(events) <= total + 1
      /\ (Len(events) > total => producer = "done" /\ ~running)
      /\ running \in BOOLEAN /\ enabled \in BOOLEAN
      /\ phase[s] \in Phases /\ pos[s] \in 0..Len(events) /\ boundary[s] \in 0..total
      /\ target[s] \in 0..total /\ cursor[s] \in 0..total /\ told[s] \in 0..total
      /\ ended[s] \in BOOLEAN /\ announced[s] \in BOOLEAN /\ sent[s] \in Seq(Nat)
      /\ window[s] \in WindowSet
  BY WatcherTypes
<1>1. FeedTypeOK' /\ UNCHANGED feedVars
  BY <1>t, FeedKept
<1>u. UNCHANGED <<recent, total, enabled, offsets, spilledLen, disk, running, events, producer>>
  BY <1>1 DEF feedVars, bufferVars
<1>e. phase[s] = "lagged" /\ pos[s] <= total /\ ~ended[s]
  BY <1>t DEF Good, Following
<1>2. TypeOK'
  BY <1>t, <1>1, <1>u, <1>e DEF IInv, TypeOK, Phases
<1>3. Good(s)'
  <2>1. /\ phase'[s] = "resync" /\ sent' = sent /\ cursor' = cursor
        /\ ended' = ended /\ pos' = pos /\ target'[s] = total
    BY DEF IInv, TypeOK
  <2>. QED  BY <1>t, <1>u, <1>e, <2>1 DEF Good, Replaying, Following
<1>4. \A q \in Watchers \ {s} : phase'[q] = phase[q] /\ target'[q] = target[q]
  BY DEF IInv, TypeOK
<1>. QED  BY <1>1, <1>2, <1>3, <1>4, OneWatcher

LEMMA ResyncDoneStep ==
  ASSUME IInv, NEW s \in Watchers, ResyncDone(s)
  PROVE  IInv'
<1> USE DEF ResyncDone, Become
<1>t. /\ FeedTypeOK /\ FeedInv /\ BufferInv /\ Good(s)
      /\ total \in Nat /\ Len(events) \in Nat /\ Len(events) <= total + 1
      /\ (Len(events) > total => producer = "done" /\ ~running)
      /\ running \in BOOLEAN /\ enabled \in BOOLEAN
      /\ phase[s] \in Phases /\ pos[s] \in 0..Len(events) /\ boundary[s] \in 0..total
      /\ target[s] \in 0..total /\ cursor[s] \in 0..total /\ told[s] \in 0..total
      /\ ended[s] \in BOOLEAN /\ announced[s] \in BOOLEAN /\ sent[s] \in Seq(Nat)
      /\ window[s] \in WindowSet
  BY WatcherTypes
<1>1. FeedTypeOK' /\ UNCHANGED feedVars
  BY <1>t, FeedKept
<1>u. UNCHANGED <<recent, total, enabled, offsets, spilledLen, disk, running, events, producer>>
  BY <1>1 DEF feedVars, bufferVars
<1>2. TypeOK'
  BY <1>t, <1>1, <1>u DEF IInv, TypeOK, Phases
<1>3. Good(s)'
  <2>1. /\ phase'[s] = "live" /\ sent' = sent /\ cursor' = cursor
        /\ ended' = ended /\ pos' = pos
    BY DEF IInv, TypeOK
  <2>. QED  BY <1>t, <1>u, <2>1 DEF Good, Replaying, Following
<1>4. \A q \in Watchers \ {s} : phase'[q] = phase[q]
  BY DEF IInv, TypeOK
<1>. QED  BY <1>1, <1>2, <1>3, <1>4, OneWatcher

(* The next window of a replay or a resync makes progress, and stays within it. *)
LEMMA PlanReadFacts ==
  ASSUME IInv, NEW s \in Watchers, NEW end \in 0..total, NEW next, PlanRead(s, end, next)
  PROVE  /\ window' \in [Watchers -> WindowSet]
         /\ phase'[s] \in {"panicked", next} /\ phase' \in [Watchers -> Phases \cup {next}]
         /\ \A q \in Watchers \ {s} : phase'[q] = phase[q] /\ window'[q] = window[q]
         /\ phase'[s] = next /\ next # "panicked" =>
              /\ Planned(disk, offsets, total, window'[s], cursor[s])
              /\ cursor[s] < window'[s].next /\ window'[s].next <= end
              /\ enabled => window'[s].dropped = 0
<1>t. /\ BufferInv /\ total \in Nat /\ cursor[s] \in 0..total
      /\ window \in [Watchers -> WindowSet] /\ phase \in [Watchers -> Phases]
  BY WatcherTypes DEF IInv, TypeOK
<1> DEFINE max == Least(end - cursor[s], Chunk)
           w == Plan(cursor[s], max)
<1>1. max \in Nat \ {0} /\ cursor[s] < end /\ max <= end - cursor[s]
  BY <1>t, ChunkAssumption DEF PlanRead, Least
<1>2. window' = [window EXCEPT ![s] = w] /\ window'[s] = w
  BY <1>t DEF PlanRead
<1>3. phase' = [phase EXCEPT ![s] = IF w.panics THEN "panicked" ELSE next]
  BY <1>2 DEF PlanRead, Become
<1>4. w.panics \in BOOLEAN /\ (w.panics => w \in WindowSet)
  BY DEF Plan, PlanPanic, Window, WindowSet
<1>5. ASSUME ~w.panics
      PROVE  /\ Planned(disk, offsets, total, w, cursor[s]) /\ w \in WindowSet
             /\ w.next = Least(cursor[s] + max, total) /\ (enabled => w.dropped = 0)
  <2>1. /\ Planned(disk, offsets, total, w, cursor[s])
        /\ w.next = Least(cursor[s] + max, total) /\ (enabled => w.dropped = 0)
    BY <1>t, <1>1, <1>5, PlanPlanned
  <2>. QED  BY <2>1 DEF Planned
<1> HIDE DEF w
<1>6. ASSUME ~w.panics
      PROVE  cursor[s] < w.next /\ w.next <= end
  <2>1. w.next = Least(cursor[s] + max, total)
    BY <1>5, <1>6
  <2> HIDE DEF max
  <2>. QED  BY <2>1, <1>t, <1>1 DEF Least
<1> HIDE DEF max
<1>7. window' \in [Watchers -> WindowSet]
  BY <1>t, <1>2, <1>4, <1>5
<1>8. phase'[s] = (IF w.panics THEN "panicked" ELSE next) /\ phase' \in [Watchers -> Phases \cup {next}]
  BY <1>t, <1>3 DEF Phases
<1>. QED  BY <1>t, <1>2, <1>3, <1>4, <1>5, <1>6, <1>7, <1>8

(* What is read of it goes out behind what went out before. *)
LEMMA SendReadFacts ==
  ASSUME IInv, NEW s \in Watchers, phase[s] \in {"replayRead", "resyncRead"},
         NEW again, NEW stop, SendRead(s, again, stop)
  PROVE  /\ sent' \in [Watchers -> Seq(Nat)]
         /\ cursor' = [cursor EXCEPT ![s] = window[s].next] /\ window[s].next <= total
         /\ phase' = [phase EXCEPT ![s] = again]
         /\ \A q \in Watchers \ {s} : sent'[q] = sent[q]
         /\ \A i \in DOMAIN sent'[s] : sent'[s][i] < window[s].next
         /\ \A i, j \in DOMAIN sent'[s] : i < j => sent'[s][i] < sent'[s][j]
         /\ ~ReadMayFail =>
              ToSet(sent'[s]) = ToSet(sent[s]) \cup
                                (Most(cursor[s], window[s].dropped)..(window[s].next - 1))
<1> DEFINE w == window[s]
<1>t. /\ BufferInv /\ total \in Nat /\ cursor[s] \in 0..total /\ sent \in [Watchers -> Seq(Nat)]
      /\ Good(s) /\ cursor[s] < w.next /\ Planned(disk, offsets, total, w, cursor[s])
      /\ w.next \in Nat /\ w.next <= total
  BY WatcherTypes DEF IInv, TypeOK, Good, Planned, WindowSet
<1>1. PICK lines \in LinesRead(w) : sent' = [sent EXCEPT ![s] = @ \o InOrder(lines)]
  BY DEF SendRead
<1>2. cursor' = [cursor EXCEPT ![s] = w.next] /\ phase' = [phase EXCEPT ![s] = again]
  BY <1>t DEF SendRead, Become
<1>3. PICK first \in Nat : first >= cursor[s] /\ lines = first..(w.next - 1)
  BY <1>t, <1>1, ReadPlanned
<1>4. ~ReadMayFail => lines = Most(cursor[s], w.dropped)..(w.next - 1)
  BY <1>t, <1>1, ReadPlanned
<1> DEFINE new == InOrder(lines)
<1>5. /\ new \in Seq(Nat) /\ ToSet(new) = lines
      /\ \A i, j \in DOMAIN new : i < j => new[i] < new[j]
  <2>1. first \in Nat /\ w.next - 1 \in Int /\ lines = first..(w.next - 1)
    BY <1>3, <1>t
  <2> HIDE DEF w
  <2>. QED  BY <2>1, InOrderFacts
<1>6. \A i \in DOMAIN new : new[i] >= cursor[s] /\ new[i] < w.next
  <2>1. \A i \in DOMAIN new : new[i] \in lines
    BY <1>5 DEF ToSet
  <2>. QED  BY <2>1, <1>3, <1>t
<1>7. sent'[s] = sent[s] \o new /\ \A q \in Watchers \ {s} : sent'[q] = sent[q]
  BY <1>1, <1>t
<1> HIDE DEF new, w
<1>8. /\ \A i \in DOMAIN sent[s] : sent[s][i] < cursor[s]
      /\ \A i, j \in DOMAIN sent[s] : i < j => sent[s][i] < sent[s][j]
      /\ sent[s] \in Seq(Nat) /\ cursor[s] \in Nat /\ cursor[s] <= w.next
  BY <1>t DEF Good
<1>9. /\ sent'[s] \in Seq(Nat)
      /\ \A i \in DOMAIN sent'[s] : sent'[s][i] < w.next
      /\ \A i, j \in DOMAIN sent'[s] : i < j => sent'[s][i] < sent'[s][j]
      /\ ToSet(sent'[s]) = ToSet(sent[s]) \cup lines
  BY <1>5, <1>6, <1>7, <1>8, <1>t, SentOn
<1>10. sent' \in [Watchers -> Seq(Nat)]
  BY <1>1, <1>t, <1>9, <1>7
<1>. QED  BY <1>2, <1>4, <1>7, <1>9, <1>10, <1>t DEF w


LEMMA ReplayPlanStep ==
  ASSUME IInv, NEW s \in Watchers, ReplayPlan(s)
  PROVE  IInv'
<1>t. /\ FeedTypeOK /\ FeedInv /\ Good(s) /\ total \in Nat /\ boundary[s] \in 0..total
      /\ target[s] \in 0..total /\ cursor[s] \in 0..total /\ told[s] \in 0..total
      /\ window[s] \in WindowSet
  BY WatcherTypes
<1>1. FeedTypeOK' /\ UNCHANGED feedVars
  BY <1>t, FeedKept DEF ReplayPlan
<1>u. UNCHANGED <<recent, total, enabled, offsets, spilledLen, disk, running, events, producer>>
  BY <1>1 DEF feedVars, bufferVars
<1>2. /\ phase[s] = "replay" /\ PlanRead(s, boundary[s], "replayRead")
      /\ UNCHANGED <<pos, boundary, ended, cursor, target, announced, sent, told>>
  BY DEF ReplayPlan
<1>3. /\ window' \in [Watchers -> WindowSet]
      /\ phase'[s] \in {"panicked", "replayRead"} /\ phase' \in [Watchers -> Phases]
      /\ \A q \in Watchers \ {s} : phase'[q] = phase[q] /\ window'[q] = window[q]
      /\ phase'[s] = "replayRead" =>
           /\ Planned(disk, offsets, total, window'[s], cursor[s])
           /\ cursor[s] < window'[s].next /\ window'[s].next <= boundary[s]
           /\ enabled => window'[s].dropped = 0
  <2>1. Phases \cup {"replayRead"} = Phases
    BY DEF Phases
  <2>. QED  BY <1>t, <1>2, <2>1, PlanReadFacts
<1>4. TypeOK'
  BY <1>1, <1>u, <1>2, <1>3 DEF IInv, TypeOK
<1>5. Good(s)'
  BY <1>t, <1>u, <1>2, <1>3 DEF Good, Replaying, Following
<1>. QED  BY <1>1, <1>2, <1>3, <1>4, <1>5, OneWatcher

LEMMA ResyncPlanStep ==
  ASSUME IInv, NEW s \in Watchers, ResyncPlan(s)
  PROVE  IInv'
<1>t. /\ FeedTypeOK /\ FeedInv /\ Good(s) /\ total \in Nat /\ boundary[s] \in 0..total
      /\ target[s] \in 0..total /\ cursor[s] \in 0..total /\ told[s] \in 0..total
      /\ window[s] \in WindowSet
  BY WatcherTypes
<1>1. FeedTypeOK' /\ UNCHANGED feedVars
  BY <1>t, FeedKept DEF ResyncPlan
<1>u. UNCHANGED <<recent, total, enabled, offsets, spilledLen, disk, running, events, producer>>
  BY <1>1 DEF feedVars, bufferVars
<1>2. /\ phase[s] = "resync" /\ PlanRead(s, target[s], "resyncRead")
      /\ UNCHANGED <<pos, boundary, ended, cursor, target, announced, sent, told>>
  BY DEF ResyncPlan
<1>3. /\ window' \in [Watchers -> WindowSet]
      /\ phase'[s] \in {"panicked", "resyncRead"} /\ phase' \in [Watchers -> Phases]
      /\ \A q \in Watchers \ {s} : phase'[q] = phase[q] /\ window'[q] = window[q]
      /\ phase'[s] = "resyncRead" =>
           /\ Planned(disk, offsets, total, window'[s], cursor[s])
           /\ cursor[s] < window'[s].next /\ window'[s].next <= target[s]
           /\ enabled => window'[s].dropped = 0
  <2>1. Phases \cup {"resyncRead"} = Phases
    BY DEF Phases
  <2>. QED  BY <1>t, <1>2, <2>1, PlanReadFacts
<1>4. TypeOK'
  BY <1>1, <1>u, <1>2, <1>3 DEF IInv, TypeOK
<1>5. Good(s)'
  BY <1>t, <1>u, <1>2, <1>3 DEF Good, Replaying, Following
<1>. QED  BY <1>1, <1>2, <1>3, <1>4, <1>5, OneWatcher

LEMMA ReplayReadStep ==
  ASSUME IInv, NEW s \in Watchers, ReplayRead(s)
  PROVE  IInv'
<1>t. /\ FeedTypeOK /\ FeedInv /\ Good(s) /\ total \in Nat /\ boundary[s] \in 0..total
      /\ target[s] \in 0..total /\ cursor[s] \in 0..total /\ told[s] \in 0..total
      /\ window[s] \in WindowSet
  BY WatcherTypes
<1>1. FeedTypeOK' /\ UNCHANGED feedVars
  BY <1>t, FeedKept DEF ReplayRead
<1>u. UNCHANGED <<recent, total, enabled, offsets, spilledLen, disk, running, events, producer>>
  BY <1>1 DEF feedVars, bufferVars
<1>2. /\ phase[s] = "replayRead" /\ UNCHANGED <<pos, boundary, ended, target, window>>
      /\ SendRead(s, "replay", "replayed")
  BY DEF ReplayRead
<1>3. /\ sent' \in [Watchers -> Seq(Nat)]
      /\ cursor' = [cursor EXCEPT ![s] = window[s].next] /\ window[s].next <= total
      /\ phase' = [phase EXCEPT ![s] = "replay"]
      /\ \A q \in Watchers \ {s} : sent'[q] = sent[q]
      /\ \A i \in DOMAIN sent'[s] : sent'[s][i] < window[s].next
      /\ \A i, j \in DOMAIN sent'[s] : i < j => sent'[s][i] < sent'[s][j]
  BY <1>2, SendReadFacts
<1>4. /\ told' \in [Watchers -> 0..total] /\ announced' \in [Watchers -> BOOLEAN]
      /\ \A q \in Watchers \ {s} : told'[q] = told[q] /\ announced'[q] = announced[q]
  <2>1. window[s].dropped \in Nat /\ window[s].dropped <= window[s].next /\ window[s].next \in Nat
    BY <1>t, <1>2 DEF Good, Planned, WindowSet
  <2>2. Most(told[s], window[s].dropped) \in 0..total
    BY <1>t, <1>3, <2>1 DEF Most
  <2>. QED  BY <2>2 DEF ReplayRead, Tell, IInv, TypeOK
<1>5. /\ cursor'[s] = window[s].next /\ phase'[s] = "replay"
      /\ \A q \in Watchers \ {s} : phase'[q] = phase[q] /\ cursor'[q] = cursor[q]
  BY <1>3 DEF IInv, TypeOK
<1>6. TypeOK'
  <2>1. window[s].next \in 0..total
    BY <1>t, <1>3 DEF WindowSet
  <2>2. cursor' \in [Watchers -> 0..total] /\ phase' \in [Watchers -> Phases]
    BY <1>3, <2>1 DEF IInv, TypeOK, Phases
  <2>. QED  BY <1>1, <1>u, <1>2, <1>3, <1>4, <2>2 DEF IInv, TypeOK
<1>7. Good(s)'
  <2>1. phase'[s] = "replay" /\ ~(phase'[s] \in {"replayRead", "resyncRead"})
    BY <1>5
  <2>2. /\ "replay" \in Replaying => cursor'[s] <= boundary'[s]
        /\ "replay" = "replay" => pos'[s] <= boundary'[s] \/ ended'[s]
        /\ "replay" \in Following => ~ended'[s] /\ pos'[s] <= target'[s]
    BY <1>t, <1>2, <1>5 DEF Good, Replaying, Following
  <2>. QED  BY <1>3, <1>5, <2>1, <2>2 DEF Good, Following
<1>. QED  BY <1>1, <1>2, <1>3, <1>4, <1>5, <1>6, <1>7, OneWatcher

LEMMA ResyncReadStep ==
  ASSUME IInv, NEW s \in Watchers, ResyncRead(s)
  PROVE  IInv'
<1>t. /\ FeedTypeOK /\ FeedInv /\ Good(s) /\ total \in Nat /\ boundary[s] \in 0..total
      /\ target[s] \in 0..total /\ cursor[s] \in 0..total /\ told[s] \in 0..total
      /\ window[s] \in WindowSet
  BY WatcherTypes
<1>1. FeedTypeOK' /\ UNCHANGED feedVars
  BY <1>t, FeedKept DEF ResyncRead
<1>u. UNCHANGED <<recent, total, enabled, offsets, spilledLen, disk, running, events, producer>>
  BY <1>1 DEF feedVars, bufferVars
<1>2. /\ phase[s] = "resyncRead" /\ UNCHANGED <<pos, boundary, ended, target, window>>
      /\ SendRead(s, "resync", "live")
  BY DEF ResyncRead
<1>3. /\ sent' \in [Watchers -> Seq(Nat)]
      /\ cursor' = [cursor EXCEPT ![s] = window[s].next] /\ window[s].next <= total
      /\ phase' = [phase EXCEPT ![s] = "resync"]
      /\ \A q \in Watchers \ {s} : sent'[q] = sent[q]
      /\ \A i \in DOMAIN sent'[s] : sent'[s][i] < window[s].next
      /\ \A i, j \in DOMAIN sent'[s] : i < j => sent'[s][i] < sent'[s][j]
  BY <1>2, SendReadFacts
<1>4. /\ told' \in [Watchers -> 0..total] /\ announced' \in [Watchers -> BOOLEAN]
      /\ \A q \in Watchers \ {s} : told'[q] = told[q] /\ announced'[q] = announced[q]
  <2>1. window[s].dropped \in Nat /\ window[s].dropped <= window[s].next /\ window[s].next \in Nat
    BY <1>t, <1>2 DEF Good, Planned, WindowSet
  <2>2. Most(told[s], window[s].dropped) \in 0..total
    BY <1>t, <1>3, <2>1 DEF Most
  <2>. QED  BY <2>2 DEF ResyncRead, Tell, IInv, TypeOK
<1>5. /\ cursor'[s] = window[s].next /\ phase'[s] = "resync"
      /\ \A q \in Watchers \ {s} : phase'[q] = phase[q] /\ cursor'[q] = cursor[q]
  BY <1>3 DEF IInv, TypeOK
<1>6. TypeOK'
  <2>1. window[s].next \in 0..total
    BY <1>t, <1>3 DEF WindowSet
  <2>2. cursor' \in [Watchers -> 0..total] /\ phase' \in [Watchers -> Phases]
    BY <1>3, <2>1 DEF IInv, TypeOK, Phases
  <2>. QED  BY <1>1, <1>u, <1>2, <1>3, <1>4, <2>2 DEF IInv, TypeOK
<1>7. Good(s)'
  <2>1. phase'[s] = "resync" /\ ~(phase'[s] \in {"replayRead", "resyncRead"})
    BY <1>5
  <2>2. /\ "resync" \in Replaying => cursor'[s] <= boundary'[s]
        /\ "resync" = "replay" => pos'[s] <= boundary'[s] \/ ended'[s]
        /\ "resync" \in Following => ~ended'[s] /\ pos'[s] <= target'[s]
    BY <1>t, <1>2, <1>5 DEF Good, Replaying, Following
  <2>. QED  BY <1>3, <1>5, <2>1, <2>2 DEF Good, Following
<1>. QED  BY <1>1, <1>2, <1>3, <1>4, <1>5, <1>6, <1>7, OneWatcher

(* The job goes on under its watchers. *)
LEMMA StreamProduceStep ==
  ASSUME IInv, Produce, UNCHANGED watcherVars
  PROVE  IInv'
<1>1. FeedTypeOK /\ FeedInv /\ TypeOK /\ Len(events) \in Nat /\ total \in Nat
  BY FeedTypes DEF IInv, TypeOK
<1>2. /\ FeedTypeOK' /\ FeedInv'
      /\ total' >= total /\ Len(events') >= Len(events) /\ producer # "done"
      /\ (enabled' => enabled) /\ (running' => running)
      /\ \A w, f : f \in Nat /\ Planned(disk, offsets, total, w, f)
                     => Planned(disk', offsets', total', w, f)
  BY <1>1, ProduceFacts
<1>3. total' \in Nat /\ Len(events') \in Nat
  BY <1>2, FeedTypes DEF FeedTypeOK, BufferTypeOK
<1>4. /\ phase' = phase /\ pos' = pos /\ boundary' = boundary /\ ended' = ended
      /\ cursor' = cursor /\ target' = target /\ window' = window /\ announced' = announced
      /\ sent' = sent /\ told' = told
  BY DEF watcherVars
<1>5. 0..total \subseteq 0..total' /\ 0..Len(events) \subseteq 0..Len(events')
  BY <1>1, <1>2, <1>3
<1>6. TypeOK'
  <2>1. /\ boundary \in [Watchers -> 0..total'] /\ target \in [Watchers -> 0..total']
        /\ cursor \in [Watchers -> 0..total'] /\ told \in [Watchers -> 0..total']
        /\ pos \in [Watchers -> 0..Len(events')]
    BY <1>1, <1>5 DEF TypeOK
  <2>. QED  BY <1>1, <1>2, <1>4, <2>1 DEF TypeOK
<1>7. ASSUME NEW s \in Watchers
      PROVE  Good(s)'
  <2>1. Good(s) /\ pos[s] \in Nat /\ boundary[s] \in Nat /\ cursor[s] \in Nat
    BY WatcherTypes
  <2>. QED  BY <1>1, <1>2, <1>3, <1>4, <2>1 DEF Good
<1>. QED  BY <1>2, <1>6, <1>7, GoodWatchersNext

LEMMA StreamInitInv == Init => IInv
<1> SUFFICES ASSUME Init PROVE IInv
  OBVIOUS
<1>1. FeedTypeOK /\ FeedInv /\ total = 0 /\ events = <<>>
  BY FeedInitInv DEF Init, FeedInit, BufferInit
<1>2. TypeOK
  <2>1. Len(events) = 0 /\ Window({}, 0, 0, 0, 0) \in WindowSet
    BY <1>1 DEF Window, WindowSet
  <2>. QED  BY <1>1, <2>1 DEF Init, TypeOK, Phases
<1>3. \A s \in Watchers : Good(s)
  BY DEF Init, Good, Replaying, Following
<1>. QED  BY <1>1, <1>2, <1>3, GoodWatchers

LEMMA StreamStutter == IInv /\ UNCHANGED vars => IInv'
<1> SUFFICES ASSUME IInv, UNCHANGED vars PROVE IInv'
  OBVIOUS
<1>1. UNCHANGED feedVars /\ UNCHANGED watcherVars
  BY DEF vars
<1>2. /\ phase' = phase /\ pos' = pos /\ boundary' = boundary /\ ended' = ended
      /\ cursor' = cursor /\ target' = target /\ window' = window /\ announced' = announced
      /\ sent' = sent /\ told' = told
  BY <1>1 DEF watcherVars
<1>3. UNCHANGED <<total, enabled, offsets, disk, running, events, producer>>
  BY <1>1 DEF feedVars, bufferVars
<1>4. TypeOK' /\ FeedInv'
  BY <1>1, <1>2, <1>3, FeedKept DEF IInv, TypeOK
<1>5. \A s \in Watchers : Good(s)'
  BY <1>2, <1>3, GoodWatchers DEF Good
<1>. QED  BY <1>4, <1>5, GoodWatchersNext

LEMMA StreamNextInv == IInv /\ [Next]_vars => IInv'
<1> SUFFICES ASSUME IInv, Next PROVE IInv'
  BY StreamStutter
<1>1. CASE Produce /\ UNCHANGED watcherVars
  BY <1>1, StreamProduceStep
<1>2. ASSUME NEW s \in Watchers, Watch(s)
      PROVE  IInv'
  BY <1>2, SubscribeStep, ReadBoundaryStep, ReadStateStep, ReplayPlanStep, ReplayReadStep,
     ReplayDoneStep, RecvLineStep, RecvFinishedStep, RecvLaggedStep, ReadTargetStep,
     ResyncPlanStep, ResyncReadStep, ResyncDoneStep DEF Watch
<1>3. CASE Rest
  BY <1>3, StreamStutter DEF Rest
<1>. QED  BY <1>1, <1>2, <1>3 DEF Next

THEOREM StreamInvariantHolds == Spec => []IInv
  BY StreamInitInv, StreamNextInv, PTL DEF Spec

(* Every watcher gets the lines in order and none twice, however replay, live
   events and resyncs overlap, and even if the spill file fails. *)
THEOREM StreamsAreInOrder == Spec => []SentInOrder
<1>1. IInv => SentInOrder
  BY DEF IInv
<1>. QED  BY <1>1, StreamInvariantHolds, PTL

----------------------------------------------------------------------------
(* Nothing is lost behind the back of a watcher. *)

(* What a step does to the lines a watcher was sent. *)
Grows(s) ==
  \/ /\ sent'[s] = sent[s] /\ cursor'[s] = cursor[s]
     /\ phase'[s] \in Following =>
          \/ phase[s] \in Following /\ boundary'[s] = boundary[s] /\ told'[s] = told[s]
          \/ cursor[s] = boundary'[s]
  \/ /\ phase[s] = "live" /\ boundary'[s] = boundary[s] /\ told'[s] = told[s]
     /\ cursor'[s] = cursor[s] + 1 /\ ToSet(sent'[s]) = ToSet(sent[s]) \cup {cursor[s]}
  \/ /\ phase[s] \in {"replayRead", "resyncRead"} /\ cursor'[s] = window[s].next
     /\ ToSet(sent'[s]) = ToSet(sent[s]) \cup
                          (Most(cursor[s], window[s].dropped)..(window[s].next - 1))
     /\ phase'[s] \in Following =>
          /\ phase[s] = "resyncRead" /\ boundary'[s] = boundary[s]
          /\ told'[s] = Most(told[s], window[s].dropped)

(* Once spilling has failed it stays so. *)
LEMMA SpillingStops == IInv /\ [Next]_vars => (enabled' => enabled)
<1>1. ASSUME NEW q \in Watchers, Watch(q)
      PROVE  UNCHANGED feedVars
  BY <1>1 DEF Watch, Subscribe, ReadBoundary, ReadState, ReplayPlan, ReplayRead, ReplayDone,
              RecvLine, RecvFinished, RecvLagged, ReadTarget, ResyncPlan, ResyncRead,
              ResyncDone
<1>. QED  BY <1>1, ProduceFacts DEF Next, Rest, vars, feedVars, bufferVars, IInv, TypeOK

LEMMA StepsGrow ==
  ASSUME ~ReadMayFail, IInv, [Next]_vars, NEW s \in Watchers
  PROVE  Grows(s)
<1>t. /\ FeedTypeOK /\ FeedInv /\ Good(s) /\ sent[s] \in Seq(Nat) /\ cursor[s] \in 0..total
      /\ pos[s] \in 0..Len(events) /\ total \in Nat
  BY WatcherTypes
<1>d. /\ phase \in [Watchers -> Phases] /\ boundary \in [Watchers -> 0..total]
      /\ cursor \in [Watchers -> 0..total] /\ told \in [Watchers -> 0..total]
      /\ sent \in [Watchers -> Seq(Nat)]
  BY DEF IInv, TypeOK
<1>1. CASE UNCHANGED watcherVars /\ (Produce \/ UNCHANGED feedVars)
  <2>1. phase' = phase /\ boundary' = boundary /\ cursor' = cursor /\ told' = told /\ sent' = sent
    BY <1>1 DEF watcherVars
  <2>. QED  BY <2>1 DEF Grows
<1>3. ASSUME NEW q \in Watchers, Watch(q), q # s
      PROVE  Grows(s)
  <2>1. /\ phase'[s] = phase[s] /\ boundary'[s] = boundary[s] /\ cursor'[s] = cursor[s]
        /\ told'[s] = told[s] /\ sent'[s] = sent[s]
    BY <1>3, <1>d DEF Watch, Subscribe, ReadBoundary, ReadState, ReplayPlan, ReplayRead,
                      ReplayDone, RecvLine, RecvFinished, RecvLagged, ReadTarget, ResyncPlan,
                      ResyncRead, ResyncDone, PlanRead, SendRead, Tell, Become
  <2>. QED  BY <2>1 DEF Grows
<1>4. CASE Subscribe(s) \/ ReadBoundary(s) \/ ReadState(s) \/ ReplayPlan(s)
  <2>1. ~(phase'[s] \in Following) /\ cursor' = cursor /\ sent' = sent
    BY <1>4, <1>d DEF Subscribe, ReadBoundary, ReadState, ReplayPlan, PlanRead, Become, Following
  <2>. QED  BY <2>1 DEF Grows
<1>5. CASE RecvFinished(s) \/ RecvLagged(s) \/ ReadTarget(s) \/ ResyncPlan(s) \/ ResyncDone(s)
  <2>1. /\ phase[s] \in Following /\ cursor' = cursor /\ sent' = sent /\ told' = told
        /\ boundary' = boundary
    BY <1>5 DEF RecvFinished, RecvLagged, ReadTarget, ResyncPlan, ResyncDone, Following
  <2>. QED  BY <2>1 DEF Grows
<1>6. CASE ReplayDone(s)
  <2>1. cursor[s] = boundary[s] /\ cursor'[s] = boundary[s] /\ sent' = sent /\ boundary' = boundary
    BY <1>6, <1>t, <1>d DEF ReplayDone, Good, Replaying
  <2>. QED  BY <2>1 DEF Grows
<1>7. CASE RecvLine(s)
  <2>1. /\ events[pos[s] + 1].index = pos[s] /\ phase[s] = "live" /\ pos[s] <= cursor[s]
    BY <1>7, RecvLineFacts
  <2>2. boundary' = boundary /\ told' = told /\ phase' = phase
    BY <1>7 DEF RecvLine
  <2>3. CASE pos[s] < cursor[s]
    <3>1. sent' = sent /\ cursor' = cursor
      BY <1>7, <1>t, <2>1, <2>3 DEF RecvLine
    <3>. QED  BY <2>1, <2>2, <3>1 DEF Grows, Following
  <2>4. CASE pos[s] = cursor[s]
    <3>1. sent'[s] = Append(sent[s], cursor[s]) /\ cursor'[s] = cursor[s] + 1
      BY <1>7, <1>t, <1>d, <2>1, <2>4 DEF RecvLine
    <3>0. /\ sent[s] \in Seq(Nat) /\ cursor[s] \in Nat /\ \A i \in DOMAIN sent[s] : sent[s][i] < cursor[s]
          /\ \A i, j \in DOMAIN sent[s] : i < j => sent[s][i] < sent[s][j]
      BY <1>t DEF Good
    <3>2. ToSet(Append(sent[s], cursor[s])) = ToSet(sent[s]) \cup {cursor[s]}
      BY <3>0, SentOne
    <3>. QED  BY <2>1, <2>2, <3>1, <3>2 DEF Grows
  <2>. QED  BY <1>t, <2>1, <2>3, <2>4
<1>8. CASE ReplayRead(s)
  <2>1. phase[s] = "replayRead" /\ SendRead(s, "replay", "replayed")
    BY <1>8 DEF ReplayRead
  <2>2. /\ cursor'[s] = window[s].next /\ phase'[s] = "replay"
        /\ ToSet(sent'[s]) = ToSet(sent[s]) \cup
                             (Most(cursor[s], window[s].dropped)..(window[s].next - 1))
    BY <1>d, <2>1, SendReadFacts
  <2>. QED  BY <2>1, <2>2 DEF Grows, Following
<1>9. CASE ResyncRead(s)
  <2>1. /\ phase[s] = "resyncRead" /\ SendRead(s, "resync", "live") /\ boundary' = boundary
        /\ told'[s] = Most(told[s], window[s].dropped)
    BY <1>9, <1>d DEF ResyncRead, Tell
  <2>2. /\ cursor'[s] = window[s].next /\ phase'[s] = "resync"
        /\ ToSet(sent'[s]) = ToSet(sent[s]) \cup
                             (Most(cursor[s], window[s].dropped)..(window[s].next - 1))
    BY <1>d, <2>1, SendReadFacts
  <2>. QED  BY <2>1, <2>2 DEF Grows
<1>10. ASSUME NEW q \in Watchers, Watch(q)
       PROVE  Grows(s)
  BY <1>10, <1>3, <1>4, <1>5, <1>6, <1>7, <1>8, <1>9 DEF Watch
<1>11. CASE UNCHANGED vars \/ Rest
  BY <1>11, <1>1 DEF vars, Rest
<1>12. CASE Produce /\ UNCHANGED watcherVars
  BY <1>12, <1>1
<1>. QED  BY <1>10, <1>11, <1>12 DEF Next

(* While nothing is dropped, what went out is all that is behind the cursor. *)
LEMMA AllSentStep ==
  ASSUME ~ReadMayFail, IInv, AllSent, [Next]_vars
  PROVE  AllSent'
<1> SUFFICES ASSUME NEW s \in Watchers, enabled'
             PROVE  ToSet(sent'[s]) = 0..(cursor'[s] - 1)
  BY DEF AllSent
<1>1. Grows(s) /\ enabled /\ ToSet(sent[s]) = 0..(cursor[s] - 1) /\ cursor[s] \in Nat /\ Good(s)
  BY StepsGrow, SpillingStops, WatcherTypes DEF AllSent
<1>2. CASE cursor'[s] = cursor[s] + 1 /\ ToSet(sent'[s]) = ToSet(sent[s]) \cup {cursor[s]}
  BY <1>1, <1>2
<1>3. CASE /\ phase[s] \in {"replayRead", "resyncRead"} /\ cursor'[s] = window[s].next
           /\ ToSet(sent'[s]) = ToSet(sent[s]) \cup
                                (Most(cursor[s], window[s].dropped)..(window[s].next - 1))
  <2>1. window[s].dropped = 0 /\ window[s].next > cursor[s] /\ window[s].next \in Nat
    BY <1>1, <1>3 DEF Good, Planned, WindowSet
  <2>2. Most(cursor[s], 0) = cursor[s]
    BY <1>1 DEF Most
  <2>. QED  BY <1>1, <1>3, <2>1, <2>2
<1>. QED  BY <1>1, <1>2, <1>3 DEF Grows

(* A watcher that saw the job end has its whole output, if nothing was dropped
   and the spill file can be read back. *)
THEOREM FollowersHaveAll ==
  ASSUME ~ReadMayFail
  PROVE  Spec => []FollowedToTheEnd
<1>1. Init => AllSent
  <2> SUFFICES ASSUME Init, NEW s \in Watchers PROVE ToSet(sent[s]) = 0..(cursor[s] - 1)
    BY DEF AllSent
  <2>1. sent[s] = <<>> /\ cursor[s] = 0
    BY DEF Init
  <2>2. ToSet(<<>>) = {} /\ 0..(0 - 1) = {}
    BY DEF ToSet
  <2>. QED  BY <2>1, <2>2
<1>2. IInv /\ AllSent /\ [Next]_vars => AllSent'
  BY AllSentStep
<1>3. IInv /\ AllSent => FollowedToTheEnd
  BY DEF IInv, PlaceInv, AllSent, FollowedToTheEnd
<1>. QED  BY <1>1, <1>2, <1>3, StreamInvariantHolds, PTL DEF Spec

(* A watcher that lags is sent what the buffer still has and told of the rest. *)
THEOREM LagIsTold ==
  ASSUME ~ReadMayFail
  PROVE  Spec => []LagLossIsTold
<1>1. Init => LagToldInv
  BY DEF Init, LagToldInv, Following
<1>2. ASSUME IInv, LagToldInv, [Next]_vars
      PROVE  LagToldInv'
  <2> SUFFICES ASSUME NEW s \in Watchers, phase'[s] \in Following,
                      NEW i \in boundary'[s]..(cursor'[s] - 1)
               PROVE  i \in ToSet(sent'[s]) \/ i < told'[s]
    BY DEF LagToldInv
  <2>1. /\ Grows(s) /\ cursor[s] \in Nat /\ told[s] \in Nat /\ boundary[s] \in Nat /\ Good(s)
    BY <1>2, StepsGrow, WatcherTypes
  <2>2. /\ phase[s] \in Following /\ i \in boundary[s]..(cursor[s] - 1)
          => i \in ToSet(sent[s]) \/ i < told[s]
    BY <1>2 DEF LagToldInv
  <2>3. CASE /\ sent'[s] = sent[s] /\ cursor'[s] = cursor[s]
             /\ \/ phase[s] \in Following /\ boundary'[s] = boundary[s] /\ told'[s] = told[s]
                \/ cursor[s] = boundary'[s]
    BY <2>1, <2>2, <2>3
  <2>4. CASE /\ phase[s] = "live" /\ boundary'[s] = boundary[s] /\ told'[s] = told[s]
             /\ cursor'[s] = cursor[s] + 1 /\ ToSet(sent'[s]) = ToSet(sent[s]) \cup {cursor[s]}
    BY <2>1, <2>2, <2>4 DEF Following
  <2>5. CASE /\ phase[s] = "resyncRead" /\ cursor'[s] = window[s].next /\ boundary'[s] = boundary[s]
             /\ told'[s] = Most(told[s], window[s].dropped)
             /\ ToSet(sent'[s]) = ToSet(sent[s]) \cup
                                  (Most(cursor[s], window[s].dropped)..(window[s].next - 1))
    <3>1. window[s].dropped \in Nat /\ window[s].next \in Nat
      BY <2>1, <2>5 DEF Good, Planned, WindowSet
    <3>2. told'[s] >= told[s] /\ told'[s] >= window[s].dropped /\ told'[s] \in Nat /\ i \in Nat
      BY <2>1, <2>5, <3>1 DEF Most
    <3>3. CASE i < cursor[s]
      BY <2>1, <2>2, <2>5, <3>2, <3>3 DEF Following
    <3>4. CASE i >= cursor[s] /\ i >= window[s].dropped
      <4>1. i \in Most(cursor[s], window[s].dropped)..(window[s].next - 1)
        BY <2>1, <2>5, <3>1, <3>2, <3>4 DEF Most
      <4>. QED  BY <2>5, <4>1
    <3>. QED  BY <2>1, <3>1, <3>2, <3>3, <3>4
  <2>. QED  BY <2>1, <2>3, <2>4, <2>5 DEF Grows
<1>3. LagToldInv => LagLossIsTold
  BY DEF LagToldInv, LagLossIsTold, Following
<1>. QED  BY <1>1, <1>2, <1>3, StreamInvariantHolds, PTL DEF Spec

----------------------------------------------------------------------------
(* Polls. *)

(* PlannedInv, of one client. *)
Served(c) ==
  request[c] \in {"reading", "read", "respond"} =>
    /\ Planned(disk, offsets, total, planned[c], from[c])
    /\ enabled => planned[c].dropped = 0
    /\ why[c] = "finished" => over[c]
    /\ over[c] => /\ producer \in {"finishing", "done"}
                  /\ planned[c].next = Least(from[c] + Page, total)

LEMMA ClientTypes ==
  ASSUME PollInv, NEW c \in Clients
  PROVE  /\ FeedTypeOK /\ FeedInv /\ BufferInv /\ Served(c)
         /\ total \in Nat /\ Len(events) \in Nat /\ enabled \in BOOLEAN
         /\ receiver[c] \in 0..Len(events) /\ from[c] \in 0..total /\ planned[c] \in WindowSet
         /\ request \in [Clients -> RequestPhases] /\ receiver \in [Clients -> 0..Len(events)]
         /\ from \in [Clients -> 0..total] /\ planned \in [Clients -> WindowSet]
         /\ why \in [Clients -> {"request", "event", "budget", "finished"}]
         /\ found \in [Clients -> SUBSET (0..(total - 1))] /\ over \in [Clients -> BOOLEAN]
<1>1. PollTypeOK /\ FeedTypeOK /\ FeedInv /\ Served(c)
  BY DEF PollInv, PollTypeOK, PlannedInv, Served
<1>. QED  BY <1>1, FeedTypes DEF PollTypeOK

LEMMA OneClient ==
  ASSUME PollInv, UNCHANGED feedVars, NEW c \in Clients, PollTypeOK', Served(c)',
         \A d \in Clients \ {c} : /\ request'[d] = request[d] /\ from'[d] = from[d]
                                  /\ planned'[d] = planned[d] /\ why'[d] = why[d]
                                  /\ over'[d] = over[d]
  PROVE  PollInv'
<1>1. FeedInv' /\ UNCHANGED <<disk, offsets, total, enabled, running, producer>>
  BY FeedKept DEF PollInv, PollTypeOK, feedVars, bufferVars
<1>2. ASSUME NEW d \in Clients \ {c}
      PROVE  Served(d)'
  <2>1. Served(d)
    BY DEF PollInv, PlannedInv, Served
  <2>. QED  BY <1>1, <2>1 DEF Served
<1>3. PlannedInv'
  BY <1>2 DEF PlannedInv, Served
<1>. QED  BY <1>1, <1>3 DEF PollInv

(* A window planned for a client. *)
LEMMA StartReadStep ==
  ASSUME PollInv, NEW c \in Clients, NEW reason \in {"request", "event", "budget", "finished"},
         StartRead(c, reason), UNCHANGED <<feedVars, from, found>>,
         receiver' \in [Clients -> 0..Len(events)], reason = "finished" => ~running
  PROVE  PollInv'
<1>t. /\ FeedTypeOK /\ FeedInv /\ BufferInv /\ Served(c) /\ total \in Nat
      /\ from[c] \in 0..total /\ request \in [Clients -> RequestPhases]
      /\ from \in [Clients -> 0..total] /\ planned \in [Clients -> WindowSet]
      /\ why \in [Clients -> {"request", "event", "budget", "finished"}]
      /\ found \in [Clients -> SUBSET (0..(total - 1))] /\ over \in [Clients -> BOOLEAN]
  BY ClientTypes
<1>u. /\ FeedTypeOK' /\ from' = from /\ found' = found
      /\ UNCHANGED <<recent, total, enabled, offsets, spilledLen, disk, running, events, producer>>
  BY <1>t, FeedKept DEF feedVars, bufferVars
<1> DEFINE w == Plan(from[c], Page)
<1>1. planned' = [planned EXCEPT ![c] = w] /\ planned'[c] = w
  BY <1>t DEF StartRead
<1>2. request' = [request EXCEPT ![c] = IF w.panics THEN "panicked" ELSE "reading"]
  BY <1>1 DEF StartRead, Goes
<1>3. why' = [why EXCEPT ![c] = reason] /\ over' = [over EXCEPT ![c] = ~running]
  BY DEF StartRead
<1>4. w.panics \in BOOLEAN /\ (w.panics => w \in WindowSet)
  BY DEF Plan, PlanPanic, Window, WindowSet
<1>5. ASSUME ~w.panics
      PROVE  /\ Planned(disk, offsets, total, w, from[c]) /\ w \in WindowSet
             /\ w.next = Least(from[c] + Page, total) /\ (enabled => w.dropped = 0)
  <2>1. /\ Planned(disk, offsets, total, w, from[c])
        /\ w.next = Least(from[c] + Page, total) /\ (enabled => w.dropped = 0)
    BY <1>t, <1>5, PlanPlanned, PageAssumption
  <2>. QED  BY <2>1 DEF Planned
<1> HIDE DEF w
<1>6. PollTypeOK'
  BY <1>t, <1>u, <1>1, <1>2, <1>3, <1>4, <1>5 DEF PollTypeOK, RequestPhases
<1>7. Served(c)'
  <2>1. CASE w.panics
    <3>1. request'[c] = "panicked"
      BY <1>t, <1>2, <2>1
    <3>. QED  BY <3>1 DEF Served
  <2>2. CASE ~w.panics
    <3>1. why'[c] = reason /\ over'[c] = ~running
      BY <1>t, <1>3
    <3>2. ~running => producer \in {"finishing", "done"}
      BY <1>t DEF FeedTypeOK, FeedInv
    <3>. QED  BY <1>u, <1>1, <1>5, <2>2, <3>1, <3>2 DEF Served
  <2>. QED  BY <2>1, <2>2
<1>8. \A d \in Clients \ {c} : /\ request'[d] = request[d] /\ from'[d] = from[d]
                               /\ planned'[d] = planned[d] /\ why'[d] = why[d]
                               /\ over'[d] = over[d]
  BY <1>t, <1>u, <1>1, <1>2, <1>3
<1>. QED  BY <1>6, <1>7, <1>8, OneClient

LEMMA PollStep ==
  ASSUME PollInv, NEW c \in Clients, Poll(c) \/ BudgetSpent(c)
  PROVE  PollInv'
<1>t. /\ FeedTypeOK /\ FeedInv /\ Served(c) /\ total \in Nat /\ Len(events) \in Nat
      /\ receiver[c] \in 0..Len(events) /\ from[c] \in 0..total /\ planned[c] \in WindowSet
      /\ request \in [Clients -> RequestPhases] /\ receiver \in [Clients -> 0..Len(events)]
      /\ from \in [Clients -> 0..total] /\ planned \in [Clients -> WindowSet]
      /\ why \in [Clients -> {"request", "event", "budget", "finished"}]
      /\ found \in [Clients -> SUBSET (0..(total - 1))] /\ over \in [Clients -> BOOLEAN]
  BY ClientTypes
<1>u. UNCHANGED feedVars /\ FeedTypeOK'
      /\ UNCHANGED <<recent, total, enabled, offsets, spilledLen, disk, running, events, producer>>
  <2>1. UNCHANGED feedVars
    BY DEF Poll, OpenRequest, FirstRead, FinishRead, Decide, WakeOnLine, WakeOnFinished, Respond,
           BudgetSpent
  <2>. QED  BY <1>t, <2>1, FeedKept DEF feedVars, bufferVars
<1>1. CASE OpenRequest(c)
  <2>1. /\ receiver' = [receiver EXCEPT ![c] = Len(events)]
        /\ request' = [request EXCEPT ![c] = "subscribed"]
        /\ UNCHANGED <<from, planned, why, found, over>>
    BY <1>1 DEF OpenRequest, Goes, Subscribed
  <2>2. PollTypeOK'
    BY <1>t, <1>u, <2>1 DEF PollTypeOK, RequestPhases
  <2>3. Served(c)' /\ \A d \in Clients \ {c} : request'[d] = request[d]
    BY <1>t, <2>1 DEF Served
  <2>. QED  BY <1>u, <2>1, <2>2, <2>3, OneClient
<1>2. CASE FirstRead(c)
  BY <1>2, <1>t, StartReadStep DEF FirstRead
<1>3. CASE FinishRead(c)
  <2>1. /\ request[c] = "reading" /\ request' = [request EXCEPT ![c] = "read"]
        /\ UNCHANGED <<receiver, from, planned, why, over>>
    BY <1>3 DEF FinishRead, Goes
  <2>2. PICK lines \in LinesRead(planned[c]) : found' = [found EXCEPT ![c] = lines]
    BY <1>3 DEF FinishRead
  <2>3. lines \in SUBSET (0..(total - 1))
    <3>0. BufferInv /\ from[c] \in Nat
      BY <1>t, ClientTypes
    <3>1. Planned(disk, offsets, total, planned[c], from[c]) /\ from[c] \in Nat /\ BufferInv
      BY <1>t, <2>1, <3>0 DEF Served
    <3>2. \E first \in Nat : lines = first..(planned[c].next - 1)
      BY <2>2, <3>1, ReadPlanned
    <3>3. planned[c].next \in Nat /\ planned[c].next <= total
      BY <3>1 DEF Planned, WindowSet
    <3>. QED  BY <1>t, <3>2, <3>3
  <2>4. PollTypeOK'
    BY <1>t, <1>u, <2>1, <2>2, <2>3 DEF PollTypeOK, RequestPhases
  <2>5. Served(c)' /\ \A d \in Clients \ {c} : request'[d] = request[d]
    BY <1>t, <1>u, <2>1 DEF Served
  <2>. QED  BY <1>u, <2>1, <2>4, <2>5, OneClient
<1>4. CASE Decide(c)
  <2>1. /\ request[c] = "read" /\ UNCHANGED <<receiver, from, planned, why, found, over>>
        /\ request' = [request EXCEPT ![c] = IF WaitForMore(c) THEN "waiting" ELSE "respond"]
    BY <1>4 DEF Decide, Goes
  <2>2. PollTypeOK'
    BY <1>t, <1>u, <2>1 DEF PollTypeOK, RequestPhases
  <2>3. Served(c)' /\ \A d \in Clients \ {c} : request'[d] = request[d]
    BY <1>t, <1>u, <2>1 DEF Served
  <2>. QED  BY <1>u, <2>1, <2>2, <2>3, OneClient
<1>5. CASE WakeOnLine(c)
  <2>1. receiver' \in [Clients -> 0..Len(events)]
    <3>1. HasLagged(receiver[c]) => Resumed \in 0..Len(events)
      BY <1>t, BroadcastAssumption DEF HasLagged, Resumed
    <3>2. HasEvent(receiver[c]) => receiver[c] + 1 \in 0..Len(events)
      BY <1>t DEF HasEvent
    <3>. QED  BY <1>5, <1>t, <3>1, <3>2 DEF WakeOnLine
  <2>. QED  BY <1>5, <1>t, <2>1, StartReadStep DEF WakeOnLine
<1>6. CASE WakeOnFinished(c)
  <2>1. receiver' \in [Clients -> 0..Len(events)] /\ ~running
    <3>1. HasEvent(receiver[c]) /\ events[receiver[c] + 1] = Finished /\ receiver[c] \in Nat
      BY <1>6, <1>t DEF WakeOnFinished
    <3>2. receiver[c] + 1 \in 0..Len(events)
      BY <1>t, <3>1 DEF HasEvent
    <3>3. producer = "done"
      BY <1>t, <3>1, NextEvent
    <3>. QED  BY <1>6, <1>t, <3>1, <3>2, <3>3 DEF WakeOnFinished, FeedInv
  <2>. QED  BY <1>6, <1>t, <2>1, StartReadStep DEF WakeOnFinished
<1>7. CASE Respond(c)
  <2>1. /\ request[c] = "respond" /\ from' = [from EXCEPT ![c] = planned[c].next]
        /\ request' = [request EXCEPT ![c] = IF running THEN "idle" ELSE "stopped"]
        /\ UNCHANGED <<receiver, planned, why, found, over>>
    BY <1>7 DEF Respond, Goes
  <2>2. planned[c].next \in 0..total
    BY <1>t, <2>1 DEF Served, Planned, WindowSet
  <2>3. PollTypeOK'
    BY <1>t, <1>u, <2>1, <2>2 DEF PollTypeOK, RequestPhases
  <2>4. Served(c)' /\ \A d \in Clients \ {c} : request'[d] = request[d] /\ from'[d] = from[d]
    BY <1>t, <2>1 DEF Served
  <2>. QED  BY <1>u, <2>1, <2>3, <2>4, OneClient
<1>8. CASE BudgetSpent(c)
  BY <1>8, <1>t, StartReadStep DEF BudgetSpent
<1>. QED  BY <1>1, <1>2, <1>3, <1>4, <1>5, <1>6, <1>7, <1>8 DEF Poll

LEMMA PollProduceStep ==
  ASSUME PollInv, Produce, UNCHANGED clientVars
  PROVE  PollInv'
<1>1. FeedTypeOK /\ FeedInv /\ PollTypeOK /\ Len(events) \in Nat /\ total \in Nat
  BY FeedTypes DEF PollInv, PollTypeOK
<1>2. /\ FeedTypeOK' /\ FeedInv'
      /\ total' >= total /\ Len(events') >= Len(events) /\ producer # "done"
      /\ (enabled' => enabled)
      /\ \A w, f : f \in Nat /\ Planned(disk, offsets, total, w, f)
                     => Planned(disk', offsets', total', w, f)
  BY <1>1, ProduceFacts
<1>3. total' \in Nat /\ Len(events') \in Nat
  BY <1>2, FeedTypes DEF FeedTypeOK, BufferTypeOK
<1>4. /\ request' = request /\ receiver' = receiver /\ from' = from /\ planned' = planned
      /\ why' = why /\ found' = found /\ over' = over
  BY DEF clientVars
<1>5. /\ 0..total \subseteq 0..total' /\ 0..Len(events) \subseteq 0..Len(events')
      /\ 0..(total - 1) \subseteq 0..(total' - 1)
  <2>1. total <= total' /\ Len(events) <= Len(events')
    BY <1>2
  <2>2. \A a, b \in Nat : a <= b => 0..a \subseteq 0..b /\ 0..(a - 1) \subseteq 0..(b - 1)
    OBVIOUS
  <2>. QED  BY <1>1, <1>3, <2>1, <2>2
<1>6. PollTypeOK'
  <2>1. /\ from \in [Clients -> 0..total'] /\ receiver \in [Clients -> 0..Len(events')]
        /\ found \in [Clients -> SUBSET (0..(total' - 1))]
    BY <1>1, <1>5 DEF PollTypeOK
  <2>. QED  BY <1>1, <1>2, <1>4, <2>1 DEF PollTypeOK
<1>7. ASSUME NEW c \in Clients
      PROVE  Served(c)'
  <2>1. Served(c) /\ from[c] \in Nat
    BY ClientTypes
  <2>2. producer = "finishing" => total' = total /\ producer' = "done"
    BY DEF Produce, PushLine, SendLine, FinishState, SendFinished, bufferVars
  <2>. QED  BY <1>1, <1>2, <1>3, <1>4, <2>1, <2>2 DEF Served
<1>8. PlannedInv'
  BY <1>7 DEF PlannedInv, Served
<1>. QED  BY <1>2, <1>6, <1>8 DEF PollInv

LEMMA PollInitInv == PollInit => PollInv
<1> SUFFICES ASSUME PollInit PROVE PollInv
  OBVIOUS
<1>1. FeedTypeOK /\ FeedInv /\ total = 0 /\ events = <<>>
  BY FeedInitInv DEF PollInit, FeedInit, BufferInit
<1>2. PollTypeOK
  <2>1. Len(events) = 0 /\ Window({}, 0, 0, 0, 0) \in WindowSet
    BY <1>1 DEF Window, WindowSet
  <2>. QED  BY <1>1, <2>1 DEF PollInit, PollTypeOK, RequestPhases
<1>3. PlannedInv
  BY DEF PollInit, PlannedInv
<1>. QED  BY <1>1, <1>2, <1>3 DEF PollInv

LEMMA PollStutter == PollInv /\ UNCHANGED pollVars => PollInv'
<1> SUFFICES ASSUME PollInv, UNCHANGED pollVars PROVE PollInv'
  OBVIOUS
<1>1. /\ UNCHANGED feedVars /\ request' = request /\ receiver' = receiver /\ from' = from
      /\ planned' = planned /\ why' = why /\ found' = found /\ over' = over
  BY DEF pollVars, clientVars
<1>2. UNCHANGED <<total, enabled, offsets, disk, running, events, producer>>
  BY <1>1 DEF feedVars, bufferVars
<1>3. PollTypeOK' /\ FeedInv'
  BY <1>1, <1>2, FeedKept DEF PollInv, PollTypeOK
<1>4. PlannedInv'
  BY <1>1, <1>2 DEF PollInv, PlannedInv
<1>. QED  BY <1>3, <1>4 DEF PollInv

LEMMA PollNextInv == PollInv /\ [PollNext]_pollVars => PollInv'
  BY PollStep, PollProduceStep, PollStutter DEF PollNext, PollRest

THEOREM PollInvariantHolds == PollSpec => []PollInv
  BY PollInitInv, PollNextInv, PTL DEF PollSpec

(* A window read when the job was over has the lines that came with its end, however the
   request came to read it, if nothing was dropped and the spill file can be read back.
   Of a window read before the end nothing is said: it may lack lines although the
   response says that the job is over (StoppedHasAll). *)
THEOREM FinalLinesComeAlong ==
  ASSUME ~ReadMayFail
  PROVE  PollSpec => []FinalLinesCarried
<1>1. PollInit => FoundInv
  BY DEF PollInit, FoundInv
<1>2. ASSUME PollInv, FoundInv, [PollNext]_pollVars
      PROVE  FoundInv'
  <2> SUFFICES ASSUME NEW c \in Clients, request'[c] \in {"read", "respond"},
                      over'[c], enabled'
               PROVE  found'[c] = from'[c]..(planned'[c].next - 1)
    BY DEF FoundInv
  <2>t. /\ FeedTypeOK /\ FeedInv /\ Served(c) /\ from[c] \in 0..total /\ planned[c] \in WindowSet
        /\ request \in [Clients -> RequestPhases] /\ total \in Nat
        /\ from \in [Clients -> 0..total] /\ planned \in [Clients -> WindowSet]
        /\ why \in [Clients -> {"request", "event", "budget", "finished"}]
        /\ found \in [Clients -> SUBSET (0..(total - 1))] /\ BufferInv
        /\ over \in [Clients -> BOOLEAN]
    BY <1>2, ClientTypes
  <2>1. request[c] \in {"read", "respond"} /\ over[c] /\ enabled
          => found[c] = from[c]..(planned[c].next - 1)
    BY <1>2 DEF FoundInv
  <2>2. CASE UNCHANGED clientVars /\ (Produce \/ UNCHANGED feedVars)
    <3>1. enabled' => enabled
      BY <2>2, <2>t, ProduceFacts DEF feedVars, bufferVars
    <3>. QED  BY <2>1, <2>2, <3>1 DEF clientVars
  <2>3. ASSUME NEW d \in Clients, Poll(d) \/ BudgetSpent(d), d # c
        PROVE  found'[c] = from'[c]..(planned'[c].next - 1)
    <3>1. /\ request'[c] = request[c] /\ over'[c] = over[c] /\ found'[c] = found[c]
          /\ from'[c] = from[c] /\ planned'[c] = planned[c] /\ enabled' = enabled
      BY <2>t, <2>3 DEF Poll, OpenRequest, FirstRead, FinishRead, Decide, WakeOnLine,
                        WakeOnFinished, Respond, BudgetSpent, StartRead, Goes, feedVars, bufferVars
    <3>. QED  BY <2>1, <3>1
  <2>4. CASE OpenRequest(c) \/ FirstRead(c) \/ WakeOnLine(c) \/ WakeOnFinished(c) \/ Respond(c)
             \/ BudgetSpent(c)
    <3>1. request'[c] \in {"subscribed", "reading", "panicked", "idle", "stopped"}
      BY <2>t, <2>4 DEF OpenRequest, FirstRead, WakeOnLine, WakeOnFinished, Respond, BudgetSpent,
                        StartRead, Goes
    <3>. QED  BY <3>1
  <2>5. CASE FinishRead(c)
    <3>1. /\ request[c] = "reading" /\ from' = from /\ planned' = planned /\ over' = over
          /\ enabled' = enabled
      BY <2>5 DEF FinishRead, feedVars, bufferVars
    <3>2. PICK lines \in LinesRead(planned[c]) : found' = [found EXCEPT ![c] = lines]
      BY <2>5 DEF FinishRead
    <3>3. Planned(disk, offsets, total, planned[c], from[c]) /\ planned[c].dropped = 0 /\ from[c] \in Nat
      BY <2>t, <3>1 DEF Served
    <3>4. lines = Most(from[c], planned[c].dropped)..(planned[c].next - 1)
      BY <2>t, <3>2, <3>3, ReadPlanned
    <3>5. Most(from[c], 0) = from[c]
      BY <3>3 DEF Most
    <3>. QED  BY <2>t, <3>1, <3>2, <3>3, <3>4, <3>5
  <2>6. CASE Decide(c)
    <3>1. /\ request[c] = "read" /\ from' = from /\ planned' = planned /\ over' = over /\ found' = found /\ over' = over
          /\ enabled' = enabled
      BY <2>6 DEF Decide, feedVars, bufferVars
    <3>. QED  BY <2>1, <3>1
  <2>7. ASSUME NEW d \in Clients, Poll(d) \/ BudgetSpent(d)
        PROVE  found'[c] = from'[c]..(planned'[c].next - 1)
    BY <2>7, <2>3, <2>4, <2>5, <2>6 DEF Poll
  <2>8. CASE UNCHANGED pollVars \/ PollRest
    BY <2>8, <2>2 DEF pollVars, PollRest
  <2>9. CASE Produce /\ UNCHANGED clientVars
    BY <2>9, <2>2
  <2>. QED  BY <1>2, <2>7, <2>8, <2>9 DEF PollNext
<1>3. PollInv /\ FoundInv => FinalLinesCarried
  <2> SUFFICES ASSUME PollInv, FoundInv, NEW c \in Clients, request[c] = "respond",
                      over[c] \/ why[c] = "finished", enabled
               PROVE  found[c] = from[c]..(Least(from[c] + Page, total) - 1)
    BY DEF FinalLinesCarried
  <2>. QED  BY DEF PollInv, PlannedInv, FoundInv
<1>. QED  BY <1>1, <1>2, <1>3, PollInvariantHolds, PTL DEF PollSpec

=============================================================================
