------------------------- MODULE ReportQueueProofs -------------------------
(***************************************************************************)
(* Proofs about a report queue, for any number of readers, addresses and   *)
(* reports, any buffer and any timeout.                                    *)
(***************************************************************************)
EXTENDS ReportQueue, FiniteSetTheorems, FunctionTheorems, SequenceTheorems, TLAPS

Busy(d) == readers[d].report # 0

(* A reader without a report waits, and one with a report is at an address. *)
Typed ==
    /\ TypeOK
    /\ \A d \in Readers : (Busy(d) /\ readers[d].at # 0) \/ readers[d] = Waiting

(* The types of the constants.                                               *)
LEMMA ConstantTypes ==
    /\ Capacity \in Nat \ {0} /\ IsFiniteSet(Readers) /\ Readers # {}
    /\ Addresses \in Nat \ {0} /\ ReadTimeout \in Nat \ {0}
    /\ MaxReports \in Nat /\ MaxTime \in Nat
  BY ReportQueueAssumption

(* What is known of a reader's record. *)
LEMMA ReaderType ==
    ASSUME Typed, NEW d \in Readers
    PROVE  /\ readers[d].report \in 0 .. MaxReports /\ readers[d].at \in 0 .. Addresses
           /\ readers[d].since \in Nat
           /\ Busy(d) => readers[d].report \in Reports /\ readers[d].at \in 1 .. Addresses
           /\ ~Busy(d) <=> readers[d] = Waiting
<1>1. readers[d] \in Reader
  BY DEF Typed, TypeOK
<1>2. /\ readers[d].report \in 0 .. MaxReports /\ readers[d].at \in 0 .. Addresses
      /\ readers[d].since \in Nat
  BY <1>1 DEF Reader
<1>3. readers[d] = Waiting => ~Busy(d)
  BY DEF Waiting, Busy
<1>4. ~Busy(d) => readers[d] = Waiting
  BY DEF Typed
<1>5. Busy(d) => readers[d].at # 0
  BY <1>3 DEF Typed
<1>6. Busy(d) => readers[d].report \in Reports /\ readers[d].at \in 1 .. Addresses
  BY <1>2, <1>5, ConstantTypes DEF Busy, Reports
<1>7. QED
  BY <1>2, <1>3, <1>4, <1>6

(* A step of one reader replaces its record and no other. *)
LEMMA ReaderStep ==
    ASSUME Typed, NEW d \in Readers, NEW x \in Reader,
           (x.report # 0 /\ x.at # 0) \/ x = Waiting,
           readers' = [readers EXCEPT ![d] = x]
    PROVE  /\ readers' \in [Readers -> Reader]
           /\ readers'[d] = x
           /\ \A e \in Readers : e # d => readers'[e] = readers[e]
           /\ \A e \in Readers : (Busy(e)' /\ readers'[e].at # 0) \/ readers'[e] = Waiting
<1>1. readers \in [Readers -> Reader]
  BY DEF Typed, TypeOK
<1>2. readers' \in [Readers -> Reader] /\ readers'[d] = x
  BY <1>1
<1>3. \A e \in Readers : e # d => readers'[e] = readers[e]
  BY <1>1
<1>4. ASSUME NEW e \in Readers
      PROVE  (Busy(e)' /\ readers'[e].at # 0) \/ readers'[e] = Waiting
  <2>1. CASE e = d
    BY <1>2, <2>1 DEF Busy
  <2>2. CASE e # d
    BY <1>3, <2>2 DEF Typed, Busy
  <2>3. QED
    BY <2>1, <2>2
<1>5. QED
  BY <1>2, <1>3, <1>4

(* Taking the oldest report out moves every other report one place on. *)
LEMMA ReceiveStep ==
    ASSUME Typed, NEW d \in Readers, Receive(d)
    PROVE  /\ ~Busy(d) /\ Busy(d)'
           /\ Len(channel) \in Nat /\ Len(channel) # 0 /\ channel[1] \in Reports
           /\ readers'[d] = [report |-> channel[1], at |-> 1, since |-> now]
           /\ \A e \in Readers : e # d => readers'[e] = readers[e]
           /\ channel' \in Seq(Reports) /\ Len(channel') = Len(channel) - 1
           /\ \A i \in 1 .. Len(channel') : channel'[i] = channel[i + 1]
           /\ Typed'
<1> DEFINE x == [report |-> channel[1], at |-> 1, since |-> now]
<1>0. Typed /\ channel \in Seq(Reports) /\ channel # <<>> /\ Len(channel) <= Capacity /\ now \in Nat
  BY DEF Typed, TypeOK, Receive
<1>1. /\ Len(channel) \in Nat /\ Len(channel) # 0 /\ channel[1] = Head(channel)
      /\ Head(channel) \in Reports /\ Tail(channel) \in Seq(Reports)
      /\ Len(Tail(channel)) = Len(channel) - 1
      /\ \A i \in 1 .. Len(Tail(channel)) : Tail(channel)[i] = channel[i + 1]
  BY <1>0, HeadTailProperties, LenProperties, EmptySeq
<1>2. x \in Reader /\ x.report # 0 /\ x.at # 0
  BY <1>0, <1>1, ConstantTypes DEF Reader, Reports
<1>3. readers' = [readers EXCEPT ![d] = x] /\ channel' = Tail(channel)
  BY <1>1 DEF Receive
<1>4. ~Busy(d)
  BY DEF Receive, Waiting, Busy
<1> HIDE DEF x
<1>5. /\ readers' \in [Readers -> Reader] /\ readers'[d] = x
      /\ \A e \in Readers : e # d => readers'[e] = readers[e]
      /\ \A e \in Readers : (Busy(e)' /\ readers'[e].at # 0) \/ readers'[e] = Waiting
  BY <1>2, <1>3, ReaderStep
<1>6. UNCHANGED <<now, sent, dropped, pending, posted>>
  BY DEF Receive
<1>7. channel' \in Seq(Reports) /\ Len(channel') = Len(channel) - 1 /\ Len(channel') <= Capacity
  BY <1>0, <1>1, <1>3, ConstantTypes
<1>8. TypeOK'
  BY <1>0, <1>5, <1>6, <1>7 DEF Typed, TypeOK
<1>9. Busy(d)'
  BY <1>2, <1>5 DEF Busy
<1>10. QED
  BY <1>1, <1>3, <1>4, <1>5, <1>7, <1>8, <1>9 DEF Typed, x

(* A report that is accepted goes behind all others. *)
LEMMA SendStep ==
    ASSUME Typed, Send
    PROVE  /\ sent \in Nat /\ sent' = sent + 1 /\ sent' \in Reports
           /\ Len(channel) \in Nat /\ Len(channel) < Capacity
           /\ channel' \in Seq(Reports) /\ Len(channel') = Len(channel) + 1
           /\ \A i \in 1 .. Len(channel) : channel'[i] = channel[i]
           /\ channel'[Len(channel) + 1] = sent'
           /\ Typed'
<1>0. /\ channel \in Seq(Reports) /\ Len(channel) \in Nat /\ sent \in 0 .. MaxReports
      /\ pending \in [Reports -> Nat \cup {-1}] /\ now \in Nat
  BY LenProperties DEF Typed, TypeOK
<1>1. sent \in Nat /\ sent' = sent + 1 /\ sent' \in Reports
  BY <1>0, ConstantTypes DEF Send, Reports
<1>2. /\ channel' \in Seq(Reports) /\ Len(channel') = Len(channel) + 1
      /\ \A i \in 1 .. Len(channel) : channel'[i] = channel[i]
      /\ channel'[Len(channel) + 1] = sent'
  BY <1>0, <1>1, AppendProperties DEF Send
<1>3. pending' \in [Reports -> Nat \cup {-1}]
  BY <1>0, <1>1 DEF Send
<1>4. sent' \in 0 .. MaxReports /\ Len(channel') <= Capacity /\ Len(channel) < Capacity
  BY <1>0, <1>1, <1>2, ConstantTypes DEF Reports, Send
<1>5. UNCHANGED <<readers, now, dropped, posted>>
  BY DEF Send
<1>6. TypeOK'
  BY <1>2, <1>3, <1>4, <1>5 DEF Typed, TypeOK
<1>7. QED
  BY <1>0, <1>1, <1>2, <1>4, <1>5, <1>6 DEF Typed, Busy

(* A post is counted for one report and one address. *)
LEMMA PostStep ==
    ASSUME Typed, NEW d \in Readers, PostToNext(d) \/ PostToLast(d)
    PROVE  /\ Busy(d)
           /\ \A e \in Readers : e # d => readers'[e] = readers[e]
           /\ PostToNext(d) => /\ readers'[d].report = readers[d].report
                               /\ readers'[d].at = readers[d].at + 1
                               /\ readers'[d].since = now
           /\ PostToLast(d) => readers'[d] = Waiting
           /\ \A r \in Reports, i \in 1 .. Addresses :
                posted'[r][i] = IF r = readers[d].report /\ i = readers[d].at
                                THEN posted[r][i] + 1 ELSE posted[r][i]
           /\ UNCHANGED <<channel, now, sent, dropped>>
           /\ Typed'
<1> DEFINE r0 == readers[d].report
           i0 == readers[d].at
           next == [readers[d] EXCEPT !.at = i0 + 1, !.since = now]
           x == IF i0 = Addresses THEN Waiting ELSE next
<1>0. /\ TypeOK /\ readers \in [Readers -> Reader] /\ readers[d] \in Reader
      /\ posted \in [Reports -> [1 .. Addresses -> Nat]]
      /\ pending \in [Reports -> Nat \cup {-1}] /\ now \in Nat
  BY DEF Typed, TypeOK
<1>1. Busy(d) /\ r0 \in Reports /\ i0 \in 1 .. Addresses
  BY ReaderType DEF PostToNext, PostToLast, Busy
<1>2. /\ posted' \in [Reports -> [1 .. Addresses -> Nat]]
      /\ \A r \in Reports, i \in 1 .. Addresses :
           posted'[r][i] = IF r = r0 /\ i = i0 THEN posted[r][i] + 1 ELSE posted[r][i]
  <2>1. posted' = [posted EXCEPT ![r0] = [posted[r0] EXCEPT ![i0] = posted[r0][i0] + 1]]
    BY <1>0, <1>1 DEF PostToNext, PostToLast, Posted
  <2>2. posted[r0] \in [1 .. Addresses -> Nat] /\ posted[r0][i0] + 1 \in Nat
    <3>1. posted[r0] \in [1 .. Addresses -> Nat]
      BY <1>0, <1>1
    <3>2. posted[r0][i0] \in Nat
      BY <1>1, <3>1
    <3>3. QED
      BY <3>1, <3>2
  <2> DEFINE row == [posted[r0] EXCEPT ![i0] = posted[r0][i0] + 1]
  <2>3. /\ row \in [1 .. Addresses -> Nat] /\ row[i0] = posted[r0][i0] + 1
        /\ \A i \in 1 .. Addresses : i # i0 => row[i] = posted[r0][i]
    BY <1>1, <2>2
  <2> HIDE DEF row, r0, i0
  <2>4. posted' = [posted EXCEPT ![r0] = row]
    BY <2>1 DEF row
  <2>5. posted' \in [Reports -> [1 .. Addresses -> Nat]]
    BY <1>0, <1>1, <2>3, <2>4
  <2>6. posted'[r0] = row /\ \A r \in Reports : r # r0 => posted'[r] = posted[r]
    BY <1>0, <1>1, <2>4
  <2>7. QED
    BY <2>3, <2>5, <2>6
<1>3. x \in Reader
  <2>1. Waiting \in Reader
    BY ConstantTypes DEF Waiting, Reader
  <2>2. ASSUME i0 # Addresses PROVE i0 + 1 \in 0 .. Addresses
    BY <1>1, <2>2, ConstantTypes
  <2>3. ASSUME i0 # Addresses PROVE next \in Reader
    BY <1>0, <2>2, <2>3 DEF Reader
  <2>4. QED
    BY <2>1, <2>3
<1>3a. next.report = r0 /\ next.at = i0 + 1 /\ next.since = now
  BY <1>0 DEF Reader
<1>4. (x.report # 0 /\ x.at # 0) \/ x = Waiting
  BY <1>1, <1>3a, ConstantTypes DEF Busy
<1>5. PostToNext(d) => i0 # Addresses
  BY <1>1 DEF PostToNext
<1>6. readers' = [readers EXCEPT ![d] = x]
  <2>1. CASE PostToNext(d)
    <3>1. readers' = [readers EXCEPT ![d] = next]
      BY <1>0, <2>1 DEF PostToNext
    <3>2. QED
      BY <1>5, <2>1, <3>1
  <2>2. CASE PostToLast(d)
    BY <2>2 DEF PostToLast
  <2>3. QED
    BY <2>1, <2>2
<1>7. /\ readers' \in [Readers -> Reader] /\ readers'[d] = x
      /\ \A e \in Readers : e # d => readers'[e] = readers[e]
      /\ \A e \in Readers : (Busy(e)' /\ readers'[e].at # 0) \/ readers'[e] = Waiting
  BY <1>3, <1>4, <1>6, ReaderStep
<1>8. UNCHANGED <<channel, now, sent, dropped>>
  BY DEF PostToNext, PostToLast
<1>9. pending' \in [Reports -> Nat \cup {-1}]
  BY <1>0, <1>1 DEF PostToNext, PostToLast
<1>10. TypeOK'
  BY <1>0, <1>2, <1>7, <1>8, <1>9 DEF TypeOK
<1>11. Typed'
  BY <1>7, <1>10 DEF Typed
<1>12. PostToLast(d) => i0 = Addresses
  BY DEF PostToLast
<1>13. QED
  BY <1>1, <1>2, <1>5, <1>7, <1>8, <1>11, <1>12, <1>3a

(* The variables keep their types, and a reader with a report is at an       *)
(* address.                                                                  *)
THEOREM ReportQueueTyped == Spec => []Typed
<1>1. ASSUME Init PROVE Typed
  <2>1. Waiting \in Reader
    BY ConstantTypes DEF Waiting, Reader
  <2>2. /\ readers \in [Readers -> Reader]
        /\ \A d \in Readers : readers[d] = Waiting
    BY <1>1, <2>1 DEF Init
  <2>3. channel \in Seq(Reports) /\ Len(channel) <= Capacity
    BY <1>1, EmptySeq, ConstantTypes DEF Init
  <2>4. posted \in [Reports -> [1 .. Addresses -> Nat]]
    BY <1>1 DEF Init
  <2>5. sent \in 0 .. MaxReports /\ now \in Nat
    BY <1>1, ConstantTypes DEF Init
  <2>6. dropped \subseteq Reports /\ pending \in [Reports -> Nat \cup {-1}]
    BY <1>1 DEF Init
  <2>7. QED
    BY <2>2, <2>3, <2>4, <2>5, <2>6 DEF Typed, TypeOK
<1>2. Typed /\ [Next]_vars => Typed'
  <2> SUFFICES ASSUME Typed, [Next]_vars PROVE Typed'
    OBVIOUS
  <2>1. CASE Send
    BY <2>1, SendStep
  <2>2. CASE Drop
    <3>1. sent' \in 0 .. MaxReports /\ sent' \in Reports
      BY <2>2, ConstantTypes DEF Drop, Typed, TypeOK, Reports
    <3>2. QED
      BY <2>2, <3>1 DEF Drop, Typed, TypeOK, Busy
  <2>3. ASSUME NEW d \in Readers, Step(d) PROVE Typed'
    BY <2>3, ReceiveStep, PostStep DEF Step
  <2>4. CASE Tick
    BY <2>4 DEF Tick, Typed, TypeOK, Busy
  <2>5. CASE UNCHANGED vars
    BY <2>5 DEF vars, Typed, TypeOK, Busy
  <2>6. QED
    BY <2>1, <2>2, <2>3, <2>4, <2>5 DEF Next
<1>3. QED
  BY <1>1, <1>2, PTL DEF Spec

-----------------------------------------------------------------------------
(* Where a report is.  The channel is in the order of sending and has only   *)
(* reports that are later than all received ones, no two readers have the    *)
(* same report, and how often a report was posted follows from its place.    *)

Ordered == \A i, j \in 1 .. Len(channel) : i < j => channel[i] < channel[j]

Placed ==
    /\ Queued \subseteq Sent /\ Held \subseteq Sent /\ dropped \subseteq Sent
    /\ Queued \cap Held = {} /\ Queued \cap dropped = {} /\ Held \cap dropped = {}

OneReader ==
    \A d, e \in Readers : Busy(d) /\ readers[d].report = readers[e].report => d = e

Received == Sent \ (dropped \cup Queued)

FirstOut == \A s \in Received, r \in Queued : s < r

HeldPosted ==
    \A d \in Readers : Busy(d) =>
      \A i \in 1 .. Addresses :
        posted[readers[d].report][i] = IF i < readers[d].at THEN 1 ELSE 0

OthersPosted ==
    \A r \in Reports \ Held : \A i \in 1 .. Addresses :
      posted[r][i] = IF r \in Received THEN 1 ELSE 0

Placement == Ordered /\ Placed /\ OneReader /\ FirstOut /\ HeldPosted /\ OthersPosted

(* The held reports are those of the busy readers.                           *)
LEMMA HeldOrNot ==
    ASSUME Typed
    PROVE  /\ Held = {readers[d].report : d \in {e \in Readers : Busy(e)}}
           /\ \A d \in Readers : Busy(d) => readers[d].report \in Held
  BY DEF Held, Busy

(* What waits in the channel are reports.                                    *)
LEMMA QueuedReports ==
    ASSUME Typed
    PROVE  Queued \subseteq Reports /\ \A i \in 1 .. Len(channel) : channel[i] \in Queued
<1>1. channel \in Seq(Reports)
  BY DEF Typed, TypeOK
<1>2. QED
  BY <1>1, ElementOfSeq DEF Queued

(* The reports are numbered as they are sent.                                *)
LEMMA SentBound ==
    ASSUME Typed
    PROVE  Sent \subseteq Reports /\ Sent \subseteq Nat /\ sent \in Nat
  BY ConstantTypes DEF Typed, TypeOK, Sent, Reports

(* A report that is accepted is in the channel. *)
LEMMA SendMoves ==
    ASSUME Typed, Send
    PROVE  Queued' = Queued \cup {sent'} /\ Held' = Held
<1>1. /\ Len(channel) \in Nat /\ Len(channel') = Len(channel) + 1
      /\ \A i \in 1 .. Len(channel) : channel'[i] = channel[i]
      /\ channel'[Len(channel) + 1] = sent'
  BY SendStep
<1>2. 1 .. Len(channel') = (1 .. Len(channel)) \cup {Len(channel) + 1}
  BY <1>1
<1>3. Queued' = {channel'[i] : i \in 1 .. Len(channel')}
  BY DEF Queued
<1>4. Queued' = Queued \cup {sent'}
  BY <1>1, <1>2, <1>3 DEF Queued
<1>5. QED
  BY <1>4 DEF Send, Held

(* A received report moves from the channel to its reader. *)
LEMMA ReceiveMoves ==
    ASSUME Typed, Placement, NEW d \in Readers, Receive(d)
    PROVE  /\ channel[1] \in Queued
           /\ \A i \in 1 .. Len(channel') : channel[1] < channel'[i]
           /\ Queued' = Queued \ {channel[1]} /\ Held' = Held \cup {channel[1]}
<1> DEFINE h == channel[1]
<1>0. /\ ~Busy(d)
      /\ Len(channel) \in Nat /\ Len(channel) # 0 /\ h \in Reports
      /\ readers'[d] = [report |-> h, at |-> 1, since |-> now]
      /\ \A e \in Readers : e # d => readers'[e] = readers[e]
      /\ Len(channel') = Len(channel) - 1
      /\ \A i \in 1 .. Len(channel') : channel'[i] = channel[i + 1]
  BY ReceiveStep
<1>2. readers'[d].report = h
  BY <1>0
<1>3. h \in Queued
  BY <1>0, QueuedReports
<1>4. \A i \in 1 .. Len(channel') : h < channel'[i]
  BY <1>0 DEF Placement, Ordered
<1>5. Queued' = Queued \ {h}
  <2>1. \A r : r \in Queued' => r \in Queued
    <3>1. \A r : r \in Queued' => \E i \in 1 .. Len(channel') : r = channel'[i]
      BY DEF Queued
    <3>2. QED
      BY <1>0, <3>1 DEF Queued
  <2>2. h \notin Queued'
    <3>1. \A i \in 1 .. Len(channel') : channel'[i] # h
      BY <1>0, <1>4 DEF Reports
    <3>2. QED
      BY <3>1 DEF Queued
  <2>3. ASSUME NEW r \in Queued, r # h PROVE r \in Queued'
    <3>1. PICK i \in 1 .. Len(channel) : r = channel[i]
      BY DEF Queued
    <3>2. i - 1 \in 1 .. Len(channel') /\ i = (i - 1) + 1
      BY <1>0, <2>3, <3>1
    <3>3. channel'[i - 1] = r
      BY <1>0, <3>1, <3>2
    <3>4. QED
      BY <3>2, <3>3 DEF Queued
  <2>4. QED
    BY <1>3, <2>1, <2>2, <2>3
<1>6. Held' = Held \cup {h}
  <2>1. h # 0
    BY <1>0 DEF Reports
  <2>2. Held' = {readers'[e].report : e \in Readers} \ {0}
    BY DEF Held
  <2>3. readers[d].report = 0
    BY <1>0 DEF Busy
  <2>4. QED
    BY <1>0, <1>2, <2>1, <2>2, <2>3 DEF Held
<1>7. QED
  BY <1>3, <1>4, <1>5, <1>6

(* A report is with its reader until the last post. *)
LEMMA PostMoves ==
    ASSUME Typed, Placement, NEW d \in Readers, PostToNext(d) \/ PostToLast(d)
    PROVE  /\ Queued' = Queued
           /\ readers[d].report \in Held
           /\ PostToNext(d) => Held' = Held
           /\ PostToLast(d) => Held' = Held \ {readers[d].report}
<1> DEFINE r0 == readers[d].report
<1>0. /\ Busy(d) /\ r0 \in Reports
      /\ \A e \in Readers : e # d => readers'[e] = readers[e]
      /\ PostToNext(d) => readers'[d].report = r0
      /\ PostToLast(d) => readers'[d] = Waiting
      /\ channel' = channel
  BY PostStep, ReaderType
<1>1. Queued' = Queued /\ r0 \in Held
  BY <1>0, HeldOrNot DEF Queued
<1>2. \A e \in Readers : e # d /\ Busy(e) => readers[e].report # r0
  BY <1>0 DEF Placement, OneReader
<1>3. ASSUME PostToNext(d) PROVE Held' = Held
  <2>1. \A e \in Readers : readers'[e].report = readers[e].report
    BY <1>0, <1>3
  <2>2. QED
    BY <2>1 DEF Held
<1>4. ASSUME PostToLast(d) PROVE Held' = Held \ {r0}
  <2>1. readers'[d].report = 0
    BY <1>0, <1>4 DEF Waiting
  <2>2. \A e \in Readers : e # d => readers'[e].report = readers[e].report
                                 /\ readers'[e].report # r0
    BY <1>0, <1>2 DEF Busy, Reports
  <2>3. Held' = {readers'[e].report : e \in Readers} \ {0}
    BY DEF Held
  <2>4. QED
    BY <1>0, <2>1, <2>2, <2>3 DEF Held, Reports
<1>5. QED
  BY <1>1, <1>3, <1>4

(* A report that is accepted is the last one in the channel.                 *)
LEMMA PlacementSend ==
    ASSUME Typed, Placement, Send
    PROVE  Placement'
<1>0. /\ sent \in Nat /\ sent' = sent + 1 /\ sent' \in Reports
      /\ Len(channel) \in Nat /\ Len(channel') = Len(channel) + 1
      /\ \A i \in 1 .. Len(channel) : channel'[i] = channel[i]
      /\ channel'[Len(channel) + 1] = sent'
  BY SendStep
<1>1. UNCHANGED <<readers, dropped, posted>>
  BY DEF Send
<1>2. Sent' = Sent \cup {sent'} /\ sent' \notin Sent
  BY <1>0 DEF Sent
<1>3. Queued' = Queued \cup {sent'} /\ Held' = Held
  BY SendMoves
<1>5. \A r \in Sent : r < sent' /\ r \in Nat
  BY <1>0 DEF Sent
<1>6. Ordered'
  <2> SUFFICES ASSUME NEW i \in 1 .. Len(channel'), NEW j \in 1 .. Len(channel'), i < j
               PROVE  channel'[i] < channel'[j]
    BY DEF Ordered
  <2>1. i \in 1 .. Len(channel) /\ channel'[i] = channel[i] /\ channel[i] \in Sent
    BY <1>0, QueuedReports DEF Placement, Placed
  <2>2. CASE j \in 1 .. Len(channel)
    BY <1>0, <2>1, <2>2 DEF Placement, Ordered
  <2>3. CASE j = Len(channel) + 1
    BY <1>0, <1>5, <2>1, <2>3
  <2>4. QED
    BY <1>0, <2>2, <2>3
<1>7. Placed'
  BY <1>1, <1>2, <1>3 DEF Placement, Placed
<1>8. Received' = Received
  BY <1>1, <1>2, <1>3, <1>7 DEF Received, Placement, Placed
<1>9. OneReader' /\ HeldPosted'
  BY <1>1 DEF Placement, OneReader, HeldPosted, Busy
<1>10. FirstOut'
  BY <1>3, <1>5, <1>8 DEF Placement, FirstOut, Received
<1>11. OthersPosted'
  BY <1>1, <1>3, <1>8 DEF Placement, OthersPosted
<1>12. QED
  BY <1>6, <1>7, <1>9, <1>10, <1>11 DEF Placement

(* A report that finds the channel full is nowhere but among the dropped     *)
(* ones.                                                                     *)
LEMMA PlacementDrop ==
    ASSUME Typed, Placement, Drop
    PROVE  Placement'
<1>0. sent \in Nat /\ sent' = sent + 1 /\ dropped' = dropped \cup {sent'}
  BY SentBound DEF Drop
<1>1. UNCHANGED <<channel, readers, posted>>
  BY DEF Drop
<1>2. Sent' = Sent \cup {sent'} /\ sent' \notin Sent
  BY <1>0 DEF Sent
<1>3. Held' = Held /\ Queued' = Queued
  BY <1>1 DEF Held, Queued
<1>4. Ordered' /\ OneReader' /\ HeldPosted'
  BY <1>1 DEF Placement, Ordered, OneReader, HeldPosted, Busy
<1>5. Placed'
  BY <1>0, <1>2, <1>3 DEF Placement, Placed
<1>6. Received' = Received
  BY <1>0, <1>2, <1>3 DEF Received, Placement, Placed
<1>7. FirstOut' /\ OthersPosted'
  BY <1>1, <1>3, <1>6 DEF Placement, FirstOut, OthersPosted
<1>8. QED
  BY <1>4, <1>5, <1>7 DEF Placement

(* The first report of the channel goes to the reader that takes it.         *)
LEMMA PlacementReceive ==
    ASSUME Typed, Placement, NEW d \in Readers, Receive(d)
    PROVE  Placement'
<1> DEFINE h == channel[1]
<1>0. /\ ~Busy(d) /\ Busy(d)'
      /\ Len(channel) \in Nat /\ Len(channel) # 0 /\ h \in Reports
      /\ readers'[d] = [report |-> h, at |-> 1, since |-> now]
      /\ \A e \in Readers : e # d => readers'[e] = readers[e]
      /\ Len(channel') = Len(channel) - 1
      /\ \A i \in 1 .. Len(channel') : channel'[i] = channel[i + 1]
      /\ Typed'
  BY ReceiveStep
<1>1. UNCHANGED <<sent, dropped, posted>> /\ Sent' = Sent
  BY DEF Receive, Sent
<1>2. readers'[d].report = h /\ readers'[d].at = 1
  BY <1>0
<1>3. /\ h \in Queued /\ h \in Sent
      /\ \A i \in 1 .. Len(channel') : h < channel'[i]
      /\ Queued' = Queued \ {h} /\ Held' = Held \cup {h}
  BY ReceiveMoves DEF Placement, Placed
<1>7. Ordered'
  <2> SUFFICES ASSUME NEW i \in 1 .. Len(channel'), NEW j \in 1 .. Len(channel'), i < j
               PROVE  channel'[i] < channel'[j]
    BY DEF Ordered
  <2>1. i + 1 \in 1 .. Len(channel) /\ j + 1 \in 1 .. Len(channel) /\ i + 1 < j + 1
    BY <1>0
  <2>2. QED
    BY <1>0, <2>1 DEF Placement, Ordered
<1>8. Placed'
  BY <1>1, <1>3 DEF Placement, Placed
<1>9. OneReader'
  <2>1. \A e \in Readers : Busy(e) => readers[e].report # h
    BY <1>3, HeldOrNot DEF Placement, Placed
  <2>2. h # 0
    BY <1>0 DEF Reports
  <2>3. QED
    BY <1>0, <1>2, <2>1, <2>2 DEF Placement, OneReader, Busy
<1>10. Received' = Received \cup {h}
  BY <1>1, <1>3 DEF Received, Placement, Placed
<1>11. FirstOut'
  <2>1. \A r \in Queued' : h < r
    <3>1. \A r \in Queued' : \E i \in 1 .. Len(channel') : r = channel'[i]
      BY DEF Queued
    <3>2. QED
      BY <1>3, <3>1
  <2>2. QED
    BY <1>3, <1>10, <2>1 DEF Placement, FirstOut
<1>12. HeldPosted'
  <2>1. \A i \in 1 .. Addresses : posted[h][i] = 0 /\ ~(i < 1)
    <3>1. h \notin Held /\ h \notin Received /\ h \in Reports
      BY <1>0, <1>3 DEF Placement, Placed, Received
    <3>2. QED
      BY <3>1 DEF Placement, OthersPosted
  <2> SUFFICES ASSUME NEW e \in Readers, Busy(e)', NEW i \in 1 .. Addresses
               PROVE  posted[readers'[e].report][i] = IF i < readers'[e].at THEN 1 ELSE 0
    BY <1>1 DEF HeldPosted
  <2>2. CASE e = d
    BY <1>2, <2>1, <2>2
  <2>3. CASE e # d
    BY <1>0, <2>3 DEF Placement, HeldPosted, Busy
  <2>4. QED
    BY <2>2, <2>3
<1>13. OthersPosted'
  BY <1>1, <1>3, <1>10 DEF Placement, OthersPosted
<1>14. QED
  BY <1>7, <1>8, <1>9, <1>11, <1>12, <1>13 DEF Placement

(* A post is counted for its address, and the last one ends the report.      *)
LEMMA PlacementPost ==
    ASSUME Typed, Placement, NEW d \in Readers, PostToNext(d) \/ PostToLast(d)
    PROVE  Placement'
<1> DEFINE r0 == readers[d].report
           i0 == readers[d].at
<1>0. /\ Busy(d)
      /\ \A e \in Readers : e # d => readers'[e] = readers[e]
      /\ PostToNext(d) => readers'[d].report = r0 /\ readers'[d].at = i0 + 1
      /\ PostToLast(d) => readers'[d] = Waiting
      /\ \A r \in Reports, i \in 1 .. Addresses :
           posted'[r][i] = IF r = r0 /\ i = i0 THEN posted[r][i] + 1 ELSE posted[r][i]
      /\ UNCHANGED <<channel, now, sent, dropped>>
  BY PostStep
<1>1. r0 \in Reports /\ i0 \in 1 .. Addresses /\ Addresses \in Nat \ {0}
  BY <1>0, ReaderType, ConstantTypes
<1>2. /\ r0 \in Held /\ r0 \in Received
      /\ PostToNext(d) => Held' = Held
      /\ PostToLast(d) => Held' = Held \ {r0}
  BY PostMoves DEF Placement, Placed, Received
<1>3. Queued' = Queued /\ Sent' = Sent /\ Received' = Received
  BY <1>0 DEF Queued, Sent, Received
<1>4. Ordered' /\ FirstOut'
  BY <1>0, <1>3 DEF Placement, Ordered, FirstOut
<1>5. \A e \in Readers : e # d /\ Busy(e) => readers[e].report # r0
  BY <1>0 DEF Placement, OneReader
<1>6. OneReader'
  <2>1. Busy(d)' => readers'[d].report = r0
    BY <1>0 DEF Waiting, Busy
  <2>2. QED
    BY <1>0, <1>5, <2>1 DEF Placement, OneReader, Busy
<1>7. \A i \in 1 .. Addresses : posted'[r0][i] = IF i < i0 + 1 THEN 1 ELSE 0
  <2>1. \A i \in 1 .. Addresses : posted[r0][i] = IF i < i0 THEN 1 ELSE 0
    BY <1>0 DEF Placement, HeldPosted
  <2>2. QED
    BY <1>0, <1>1, <2>1
<1>8. \A r \in Reports : r # r0 => \A i \in 1 .. Addresses : posted'[r][i] = posted[r][i]
  BY <1>0
<1>9. HeldPosted'
  <2> SUFFICES ASSUME NEW e \in Readers, Busy(e)', NEW i \in 1 .. Addresses
               PROVE  posted'[readers'[e].report][i] = IF i < readers'[e].at THEN 1 ELSE 0
    BY DEF HeldPosted
  <2>1. CASE e = d
    <3>1. PostToNext(d)
      BY <1>0, <2>1 DEF Waiting, Busy
    <3>2. QED
      BY <1>0, <1>7, <2>1, <3>1
  <2>2. CASE e # d
    <3>1. readers'[e] = readers[e] /\ Busy(e) /\ readers[e].report # r0
      BY <1>0, <1>5, <2>2 DEF Busy
    <3>2. readers[e].report \in Reports
      BY <3>1, ReaderType
    <3>3. QED
      BY <1>8, <3>1, <3>2 DEF Placement, HeldPosted
  <2>3. QED
    BY <2>1, <2>2
<1>10. CASE PostToNext(d)
  <2>1. Held' = Held
    BY <1>2, <1>10
  <2>2. Placed'
    BY <1>0, <1>3, <2>1 DEF Placement, Placed
  <2>3. OthersPosted'
    BY <1>2, <1>3, <1>8, <2>1 DEF Placement, OthersPosted
  <2>4. QED
    BY <1>4, <1>6, <1>9, <2>2, <2>3 DEF Placement
<1>11. CASE PostToLast(d)
  <2>1. Held' = Held \ {r0}
    BY <1>2, <1>11
  <2>2. Placed'
    BY <1>0, <1>3, <2>1 DEF Placement, Placed
  <2>3. \A i \in 1 .. Addresses : posted'[r0][i] = 1
    <3>1. i0 = Addresses
      BY <1>11 DEF PostToLast
    <3>2. QED
      BY <1>1, <1>7, <3>1
  <2>4. OthersPosted'
    BY <1>2, <1>3, <1>8, <2>1, <2>3 DEF Placement, OthersPosted
  <2>5. QED
    BY <1>4, <1>6, <1>9, <2>2, <2>4 DEF Placement
<1>12. QED
  BY <1>10, <1>11

(* Every report is in one place, and how often it was posted where follows   *)
(* from the place.                                                           *)
THEOREM ReportQueuePlacement == Spec => []Placement
<1>1. ASSUME Init PROVE Placement
  <2>1. /\ channel = <<>> /\ sent = 0 /\ dropped = {}
        /\ \A d \in Readers : readers[d].report = 0
        /\ posted = [r \in Reports |-> [i \in 1 .. Addresses |-> 0]]
    BY <1>1 DEF Init, Waiting
  <2>2. Queued = {} /\ Sent = {} /\ Held = {} /\ Len(channel) = 0
    BY <2>1 DEF Queued, Sent, Held
  <2>3. Ordered /\ Placed /\ FirstOut
    BY <2>1, <2>2 DEF Ordered, Placed, FirstOut, Received
  <2>4. OneReader /\ HeldPosted
    BY <2>1 DEF OneReader, HeldPosted, Busy
  <2>5. OthersPosted
    BY <2>1, <2>2 DEF OthersPosted, Received
  <2>6. QED
    BY <2>3, <2>4, <2>5 DEF Placement
<1>2. Typed /\ Placement /\ [Next]_vars => Placement'
  <2> SUFFICES ASSUME Typed, Placement, [Next]_vars PROVE Placement'
    OBVIOUS
  <2>1. ASSUME UNCHANGED <<channel, readers, sent, dropped, posted>> PROVE Placement'
    <3>1. Queued' = Queued /\ Held' = Held /\ Sent' = Sent /\ Received' = Received
      BY <2>1 DEF Queued, Held, Sent, Received
    <3>2. QED
      BY <2>1, <3>1 DEF Placement, Ordered, Placed, OneReader, FirstOut, HeldPosted,
                        OthersPosted, Busy
  <2>2. CASE Tick \/ UNCHANGED vars
    BY <2>1, <2>2 DEF Tick, vars
  <2>3. ASSUME NEW d \in Readers, Step(d) PROVE Placement'
    BY <2>3, PlacementReceive, PlacementPost DEF Step
  <2>4. QED
    BY <2>2, <2>3, PlacementSend, PlacementDrop DEF Next
<1>3. QED
  BY <1>1, <1>2, ReportQueueTyped, PTL DEF Spec

(* A report is finished when it was received and no reader has it any more.  *)
LEMMA FinishedMeans ==
    ASSUME Typed, Placement, NEW r \in Reports
    PROVE  Finished(r) <=> r \in Received \ Held
<1>1. Addresses \in Nat \ {0} /\ Addresses \in 1 .. Addresses
  BY ConstantTypes
<1>2. CASE r \in Held
  <2>1. PICK d \in Readers : Busy(d) /\ readers[d].report = r
    BY <1>2, HeldOrNot
  <2>2. readers[d].at \in 1 .. Addresses
    BY <2>1, ReaderType
  <2>3. posted[r][readers[d].at] = 0
    BY <2>1, <2>2 DEF Placement, HeldPosted
  <2>4. QED
    BY <1>2, <2>2, <2>3 DEF Finished
<1>3. CASE r \notin Held
  BY <1>1, <1>3 DEF Placement, OthersPosted, Finished
<1>4. QED
  BY <1>2, <1>3

(* No report is lost or posted twice: it has one place at any time.          *)
THEOREM ReportQueueNoneLostNoneTwice == Spec => []NoneLostNoneTwice
<1>1. ASSUME Typed, Placement PROVE NoneLostNoneTwice
  <2> SUFFICES ASSUME NEW r \in Sent
               PROVE  /\ Cardinality({i \in 1 .. Len(channel) : channel[i] = r})
                           + Cardinality({d \in Readers : readers[d].report = r})
                           + (IF r \in dropped THEN 1 ELSE 0)
                           + (IF Finished(r) THEN 1 ELSE 0) = 1
                      /\ \A i \in 1 .. Addresses : posted[r][i] <= 1
    BY DEF NoneLostNoneTwice
  <2> DEFINE places == {i \in 1 .. Len(channel) : channel[i] = r}
             holders == {d \in Readers : readers[d].report = r}
  <2>0. r \in Reports /\ r # 0 /\ channel \in Seq(Reports) /\ Len(channel) \in Nat
    BY <1>1, SentBound, LenProperties DEF Typed, TypeOK, Reports
  <2>1. Finished(r) <=> r \in Received \ Held
    BY <1>1, <2>0, FinishedMeans
  <2>2. /\ r \in Queued => \E i : places = {i}
        /\ r \notin Queued => places = {}
    <3>1. ASSUME r \in Queued PROVE \E i : places = {i}
      <4>1. PICK i \in 1 .. Len(channel) : channel[i] = r
        BY <3>1 DEF Queued
      <4>2. \A j \in 1 .. Len(channel) : channel[j] = r => j = i
        <5> SUFFICES ASSUME NEW j \in 1 .. Len(channel), channel[j] = r, j # i PROVE FALSE
          OBVIOUS
        <5>1. i < j \/ j < i
          BY <2>0
        <5>2. r < r
          BY <1>1, <4>1, <5>1 DEF Placement, Ordered
        <5>3. QED
          BY <2>0, <5>2 DEF Reports
      <4>3. places = {i}
        BY <4>1, <4>2
      <4>4. QED
        BY <4>3
    <3>2. ASSUME r \notin Queued PROVE places = {}
      BY <3>2 DEF Queued
    <3>3. QED
      BY <3>1, <3>2
  <2>3. /\ r \in Held => \E d : holders = {d}
        /\ r \notin Held => holders = {}
    <3>1. ASSUME r \in Held PROVE \E d : holders = {d}
      <4>1. PICK d \in Readers : Busy(d) /\ readers[d].report = r
        BY <1>1, <3>1, HeldOrNot
      <4>2. holders = {d}
        BY <1>1, <4>1 DEF Placement, OneReader
      <4>3. QED
        BY <4>2
    <3>2. ASSUME r \notin Held PROVE holders = {}
      BY <2>0, <3>2 DEF Held
    <3>3. QED
      BY <3>1, <3>2
  <2> HIDE DEF places, holders
  <2>4. Cardinality({}) = 0 /\ \A e : Cardinality({e}) = 1
    BY FS_EmptySet, FS_Singleton
  <2>5. /\ Cardinality(places) = IF r \in Queued THEN 1 ELSE 0
        /\ Cardinality(holders) = IF r \in Held THEN 1 ELSE 0
    BY <2>2, <2>3, <2>4
  <2>6. /\ r \in Queued => r \notin Held /\ r \notin dropped
        /\ r \in Held => r \notin dropped
    BY <1>1 DEF Placement, Placed
  <2>7. Cardinality(places) + Cardinality(holders)
          + (IF r \in dropped THEN 1 ELSE 0) + (IF Finished(r) THEN 1 ELSE 0) = 1
    BY <2>1, <2>5, <2>6 DEF Received
  <2>8. \A i \in 1 .. Addresses : posted[r][i] <= 1
    <3>1. CASE r \in Held
      BY <1>1, <3>1, HeldOrNot DEF Placement, HeldPosted
    <3>2. CASE r \notin Held
      BY <1>1, <2>0, <3>2 DEF Placement, OthersPosted
    <3>3. QED
      BY <3>1, <3>2
  <2>9. QED
    BY <2>7, <2>8 DEF places, holders
<1>2. QED
  BY <1>1, ReportQueueTyped, ReportQueuePlacement, PTL

(* Only a report that a reader holds can be overtaken.                       *)
THEOREM ReportQueueOvertakenIsHeld == Spec => []OvertakenIsHeld
<1>1. ASSUME Typed, Placement PROVE OvertakenIsHeld
  <2> SUFFICES ASSUME NEW r \in Sent, NEW s \in Sent, NEW i \in 1 .. Addresses,
                      r < s, r \notin dropped, posted[s][i] > 0, posted[r][i] = 0, r \notin Held
               PROVE  FALSE
    BY DEF OvertakenIsHeld
  <2>1. r \in Reports /\ s \in Reports
    BY <1>1, SentBound
  <2>2. r \in Queued
    BY <1>1, <2>1 DEF Placement, OthersPosted, Received
  <2>3. s \in Received
    <3>1. CASE s \in Held
      BY <1>1, <3>1 DEF Placement, Placed, Received
    <3>2. CASE s \notin Held
      BY <1>1, <2>1, <3>2 DEF Placement, OthersPosted
    <3>3. QED
      BY <3>1, <3>2
  <2>4. s < r
    BY <1>1, <2>2, <2>3 DEF Placement, FirstOut
  <2>5. QED
    BY <2>1, <2>4 DEF Reports
<1>2. QED
  BY <1>1, ReportQueueTyped, ReportQueuePlacement, PTL

-----------------------------------------------------------------------------
(* The promise of module Reporter.                                           *)

Open == Queued \cup Held

Delivered == {r \in Sent : Finished(r)}

(* A report is delivered when it has left the channel and its reader.        *)
LEMMA DeliveredMeans ==
    ASSUME Typed, Placement
    PROVE  Delivered = Received \ Held
<1>1. \A r \in Sent : Finished(r) <=> r \in Received \ Held
  BY SentBound, FinishedMeans
<1>2. QED
  BY <1>1 DEF Delivered, Received

(* With the channel full there are Capacity different reports in it.         *)
LEMMA FullMeansOpen ==
    ASSUME Typed, Placement, Len(channel) = Capacity
    PROVE  Cardinality(Open) >= Capacity
<1>0. Capacity \in Nat /\ channel \in Seq(Reports) /\ IsFiniteSet(Open)
  <2>1. Open \subseteq 1 .. sent /\ sent \in Int
    BY SentBound DEF Placement, Placed, Open, Sent
  <2>2. IsFiniteSet(1 .. sent)
    BY <2>1, FS_Interval
  <2>3. QED
    BY <2>1, <2>2, FS_Subset, ConstantTypes DEF Typed, TypeOK
<1> DEFINE f == [i \in 1 .. Capacity |-> channel[i]]
<1>1. f \in Injection(1 .. Capacity, Open)
  <2>1. f \in [1 .. Capacity -> Open]
    BY QueuedReports DEF Open
  <2>2. ASSUME NEW i \in 1 .. Capacity, NEW j \in 1 .. Capacity, f[i] = f[j] PROVE i = j
    <3> SUFFICES ASSUME i # j PROVE FALSE
      OBVIOUS
    <3>1. i < j \/ j < i
      BY <1>0
    <3>2. channel[i] < channel[j] \/ channel[j] < channel[i]
      BY <3>1 DEF Placement, Ordered
    <3>3. channel[i] \in Nat /\ channel[i] = channel[j]
      BY <2>2, QueuedReports DEF Reports
    <3>4. QED
      BY <3>2, <3>3
  <2>3. QED
    BY <2>1, <2>2, Fun_IsInj
<1>2. Cardinality(1 .. Capacity) <= Cardinality(Open)
  BY <1>0, <1>1, FS_Injection
<1>3. Cardinality(1 .. Capacity) = Capacity
  BY <1>0, FS_Interval, ConstantTypes
<1>4. Cardinality(Open) \in Nat
  BY <1>0, FS_CardinalityType
<1>5. QED
  BY <1>0, <1>2, <1>3, <1>4

(* Every step is a step of the promise or none: Send takes, Drop refuses,    *)
(* with a channel full of reports open, PostToLast delivers.                 *)
THEOREM ReportQueueImplementsReporter == Spec => ReporterSpec
<1>1. ASSUME Init PROVE Promise!Init
  <2>1. Queued = {} /\ Held = {} /\ Sent = {} /\ sent = 0 /\ dropped = {}
    BY <1>1 DEF Init, Queued, Held, Waiting, Sent
  <2>2. QED
    BY <2>1 DEF Promise!Init
<1>2. Typed /\ Typed' /\ Placement /\ Placement' /\ [Next]_vars => [Promise!Next]_Promise!vars
  <2> SUFFICES ASSUME Typed, Typed', Placement, Placement', [Next]_vars
               PROVE  Promise!Next \/ UNCHANGED <<sent, Open, Delivered, dropped>>
    BY DEF Promise!vars, Open, Delivered
  <2>0. Delivered = Received \ Held /\ Delivered' = Received' \ Held'
    <3>1. Typed /\ Placement => Delivered = Received \ Held
      BY DeliveredMeans
    <3>2. (Typed /\ Placement => Delivered = Received \ Held)'
      BY DeliveredMeans, PTL
    <3>3. QED
      BY <3>1, <3>2
  <2>1. CASE Send
    <3>1. sent' = sent + 1 /\ Open' = Open \cup {sent'} /\ dropped' = dropped
      BY <2>1, SendMoves, SendStep DEF Send, Open
    <3>2. Delivered' = Delivered
      <4>1. Sent' = Sent \cup {sent'} /\ sent' \notin Sent
        BY <3>1, SentBound DEF Sent
      <4>2. Received' = Received /\ Held' = Held
        BY <2>1, <3>1, <4>1, SendMoves DEF Received, Placement, Placed
      <4>3. QED
        BY <2>0, <4>2
    <3>3. QED
      BY <3>1, <3>2 DEF Promise!Next, Promise!Take, Open, Delivered
  <2>2. CASE Drop
    <3>1. sent' = sent + 1 /\ dropped' = dropped \cup {sent'}
      BY <2>2 DEF Drop
    <3>2. Queued' = Queued /\ Held' = Held /\ Open' = Open
      BY <2>2 DEF Drop, Open, Queued, Held
    <3>3. Delivered' = Delivered
      <4>1. Sent' = Sent \cup {sent'} /\ sent' \notin Sent
        BY <3>1, SentBound DEF Sent
      <4>2. Received' = Received
        BY <3>1, <3>2, <4>1 DEF Received, Placement, Placed
      <4>3. QED
        BY <2>0, <3>2, <4>2
    <3>4. Cardinality(Open) >= Capacity
      BY <2>2, FullMeansOpen DEF Drop
    <3>5. Promise!Cardinality(Open) >= Capacity
      BY <3>4 DEF Promise!Cardinality, Cardinality
    <3>6. QED
      BY <3>1, <3>2, <3>3, <3>5 DEF Promise!Next, Promise!Refuse, Open, Delivered
  <2>3. ASSUME NEW d \in Readers, Step(d)
        PROVE  Promise!Next \/ UNCHANGED <<sent, Open, Delivered, dropped>>
    <3> DEFINE r0 == readers[d].report
    <3>1. UNCHANGED <<sent, dropped>> /\ Sent' = Sent
      BY <2>3 DEF Step, Receive, PostToNext, PostToLast, Sent
    <3>2. CASE Receive(d)
      <4>1. Open' = Open /\ Received' = Received \cup {channel[1]}
            /\ Held' = Held \cup {channel[1]} /\ channel[1] \notin Received
        BY <3>1, <3>2, ReceiveMoves DEF Open, Received, Placement, Placed
      <4>2. QED
        BY <2>0, <3>1, <4>1
    <3>3. CASE PostToNext(d)
      <4>1. Open' = Open /\ Received' = Received /\ Held' = Held
        BY <3>1, <3>3, PostMoves DEF Open, Received
      <4>2. QED
        BY <2>0, <3>1, <4>1
    <3>4. CASE PostToLast(d)
      <4>1. /\ r0 \in Open /\ Open' = Open \ {r0}
            /\ Received' = Received /\ Held' = Held \ {r0} /\ r0 \in Received
        BY <3>1, <3>4, PostMoves DEF Open, Received, Placement, Placed
      <4>2. Delivered' = Delivered \cup {r0}
        BY <2>0, <4>1
      <4>3. QED
        BY <3>1, <4>1, <4>2 DEF Promise!Next, Promise!Deliver, Open, Delivered
    <3>5. QED
      BY <2>3, <3>2, <3>3, <3>4 DEF Step
  <2>4. CASE Tick \/ UNCHANGED vars
    BY <2>4 DEF Tick, vars, Open, Queued, Held, Delivered, Sent, Finished
  <2>5. QED
    BY <2>1, <2>2, <2>3, <2>4 DEF Next
<1>3. QED
  BY <1>1, <1>2, ReportQueueTyped, ReportQueuePlacement, PTL DEF Spec, ReporterSpec, Promise!Spec

-----------------------------------------------------------------------------
(* How long a report takes.  A reader that holds a report can take another   *)
(* one by Free(d), and then one per Round.  Turns(r) are the occasions on    *)
(* which a reader will have taken a report within Rounds rounds of r's       *)
(* acceptance: the i-th report in the channel has at least i of them.        *)

Round == Addresses * ReadTimeout

Free(d) ==
    IF Busy(d)
    THEN readers[d].since + (Addresses - readers[d].at + 1) * ReadTimeout
    ELSE now

Occasions == Readers \X (0 .. Rounds - 1)

Turns(r) ==
    {t \in Occasions : Free(t[1]) + t[2] * Round <= pending[r] + Rounds * Round}

PostsEnd ==
    \A d \in Readers : Busy(d) =>
      readers[d].since <= now /\ now <= readers[d].since + ReadTimeout

PendingIsOpen == \A r \in Reports : pending[r] # -1 <=> r \in Queued \cup Held

HeldInTime ==
    \A d \in Readers : Busy(d) =>
      Free(d) <= pending[readers[d].report] + (Rounds + 1) * Round

QueuedInTime ==
    \A i \in 1 .. Len(channel), r \in Reports :
      channel[i] = r => Cardinality(Turns(r)) >= i

Timely == PostsEnd /\ PendingIsOpen /\ HeldInTime /\ QueuedInTime

(* The readers together have a turn for every place of the channel.          *)
LEMMA RoundsAreEnough ==
    /\ Rounds \in Nat \ {0} /\ Round \in Nat \ {0}
    /\ IsFiniteSet(Occasions) /\ Cardinality(Occasions) >= Capacity
<1> DEFINE n == Cardinality(Readers)
<1>1. n \in Nat \ {0}
  BY ConstantTypes, FS_CardinalityType, FS_EmptySet
<1>2. Capacity \in Nat \ {0} /\ Rounds = (Capacity + n - 1) \div n
  BY ConstantTypes DEF Rounds
<1> HIDE DEF n
<1>3. Rounds \in Int /\ Capacity + n - 1 < n * Rounds + n
  BY <1>1, <1>2
<1>4. n * Rounds >= Capacity
  BY <1>1, <1>2, <1>3
<1>5. Rounds \in Nat \ {0}
  <2>1. Rounds <= 0 => n * Rounds <= 0
    BY <1>1, <1>3
  <2>2. Rounds > 0
    BY <1>1, <1>3, <1>4, <2>1, ConstantTypes
  <2>3. QED
    BY <1>3, <2>2
<1>6. Round \in Nat \ {0}
  BY ConstantTypes DEF Round
<1>7. IsFiniteSet(0 .. Rounds - 1) /\ Cardinality(0 .. Rounds - 1) = Rounds
  BY <1>5, FS_Interval
<1>8. IsFiniteSet(Occasions) /\ Cardinality(Occasions) = n * Rounds
  BY <1>7, FS_Product, ConstantTypes DEF Occasions, n
<1>9. QED
  BY <1>4, <1>5, <1>6, <1>8

(* The turns that come in time are finitely many.                            *)
LEMMA TurnsFinite ==
    ASSUME NEW r
    PROVE  IsFiniteSet(Turns(r)) /\ Cardinality(Turns(r)) \in Nat
<1>1. Turns(r) \in SUBSET Occasions
  BY DEF Turns
<1>2. QED
  BY <1>1, RoundsAreEnough, FS_Subset, FS_CardinalityType

(* So they are after a step.                                                 *)
LEMMA TurnsFinitePrime ==
    ASSUME NEW r
    PROVE  IsFiniteSet(Turns(r)') /\ Cardinality(Turns(r)') \in Nat
<1>1. Turns(r)' \in SUBSET Occasions
  BY DEF Turns
<1>2. QED
  BY <1>1, RoundsAreEnough, FS_Subset, FS_CardinalityType

(* An occasion is a reader and the number of its round, and ends with that   *)
(* round at the latest.                                                      *)
LEMMA OccasionType ==
    ASSUME NEW t \in Occasions
    PROVE  /\ t[1] \in Readers /\ t[2] \in 0 .. Rounds - 1 /\ t[2] \in Nat /\ t = <<t[1], t[2]>>
           /\ t[2] * Round \in Nat /\ t[2] * Round + Round <= Rounds * Round
<1>1. t[1] \in Readers /\ t[2] \in 0 .. Rounds - 1 /\ t[2] \in Nat /\ t = <<t[1], t[2]>>
  BY DEF Occasions
<1> DEFINE k == t[2]
<1>2. k \in Nat /\ k + 1 <= Rounds /\ Rounds \in Nat /\ Round \in Nat
  BY <1>1, RoundsAreEnough
<1> HIDE DEF k
<1>3. k * Round \in Nat /\ (k + 1) * Round = k * Round + Round
  BY <1>2
<1>4. (k + 1) * Round <= Rounds * Round
  BY <1>2
<1>5. QED
  BY <1>1, <1>3, <1>4 DEF k

(* A reader is free by Free(d): not yet if it posts, at most a round later.  *)
LEMMA FreeBounds ==
    ASSUME Typed, NEW d \in Readers
    PROVE  /\ Free(d) \in Nat /\ now \in Nat
           /\ ~Busy(d) => Free(d) = now
           /\ Busy(d) => readers[d].since + ReadTimeout <= Free(d)
                      /\ Free(d) <= readers[d].since + Round
           /\ PostsEnd => now <= Free(d) /\ Free(d) <= now + Round
<1>0. now \in Nat /\ ReadTimeout \in Nat /\ Addresses \in Nat /\ readers[d].since \in Nat
  BY ReaderType, ConstantTypes DEF Typed, TypeOK
<1>1. CASE ~Busy(d)
  BY <1>0, <1>1, RoundsAreEnough DEF Free
<1>2. CASE Busy(d)
  <2> DEFINE k == Addresses - readers[d].at + 1
             s == readers[d].since
  <2>1. k \in Nat /\ 1 <= k /\ k <= Addresses
    BY <1>0, <1>2, ReaderType
  <2>2. Free(d) = s + k * ReadTimeout /\ Round = Addresses * ReadTimeout
    BY <1>2 DEF Free, Round
  <2>3. PostsEnd => s <= now /\ now <= s + ReadTimeout
    BY <1>2 DEF PostsEnd
  <2> HIDE DEF k, s
  <2>4. k * ReadTimeout \in Nat /\ ReadTimeout <= k * ReadTimeout
    BY <1>0, <2>1
  <2>5. k * ReadTimeout <= Addresses * ReadTimeout
    BY <1>0, <2>1
  <2>6. s \in Nat
    BY <1>0 DEF s
  <2>7. Addresses * ReadTimeout \in Nat
    BY <1>0
  <2>8. /\ Free(d) \in Nat /\ s + ReadTimeout <= Free(d) /\ Free(d) <= s + Round
    BY <1>0, <2>2, <2>4, <2>5, <2>6, <2>7
  <2>9. PostsEnd => now <= Free(d) /\ Free(d) <= now + Round
    BY <1>0, <2>2, <2>3, <2>6, <2>7, <2>8
  <2>10. QED
    BY <1>0, <1>2, <2>8, <2>9 DEF s
<1>3. QED
  BY <1>1, <1>2

(* The time at which a reader is free is a number.                           *)
LEMMA FreeType == Typed => \A d \in Readers : Free(d) \in Nat
  BY FreeBounds

(* So it is after a step.                                                    *)
LEMMA FreeTypeNext == Typed' => \A d \in Readers : Free(d)' \in Nat
<1>1. (Typed => \A d \in Readers : Free(d) \in Nat)'
  BY FreeType, PTL
<1>2. QED
  BY <1>1

(* A report has no fewer turns if no reader is free any later.               *)
LEMMA TurnsKept ==
    ASSUME Typed, Typed', NEW r \in Reports,
           pending'[r] = pending[r],
           \A d \in Readers : Free(d)' <= Free(d)
    PROVE  Cardinality(Turns(r)) <= Cardinality(Turns(r)')
<1>0. pending[r] \in Int /\ \A d \in Readers : Free(d) \in Nat /\ Free(d)' \in Nat
  <2>1. \A d \in Readers : Free(d) \in Nat
    BY FreeType
  <2>2. \A d \in Readers : Free(d)' \in Nat
    BY FreeTypeNext
  <2>3. pending[r] \in Int
    BY DEF Typed, TypeOK
  <2>4. QED
    BY <2>1, <2>2, <2>3
<1>1. pending[r] + Rounds * Round \in Int
  BY <1>0, RoundsAreEnough
<1>2. Turns(r) \subseteq Turns(r)'
  <2> SUFFICES ASSUME NEW t \in Occasions, Free(t[1]) + t[2] * Round <= pending[r] + Rounds * Round
               PROVE  Free(t[1])' + t[2] * Round <= pending'[r] + Rounds * Round
    BY DEF Turns
  <2>1. t[1] \in Readers /\ t[2] * Round \in Nat
    BY OccasionType
  <2>2. /\ Free(t[1]) \in Nat /\ Free(t[1])' \in Nat /\ Free(t[1])' <= Free(t[1])
    BY <1>0, <2>1
  <2>3. QED
    BY <1>1, <2>1, <2>2
<1>3. IsFiniteSet(Turns(r)')
  BY TurnsFinitePrime
<1>4. QED
  BY <1>2, <1>3, FS_Subset

(* An accepted report is one place behind the last, and no reader changes:  *)
(* the readers together have turns enough for every place of the channel.    *)
LEMMA TimelySend ==
    ASSUME Typed, Typed', Placement, Timely, Send
    PROVE  Timely'
<1>0. /\ sent' \in Reports /\ Len(channel) \in Nat /\ Len(channel) < Capacity
      /\ Len(channel') = Len(channel) + 1
      /\ \A i \in 1 .. Len(channel) : channel'[i] = channel[i]
      /\ channel'[Len(channel) + 1] = sent'
      /\ Queued' = Queued \cup {sent'} /\ Held' = Held
  BY SendStep, SendMoves
<1>1. UNCHANGED <<readers, now>>
  BY DEF Send
<1>2. /\ \A d \in Readers : (Busy(d)' <=> Busy(d)) /\ Free(d)' = Free(d) /\ Free(d) \in Nat
      /\ \A d \in Readers : Free(d)' <= Free(d)
  <2>1. \A d \in Readers : (Busy(d)' <=> Busy(d)) /\ Free(d)' = Free(d) /\ Free(d) \in Nat
    BY <1>1, FreeType DEF Busy, Free
  <2>2. QED
    BY <2>1
<1>3. pending'[sent'] = now /\ \A r \in Reports : r # sent' => pending'[r] = pending[r]
  BY <1>0 DEF Send, Typed, TypeOK
<1>4. sent' \notin Queued \cup Held
  BY SendStep DEF Placement, Placed, Sent
<1>5. now \in Nat /\ sent' \in Nat
  BY SendStep DEF Typed, TypeOK
<1>6. PostsEnd'
  BY <1>1, <1>2 DEF Timely, PostsEnd
<1>7. PendingIsOpen'
  <2> SUFFICES ASSUME NEW r \in Reports PROVE pending'[r] # -1 <=> r \in Queued' \cup Held'
    BY DEF PendingIsOpen
  <2>1. CASE r = sent'
    BY <1>0, <1>3, <1>5, <2>1
  <2>2. CASE r # sent'
    BY <1>0, <1>3, <2>2 DEF Timely, PendingIsOpen
  <2>3. QED
    BY <2>1, <2>2
<1>8. HeldInTime'
  <2> SUFFICES ASSUME NEW d \in Readers, Busy(d)
               PROVE  Free(d)' <= pending'[readers'[d].report] + (Rounds + 1) * Round
    BY <1>2 DEF HeldInTime
  <2>1. readers[d].report \in Held /\ readers[d].report \in Reports
    BY HeldOrNot, ReaderType
  <2>2. pending'[readers'[d].report] = pending[readers[d].report]
    BY <1>1, <1>3, <1>4, <2>1
  <2>3. Free(d) <= pending[readers[d].report] + (Rounds + 1) * Round
    BY DEF Timely, HeldInTime
  <2>4. QED
    BY <1>2, <2>2, <2>3
<1>9. QueuedInTime'
  <2> SUFFICES ASSUME NEW i \in 1 .. Len(channel'), NEW r \in Reports, channel'[i] = r
               PROVE  Cardinality(Turns(r)') >= i
    BY DEF QueuedInTime
  <2>1. CASE i \in 1 .. Len(channel)
    <3>1. channel[i] = r /\ Cardinality(Turns(r)) >= i
      BY <1>0, <2>1 DEF Timely, QueuedInTime
    <3>2. r # sent'
      BY <1>4, <2>1, <3>1, QueuedReports
    <3>3. Cardinality(Turns(r)) <= Cardinality(Turns(r)')
      BY <1>2, <1>3, <3>2, TurnsKept
    <3>4. Cardinality(Turns(r)) \in Nat /\ Cardinality(Turns(r)') \in Nat
      BY TurnsFinite, TurnsFinitePrime
    <3>5. QED
      BY <3>1, <3>3, <3>4
  <2>2. CASE i = Len(channel) + 1
    <3>1. r = sent' /\ pending'[r] = now
      BY <1>0, <1>3, <2>2
    <3>2. ASSUME NEW t \in Occasions PROVE t \in Turns(r)'
      <4>1. /\ t[1] \in Readers /\ t[2] * Round \in Nat
            /\ t[2] * Round + Round <= Rounds * Round /\ Rounds * Round \in Nat
        BY OccasionType, RoundsAreEnough
      <4>2. Free(t[1]) \in Nat /\ Free(t[1]) <= now + Round /\ Free(t[1])' = Free(t[1])
        BY <1>2, <4>1, FreeBounds DEF Timely
      <4>3. Round \in Nat
        BY RoundsAreEnough
      <4>4. Free(t[1])' + t[2] * Round <= now + Rounds * Round
        BY <1>5, <4>1, <4>2, <4>3
      <4>5. QED
        BY <3>1, <4>4 DEF Turns
    <3>3. Occasions \subseteq Turns(r)'
      BY <3>2
    <3>4. IsFiniteSet(Turns(r)') /\ Cardinality(Turns(r)') \in Nat
      BY TurnsFinitePrime
    <3>5. Cardinality(Occasions) <= Cardinality(Turns(r)') /\ Cardinality(Occasions) \in Nat
      BY <3>3, <3>4, FS_Subset, FS_CardinalityType, RoundsAreEnough
    <3>6. QED
      BY <1>0, <2>2, <3>4, <3>5, RoundsAreEnough, ConstantTypes
  <2>3. QED
    BY <1>0, <2>1, <2>2
<1>10. QED
  BY <1>6, <1>7, <1>8, <1>9 DEF Timely

(* Taking the oldest report costs the others the one turn they had left over. *)
LEMMA TurnsAfterReceive ==
    ASSUME Typed, PostsEnd, NEW d \in Readers, Receive(d), NEW r \in Reports
    PROVE  Cardinality(Turns(r)) - 1 <= Cardinality(Turns(r)')
<1>0. /\ ~Busy(d) /\ Busy(d)' /\ readers'[d].at = 1 /\ readers'[d].since = now
      /\ \A e \in Readers : e # d => readers'[e] = readers[e]
      /\ now' = now /\ pending'[r] = pending[r]
  <2>1. readers'[d] = [report |-> channel[1], at |-> 1, since |-> now]
    BY ReceiveStep
  <2>2. now' = now /\ pending'[r] = pending[r]
    BY DEF Receive
  <2>3. QED
    BY <2>1, <2>2, ReceiveStep
<1>1. now \in Nat /\ Free(d) = now /\ Free(d)' = now + Round
  <2>1. now \in Nat /\ Free(d) = now
    BY <1>0 DEF Free, Typed, TypeOK
  <2>2. Free(d)' = now + (Addresses - 1 + 1) * ReadTimeout
    BY <1>0 DEF Free
  <2>3. Addresses - 1 + 1 = Addresses
    BY ConstantTypes
  <2>4. QED
    BY <2>1, <2>2, <2>3 DEF Round
<1>2. \A e \in Readers : e # d => Free(e)' = Free(e)
  BY <1>0 DEF Free, Busy
<1>3. \A e \in Readers : Free(e) \in Nat
  BY FreeType
<1> DEFINE left == Turns(r) \ {<<d, 0>>}
           moved == [t \in left |-> IF t[1] = d THEN <<t[1], t[2] - 1>> ELSE t]
<1>4. \A t \in left : t \in Occasions /\ t # <<d, 0>>
                      /\ Free(t[1]) + t[2] * Round <= pending[r] + Rounds * Round
  BY DEF Turns
<1>5. ASSUME NEW t \in left PROVE moved[t] \in Turns(r)'
  <2>1. t \in Occasions /\ Free(t[1]) + t[2] * Round <= pending[r] + Rounds * Round
    BY <1>4
  <2>2. /\ t[1] \in Readers /\ t[2] \in 0 .. Rounds - 1 /\ t[2] \in Nat /\ t = <<t[1], t[2]>>
        /\ t[2] * Round \in Nat
    BY <2>1, OccasionType
  <2>3. CASE t[1] = d
    <3>1. t[2] # 0
      BY <1>4, <2>2, <2>3
    <3>2. t[2] - 1 \in 0 .. Rounds - 1
      BY <2>2, <3>1, RoundsAreEnough
    <3>3. (t[2] - 1) * Round = t[2] * Round - Round /\ Round \in Nat
      BY <2>2, RoundsAreEnough
    <3>4. now + Round + (t[2] - 1) * Round = now + t[2] * Round
      BY <1>1, <2>2, <3>3
    <3>5. moved[t] = <<d, t[2] - 1>>
      BY <2>3
    <3>6. <<d, t[2] - 1>> \in Occasions
      BY <3>2 DEF Occasions
    <3>7. Free(d)' + (t[2] - 1) * Round <= pending'[r] + Rounds * Round
      BY <1>0, <1>1, <2>1, <2>3, <3>4
    <3>8. <<d, t[2] - 1>> \in Turns(r)'
      BY <3>6, <3>7 DEF Turns
    <3>9. QED
      BY <3>5, <3>8
  <2>4. CASE t[1] # d
    <3>1. moved[t] = t
      BY <2>4
    <3>2. Free(t[1])' + t[2] * Round <= pending'[r] + Rounds * Round
      BY <1>0, <1>2, <2>1, <2>2, <2>4
    <3>3. QED
      BY <2>1, <3>1, <3>2 DEF Turns
  <2>5. QED
    BY <2>3, <2>4
<1>6. ASSUME NEW t \in left, NEW u \in left, moved[t] = moved[u] PROVE t = u
  <2>1. /\ t[2] \in Nat /\ t = <<t[1], t[2]>> /\ u[2] \in Nat /\ u = <<u[1], u[2]>>
    BY <1>4, OccasionType
  <2>2. moved[t][1] = t[1] /\ moved[u][1] = u[1]
    BY <2>1
  <2>3. moved[t][2] = (IF t[1] = d THEN t[2] - 1 ELSE t[2])
        /\ moved[u][2] = (IF u[1] = d THEN u[2] - 1 ELSE u[2])
    BY <2>1
  <2>4. t[1] = u[1]
    BY <1>6, <2>2
  <2>5. t[2] = u[2]
    BY <1>6, <2>1, <2>3, <2>4
  <2>6. QED
    BY <2>1, <2>4, <2>5
<1>7. Cardinality(left) <= Cardinality(Turns(r)')
  <2>1. moved \in [left -> Turns(r)']
    BY <1>5
  <2> HIDE DEF moved, left
  <2>2. moved \in Injection(left, Turns(r)')
    BY <1>6, <2>1, Fun_IsInj
  <2>3. QED
    BY <2>2, FS_Injection, TurnsFinitePrime
<1>8. Cardinality(left) >= Cardinality(Turns(r)) - 1 /\ Cardinality(left) \in Nat
  <2>1. IsFiniteSet(left) /\ Cardinality(left) \in Nat
    BY TurnsFinite, FS_RemoveElement, FS_CardinalityType
  <2>2. Cardinality(left) = IF <<d, 0>> \in Turns(r) THEN Cardinality(Turns(r)) - 1
                            ELSE Cardinality(Turns(r))
    BY TurnsFinite, FS_RemoveElement
  <2> HIDE DEF left
  <2>3. QED
    BY <2>1, <2>2, TurnsFinite
<1> HIDE DEF left
<1>9. QED
  BY <1>7, <1>8, TurnsFinite, TurnsFinitePrime

(* The reader that takes the first report uses up one of the turns of every  *)
(* report behind it, and every report behind it moves up by one place.       *)
LEMMA TimelyReceive ==
    ASSUME Typed, Placement, Timely, NEW d \in Readers, Receive(d)
    PROVE  Timely'
<1> DEFINE h == channel[1]
<1>0. /\ ~Busy(d) /\ Busy(d)'
      /\ Len(channel) \in Nat /\ Len(channel) # 0 /\ h \in Reports
      /\ \A e \in Readers : e # d => readers'[e] = readers[e]
      /\ Len(channel') = Len(channel) - 1
      /\ \A i \in 1 .. Len(channel') : channel'[i] = channel[i + 1]
      /\ h \in Queued /\ Queued' = Queued \ {h} /\ Held' = Held \cup {h}
  BY ReceiveStep, ReceiveMoves
<1>1. readers'[d].report = h /\ readers'[d].at = 1 /\ readers'[d].since = now
  <2>1. readers'[d] = [report |-> h, at |-> 1, since |-> now]
    BY ReceiveStep
  <2>2. QED
    BY <2>1
<1>2. UNCHANGED <<now, pending>> /\ now \in Nat /\ ReadTimeout \in Nat
  BY ConstantTypes DEF Receive, Typed, TypeOK
<1>3. PostsEnd'
  <2> SUFFICES ASSUME NEW e \in Readers, Busy(e)'
               PROVE  readers'[e].since <= now /\ now <= readers'[e].since + ReadTimeout
    BY <1>2 DEF PostsEnd
  <2>1. CASE e = d
    BY <1>1, <1>2, <2>1
  <2>2. CASE e # d
    BY <1>0, <2>2 DEF Timely, PostsEnd, Busy
  <2>3. QED
    BY <2>1, <2>2
<1>4. PendingIsOpen'
  BY <1>0, <1>2 DEF Timely, PendingIsOpen
<1>5. HeldInTime'
  <2>1. Free(d)' <= pending[h] + (Rounds + 1) * Round
    <3>1. Cardinality(Turns(h)) >= 1
      BY <1>0 DEF Timely, QueuedInTime
    <3>2. PICK t \in Turns(h) : TRUE
      BY <3>1, FS_EmptySet
    <3>3. t \in Occasions /\ Free(t[1]) + t[2] * Round <= pending[h] + Rounds * Round
      BY DEF Turns
    <3>4. t[1] \in Readers /\ t[2] * Round \in Nat
      BY <3>3, OccasionType
    <3>5. Free(t[1]) \in Nat /\ now <= Free(t[1])
      BY <3>4, FreeBounds DEF Timely
    <3>6. pending[h] \in Int
      BY <1>0 DEF Typed, TypeOK
    <3>7. Rounds * Round \in Nat /\ Round \in Nat /\ (Rounds + 1) * Round = Rounds * Round + Round
      BY RoundsAreEnough
    <3>8. now <= pending[h] + Rounds * Round
      BY <1>2, <3>3, <3>4, <3>5, <3>6, <3>7
    <3>9. Free(d)' = now + Round
      <4>1. Free(d)' = now + (Addresses - 1 + 1) * ReadTimeout
        BY <1>0, <1>1 DEF Free
      <4>2. Addresses - 1 + 1 = Addresses
        BY ConstantTypes
      <4>3. QED
        BY <4>1, <4>2 DEF Round
    <3>10. QED
      BY <1>2, <3>6, <3>7, <3>8, <3>9
  <2> SUFFICES ASSUME NEW e \in Readers, Busy(e)'
               PROVE  Free(e)' <= pending[readers'[e].report] + (Rounds + 1) * Round
    BY <1>2 DEF HeldInTime
  <2>2. CASE e = d
    BY <1>1, <2>1, <2>2
  <2>3. CASE e # d
    <3>1. readers'[e] = readers[e] /\ Busy(e) /\ Free(e)' = Free(e)
      BY <1>0, <1>2, <2>3 DEF Busy, Free
    <3>2. QED
      BY <3>1 DEF Timely, HeldInTime
  <2>4. QED
    BY <2>2, <2>3
<1>6. QueuedInTime'
  <2> SUFFICES ASSUME NEW i \in 1 .. Len(channel'), NEW r \in Reports, channel'[i] = r
               PROVE  Cardinality(Turns(r)') >= i
    BY DEF QueuedInTime
  <2>1. i + 1 \in 1 .. Len(channel) /\ channel[i + 1] = r
    BY <1>0
  <2>2. Cardinality(Turns(r)) >= i + 1
    BY <2>1 DEF Timely, QueuedInTime
  <2>3. Cardinality(Turns(r)) - 1 <= Cardinality(Turns(r)')
    BY TurnsAfterReceive DEF Timely
  <2>4. QED
    BY <2>2, <2>3, TurnsFinite, TurnsFinitePrime
<1>7. QED
  BY <1>3, <1>4, <1>5, <1>6 DEF Timely

(* A post that ends in time makes its reader free no later.                  *)
LEMMA TimelyPost ==
    ASSUME Typed, Placement, Timely, NEW d \in Readers, PostToNext(d) \/ PostToLast(d)
    PROVE  Timely'
<1> DEFINE r0 == readers[d].report
           i0 == readers[d].at
           s0 == readers[d].since
<1>0. /\ Busy(d) /\ r0 \in Reports /\ i0 \in 1 .. Addresses /\ s0 \in Nat /\ r0 \in Held
      /\ \A e \in Readers : e # d => readers'[e] = readers[e]
      /\ PostToNext(d) => /\ readers'[d].report = r0
                          /\ readers'[d].at = i0 + 1
                          /\ readers'[d].since = now
      /\ PostToLast(d) => readers'[d] = Waiting
      /\ channel' = channel /\ now' = now /\ now \in Nat
      /\ Queued' = Queued
      /\ PostToNext(d) => Held' = Held
      /\ PostToLast(d) => Held' = Held \ {r0}
      /\ Typed'
  BY PostStep, PostMoves, ReaderType DEF Typed, TypeOK
<1>1. PostToLast(d) => ~Busy(d)' /\ readers'[d].report = 0
  BY <1>0 DEF Waiting, Busy
<1>2. /\ PostToNext(d) => Busy(d)' /\ pending' = pending
      /\ PostToLast(d) => pending'[r0] = -1 /\ \A r \in Reports : r # r0 => pending'[r] = pending[r]
  <2>1. PostToNext(d) => Busy(d)' /\ pending' = pending
    BY <1>0 DEF PostToNext, Busy
  <2>2. pending \in [Reports -> Nat \cup {-1}]
    BY DEF Typed, TypeOK
  <2>3. PostToLast(d) => pending' = [pending EXCEPT ![r0] = -1]
    BY DEF PostToLast
  <2>4. QED
    BY <1>0, <2>1, <2>2, <2>3
<1>3. Free(d)' <= Free(d) /\ Free(d) \in Nat
  <2>1. Free(d) \in Nat /\ now <= Free(d)
    BY FreeBounds DEF Timely
  <2>2. CASE PostToLast(d)
    BY <1>0, <1>1, <2>1, <2>2 DEF Free
  <2>3. CASE PostToNext(d)
    <3> DEFINE k == Addresses - i0
    <3>1. k \in Nat /\ Addresses - i0 + 1 = k + 1 /\ Addresses - (i0 + 1) + 1 = k
      BY <1>0, ConstantTypes
    <3>2. Free(d) = s0 + (k + 1) * ReadTimeout
      BY <1>0, <3>1 DEF Free
    <3>3. Free(d)' = now + k * ReadTimeout
      BY <1>0, <1>2, <2>3, <3>1 DEF Free
    <3>4. now <= s0 + ReadTimeout
      BY <1>0 DEF Timely, PostsEnd
    <3> HIDE DEF k, s0
    <3>5. k * ReadTimeout \in Nat /\ (k + 1) * ReadTimeout = k * ReadTimeout + ReadTimeout
      BY <3>1, ConstantTypes
    <3>6. s0 \in Nat
      BY <1>0
    <3>7. QED
      BY <1>0, <2>1, <3>2, <3>3, <3>4, <3>5, <3>6, ConstantTypes
  <2>4. QED
    BY <2>2, <2>3
<1>4. \A e \in Readers : e # d => (Busy(e)' <=> Busy(e)) /\ Free(e)' = Free(e)
  BY <1>0 DEF Busy, Free
<1>5. \A e \in Readers : Free(e)' <= Free(e)
  <2>1. \A e \in Readers : Free(e) \in Nat
    BY FreeType
  <2>2. QED
    BY <1>3, <1>4, <2>1
<1>6. PostsEnd'
  <2> SUFFICES ASSUME NEW e \in Readers, Busy(e)'
               PROVE  readers'[e].since <= now /\ now <= readers'[e].since + ReadTimeout
    BY <1>0 DEF PostsEnd
  <2>1. CASE e = d
    <3>1. PostToNext(d)
      BY <1>1, <2>1
    <3>2. QED
      BY <1>0, <2>1, <3>1, ConstantTypes
  <2>2. CASE e # d
    BY <1>0, <1>4, <2>2 DEF Timely, PostsEnd
  <2>3. QED
    BY <2>1, <2>2
<1>7. PendingIsOpen'
  <2>1. r0 \notin Queued
    BY <1>0 DEF Placement, Placed
  <2> SUFFICES ASSUME NEW r \in Reports PROVE pending'[r] # -1 <=> r \in Queued' \cup Held'
    BY DEF PendingIsOpen
  <2>2. CASE PostToNext(d)
    BY <1>0, <1>2, <2>2 DEF Timely, PendingIsOpen
  <2>3. CASE PostToLast(d)
    BY <1>0, <1>2, <2>1, <2>3 DEF Timely, PendingIsOpen
  <2>4. QED
    BY <2>2, <2>3
<1>8. HeldInTime'
  <2> SUFFICES ASSUME NEW e \in Readers, Busy(e)'
               PROVE  Free(e)' <= pending'[readers'[e].report] + (Rounds + 1) * Round
    BY DEF HeldInTime
  <2>1. Busy(e) /\ readers'[e].report = readers[e].report
    BY <1>0, <1>1, <1>4
  <2>2. Free(e) <= pending[readers[e].report] + (Rounds + 1) * Round
    BY <2>1 DEF Timely, HeldInTime
  <2>3. pending'[readers[e].report] = pending[readers[e].report]
    <3>1. CASE PostToNext(d)
      BY <1>2, <3>1
    <3>2. CASE PostToLast(d)
      <4>1. e # d
        BY <1>1, <3>2
      <4>2. readers[e].report # r0 /\ readers[e].report \in Reports
        BY <1>0, <2>1, <4>1, ReaderType DEF Placement, OneReader
      <4>3. QED
        BY <1>2, <3>2, <4>2
    <3>3. QED
      BY <3>1, <3>2
  <2>4. readers[e].report \in Reports
    BY <2>1, ReaderType
  <2>5. /\ pending[readers[e].report] \in Int /\ (Rounds + 1) * Round \in Int
        /\ Free(e) \in Nat /\ Free(e)' \in Nat
    <3>1. (Rounds + 1) * Round \in Int
      BY RoundsAreEnough
    <3>2. Free(e) \in Nat /\ Free(e)' \in Nat
      BY <1>0, FreeType, FreeTypeNext
    <3>3. QED
      BY <2>4, <3>1, <3>2 DEF Typed, TypeOK
  <2>6. QED
    BY <1>5, <2>1, <2>2, <2>3, <2>5
<1>9. QueuedInTime'
  <2> SUFFICES ASSUME NEW i \in 1 .. Len(channel), NEW r \in Reports, channel[i] = r
               PROVE  Cardinality(Turns(r)') >= i
    BY <1>0 DEF QueuedInTime
  <2>1. r \in Queued /\ r # r0
    BY <1>0, QueuedReports DEF Placement, Placed
  <2>2. pending'[r] = pending[r]
    BY <1>2, <2>1
  <2>3. Cardinality(Turns(r)) <= Cardinality(Turns(r)')
    BY <1>0, <1>5, <2>2, TurnsKept
  <2>4. Cardinality(Turns(r)) >= i
    BY DEF Timely, QueuedInTime
  <2>5. QED
    BY <2>3, <2>4, TurnsFinite, TurnsFinitePrime
<1>10. QED
  BY <1>6, <1>7, <1>8, <1>9 DEF Timely

(* The clock does not pass the end of a post, and not while a report and a   *)
(* reader wait for each other.                                               *)
LEMMA TimelyTick ==
    ASSUME Typed, Typed', Timely, Tick
    PROVE  Timely'
<1>0. /\ UNCHANGED <<channel, readers, pending>> /\ now' = now + 1 /\ now \in Nat
      /\ \A d \in Readers : IF ~Busy(d) THEN channel = <<>>
                            ELSE now < readers[d].since + ReadTimeout
  <2>1. UNCHANGED <<channel, readers, pending>> /\ now' = now + 1 /\ now \in Nat
    BY DEF Tick, Typed, TypeOK
  <2>2. \A d \in Readers : ~Busy(d) <=> readers[d] = Waiting
    BY ReaderType
  <2>3. QED
    BY <2>1, <2>2 DEF Tick
<1>1. Queued' = Queued /\ Held' = Held
  BY <1>0 DEF Queued, Held
<1>2. \A d \in Readers : (Busy(d)' <=> Busy(d)) /\ (Busy(d) => Free(d)' = Free(d))
  BY <1>0 DEF Busy, Free
<1>3. PostsEnd'
  <2> SUFFICES ASSUME NEW d \in Readers, Busy(d)
               PROVE  readers[d].since <= now + 1 /\ now + 1 <= readers[d].since + ReadTimeout
    BY <1>0, <1>2 DEF PostsEnd
  <2>1. readers[d].since <= now /\ readers[d].since \in Nat /\ ReadTimeout \in Nat
    BY ReaderType, ConstantTypes DEF Timely, PostsEnd
  <2>2. now < readers[d].since + ReadTimeout
    BY <1>0
  <2>3. QED
    BY <1>0, <2>1, <2>2
<1>4. PendingIsOpen'
  BY <1>0, <1>1 DEF Timely, PendingIsOpen
<1>5. HeldInTime'
  BY <1>0, <1>2 DEF Timely, HeldInTime
<1>6. QueuedInTime'
  <2> SUFFICES ASSUME NEW i \in 1 .. Len(channel), NEW r \in Reports, channel[i] = r
               PROVE  Cardinality(Turns(r)') >= i
    BY <1>0 DEF QueuedInTime
  <2>1. channel # <<>>
    BY EmptySeq DEF Typed, TypeOK
  <2>2. \A d \in Readers : Free(d)' <= Free(d)
    <3>1. \A d \in Readers : Busy(d)
      BY <1>0, <2>1
    <3>2. \A d \in Readers : Free(d) \in Nat
      BY FreeType
    <3>3. QED
      BY <1>2, <3>1, <3>2
  <2>3. Cardinality(Turns(r)) <= Cardinality(Turns(r)')
    BY <1>0, <2>2, TurnsKept
  <2>4. Cardinality(Turns(r)) >= i
    BY DEF Timely, QueuedInTime
  <2>5. QED
    BY <2>3, <2>4, TurnsFinite, TurnsFinitePrime
<1>7. QED
  BY <1>3, <1>4, <1>5, <1>6 DEF Timely

(* For every report in the channel as many turns of the readers come in      *)
(* time as there are reports up to it.                                       *)
THEOREM ReportQueueTimely == Spec => []Timely
<1>1. ASSUME Init PROVE Timely
  <2>1. \A d \in Readers : ~Busy(d)
    BY <1>1 DEF Init, Busy, Waiting
  <2>2. Queued = {} /\ Held = {} /\ Len(channel) = 0
    BY <1>1 DEF Init, Queued, Held, Waiting
  <2>3. \A r \in Reports : pending[r] = -1
    BY <1>1 DEF Init
  <2>4. QED
    BY <2>1, <2>2, <2>3 DEF Timely, PostsEnd, PendingIsOpen, HeldInTime, QueuedInTime
<1>2. Typed /\ Typed' /\ Placement /\ Timely /\ [Next]_vars => Timely'
  <2> SUFFICES ASSUME Typed, Typed', Placement, Timely, [Next]_vars PROVE Timely'
    OBVIOUS
  <2>1. CASE Send
    BY <2>1, TimelySend
  <2>2. CASE Drop \/ UNCHANGED vars
    <3>1. UNCHANGED <<channel, readers, now, pending>>
      BY <2>2 DEF Drop, vars
    <3>2. Queued' = Queued /\ Held' = Held
      BY <3>1 DEF Queued, Held
    <3>3. \A d \in Readers : (Busy(d)' <=> Busy(d)) /\ Free(d)' = Free(d)
      BY <3>1 DEF Busy, Free
    <3>4. \A r \in Reports : Turns(r)' = Turns(r)
      <4> SUFFICES ASSUME NEW r \in Reports PROVE Turns(r)' = Turns(r)
        OBVIOUS
      <4>1. \A t \in Occasions : Free(t[1])' = Free(t[1])
        BY <3>3, OccasionType
      <4>2. QED
        BY <3>1, <4>1 DEF Turns
    <3>5. PostsEnd' /\ PendingIsOpen' /\ HeldInTime'
      BY <3>1, <3>2, <3>3 DEF Timely, PostsEnd, PendingIsOpen, HeldInTime
    <3>6. QueuedInTime'
      BY <3>1, <3>4 DEF Timely, QueuedInTime
    <3>7. QED
      BY <3>5, <3>6 DEF Timely
  <2>3. ASSUME NEW d \in Readers, Step(d) PROVE Timely'
    BY <2>3, TimelyReceive, TimelyPost DEF Step
  <2>4. CASE Tick
    BY <2>4, TimelyTick
  <2>5. QED
    BY <2>1, <2>2, <2>3, <2>4 DEF Next
<1>3. QED
  BY <1>1, <1>2, ReportQueueTyped, ReportQueuePlacement, PTL DEF Spec

(* However slow the addresses are, an accepted report is posted to all of    *)
(* them, one timeout each, within Rounds + 1 rounds of its acceptance: the    *)
(* single buffered channel and its readers never starve one report.          *)
THEOREM ReportQueueDelayBounded == Spec => []DelayBounded
<1>1. ASSUME Typed, Timely PROVE DelayBounded
  <2> SUFFICES ASSUME NEW r \in Reports, pending[r] # -1
               PROVE  now <= pending[r] + (Rounds + 1) * Addresses * ReadTimeout
    BY DEF DelayBounded
  <2>1. /\ pending[r] \in Nat /\ Rounds \in Nat /\ Round \in Nat /\ Rounds * Round \in Nat
        /\ (Rounds + 1) * Round = Rounds * Round + Round
    BY RoundsAreEnough, <1>1 DEF Typed, TypeOK
  <2>2. (Rounds + 1) * Addresses * ReadTimeout = (Rounds + 1) * Round
    BY <2>1, ConstantTypes DEF Round
  <2>3. CASE r \in Queued
    <3>1. PICK i \in 1 .. Len(channel) : channel[i] = r
      BY <2>3 DEF Queued
    <3>2. Cardinality(Turns(r)) >= 1
      BY <1>1, <3>1, TurnsFinite DEF Timely, QueuedInTime
    <3>3. PICK t \in Turns(r) : TRUE
      <4>1. Cardinality({}) = 0
        BY FS_EmptySet
      <4>2. ~(Cardinality({}) >= 1)
        BY <4>1
      <4>3. Turns(r) # {}
        BY <3>2, <4>2
      <4>4. QED
        BY <4>3
    <3>4. t \in Occasions /\ Free(t[1]) + t[2] * Round <= pending[r] + Rounds * Round
      BY DEF Turns
    <3>5. t[1] \in Readers /\ t[2] * Round \in Nat
      BY <3>4, OccasionType
    <3>6. Free(t[1]) \in Nat /\ now \in Nat /\ now <= Free(t[1])
      BY <1>1, <3>5, FreeBounds DEF Timely
    <3>7. now <= pending[r] + (Rounds + 1) * Round
      BY <2>1, <3>4, <3>5, <3>6
    <3>8. QED
      BY <2>2, <3>7
  <2>4. CASE r \in Held
    <3>1. PICK d \in Readers : Busy(d) /\ readers[d].report = r
      BY <1>1, <2>4, HeldOrNot
    <3>2. Free(d) <= pending[r] + (Rounds + 1) * Round
      BY <1>1, <3>1 DEF Timely, HeldInTime
    <3>3. Free(d) \in Nat /\ now \in Nat /\ now <= Free(d)
      BY <1>1, FreeBounds DEF Timely
    <3>4. now <= pending[r] + (Rounds + 1) * Round
      BY <2>1, <3>2, <3>3
    <3>5. QED
      BY <2>2, <3>4
  <2>5. QED
    BY <1>1, <2>3, <2>4 DEF Timely, PendingIsOpen
<1>2. QED
  BY <1>1, ReportQueueTyped, ReportQueueTimely, PTL

(* The channel never holds more than its buffer, and every reader's record   *)
(* is a report and an address, or that of a reader that waits.               *)
THEOREM ReportQueueTypeOK == Spec => []TypeOK
<1>1. Typed => TypeOK
  BY DEF Typed
<1>2. QED
  BY <1>1, ReportQueueTyped, PTL
=============================================================================
