---------------------------- MODULE ReportQueue ----------------------------
(***************************************************************************)
(* One of the two report queues of the API client (api/api.go): post-auth  *)
(* reports or accounting reports.  Handlers put reports into a buffered    *)
(* channel and never wait: with the buffer full the report is dropped.     *)
(* count_readers goroutines take reports out and post each to every        *)
(* configured address in turn; a failed post is logged and not repeated.   *)
(*                                                                         *)
(* Time is counted in ticks; a reader that can take a report takes it      *)
(* before the clock advances, and a post lasts at most the timeout of the  *)
(* reader's own HTTP client.                                               *)
(***************************************************************************)
EXTENDS Integers, Sequences, FiniteSets

CONSTANTS
    Capacity,      \* the channel's buffer
    Readers,       \* the reader goroutines
    Addresses,     \* how many addresses each report goes to
    ReadTimeout,   \* timeout of a reader's HTTP client, req.New()'s default
    MaxReports,    \* bound of the model: so many reports are sent
    MaxTime        \* bound of the model: the clock stops here

ASSUME ReportQueueAssumption ==
    /\ Capacity \in Nat \ {0}
    /\ IsFiniteSet(Readers) /\ Readers # {}   \* count_readers 0: nothing is ever posted
    /\ Addresses \in Nat \ {0}
    /\ ReadTimeout \in Nat \ {0}
    /\ MaxReports \in Nat
    /\ MaxTime \in Nat

VARIABLES
    channel,   \* the buffered channel
    readers,   \* what each reader does
    now,       \* the clock
    sent,      \* history: how many reports handlers sent, dropped ones included
    dropped,   \* history: the reports that found the channel full
    pending,   \* history: when each report that is not finished was accepted
    posted     \* history: how often each report was posted to each address

vars == <<channel, readers, now, sent, dropped, pending, posted>>

(* Reports are numbered in the order they were sent. *)
Reports == 1 .. MaxReports
Sent    == 1 .. sent

(* A reader waits for a report (0), or posts one to the at-th address since. *)
Reader  == [report : 0 .. MaxReports, at : 0 .. Addresses, since : Nat]
Waiting == [report |-> 0, at |-> 0, since |-> 0]

Held == {readers[d].report : d \in Readers} \ {0}
Queued == {channel[i] : i \in 1 .. Len(channel)}

TypeOK ==
    /\ channel \in Seq(Reports) /\ Len(channel) <= Capacity
    /\ readers \in [Readers -> Reader]
    /\ now \in Nat
    /\ sent \in 0 .. MaxReports
    /\ dropped \subseteq Reports
    /\ pending \in [Reports -> Nat \cup {-1}]
    /\ posted \in [Reports -> [1 .. Addresses -> Nat]]

-----------------------------------------------------------------------------

Init ==
    /\ channel = <<>>
    /\ readers = [d \in Readers |-> Waiting]
    /\ now = 0
    /\ sent = 0
    /\ dropped = {}
    /\ pending = [r \in Reports |-> -1]
    /\ posted = [r \in Reports |-> [i \in 1 .. Addresses |-> 0]]

SendUnbounded ==                                    \* mutant: no limit
    /\ sent < MaxReports
    /\ sent' = sent + 1
    /\ channel' = Append(channel, sent')
    /\ pending' = [pending EXCEPT ![sent'] = now]
    /\ UNCHANGED <<readers, now, dropped, posted>>
Send ==
    /\ sent < MaxReports
    /\ Len(channel) < Capacity
    /\ sent' = sent + 1
    /\ channel' = Append(channel, sent')
    /\ pending' = [pending EXCEPT ![sent'] = now]
    /\ UNCHANGED <<readers, now, dropped, posted>>

DropEarly ==                                        \* mutant: the last place is not used
    /\ sent < MaxReports
    /\ Len(channel) >= Capacity - 1
    /\ sent' = sent + 1
    /\ dropped' = dropped \cup {sent'}
    /\ UNCHANGED <<channel, readers, now, pending, posted>>
Drop ==
    /\ sent < MaxReports
    /\ Len(channel) = Capacity
    /\ sent' = sent + 1
    /\ dropped' = dropped \cup {sent'}
    /\ UNCHANGED <<channel, readers, now, pending, posted>>

ReceiveNewest(d) ==                                 \* mutant: last in, first out
    /\ readers[d] = Waiting
    /\ channel # <<>>
    /\ readers' = [readers EXCEPT ![d] =
                     [report |-> channel[Len(channel)], at |-> 1, since |-> now]]
    /\ channel' = SubSeq(channel, 1, Len(channel) - 1)
    /\ UNCHANGED <<now, sent, dropped, pending, posted>>
ReceiveKept(d) ==                                   \* mutant: read, not taken out
    /\ readers[d] = Waiting
    /\ channel # <<>>
    /\ readers' = [readers EXCEPT ![d] =
                     [report |-> Head(channel), at |-> 1, since |-> now]]
    /\ UNCHANGED <<channel, now, sent, dropped, pending, posted>>
Receive(d) ==
    /\ readers[d] = Waiting
    /\ channel # <<>>
    /\ readers' = [readers EXCEPT ![d] =
                     [report |-> Head(channel), at |-> 1, since |-> now]]
    /\ channel' = Tail(channel)
    /\ UNCHANGED <<now, sent, dropped, pending, posted>>

(* The report is posted to one address; whether that succeeded or failed,   *)
(* the reader goes on to the next one.                                      *)
Posted(d) ==
    posted' = [posted EXCEPT ![readers[d].report][readers[d].at] = @ + 1]

PostAgain(d) ==                                     \* mutant: repeats the post
    /\ readers[d].report # 0
    /\ readers[d].at < Addresses
    /\ readers' = [readers EXCEPT ![d].since = now]
    /\ UNCHANGED <<channel, now, sent, dropped, pending, posted>>
PostToNext(d) ==
    /\ readers[d].report # 0
    /\ readers[d].at < Addresses
    /\ Posted(d)
    /\ readers' = [readers EXCEPT ![d].at = @ + 1, ![d].since = now]
    /\ UNCHANGED <<channel, now, sent, dropped, pending>>

PostToLast(d) ==
    /\ readers[d].report # 0
    /\ readers[d].at = Addresses
    /\ Posted(d)
    /\ readers' = [readers EXCEPT ![d] = Waiting]
    /\ pending' = [pending EXCEPT ![readers[d].report] = -1]
    /\ UNCHANGED <<channel, now, sent, dropped>>

Tick ==
    /\ now < MaxTime
    /\ \A d \in Readers : IF readers[d] = Waiting THEN channel = <<>>
                          ELSE now < readers[d].since + ReadTimeout
    /\ now' = now + 1
    /\ UNCHANGED <<channel, readers, sent, dropped, pending, posted>>

Step(d) == Receive(d) \/ PostToNext(d) \/ PostToLast(d)

Next ==
    \/ Send
    \/ Drop
    \/ \E d \in Readers : Step(d)
    \/ Tick

Spec == Init /\ [][Next]_vars

(* The scheduler runs every reader, and a post ends by its timeout. *)
FairSpec == Spec /\ \A d \in Readers : WF_vars(Step(d))

-----------------------------------------------------------------------------
(* Properties *)

Finished(r) == \A i \in 1 .. Addresses : posted[r][i] > 0

(* A report is in exactly one place: dropped, in the channel, with one       *)
(* reader, or finished, and no address gets it twice.  Handlers and readers  *)
(* share nothing but the channel; none of them loses a report.               *)
NoneLostNoneTwice ==
    \A r \in Sent :
        /\ Cardinality({i \in 1 .. Len(channel) : channel[i] = r})
             + Cardinality({d \in Readers : readers[d].report = r})
             + (IF r \in dropped THEN 1 ELSE 0)
             + (IF Finished(r) THEN 1 ELSE 0) = 1
        /\ \A i \in 1 .. Addresses : posted[r][i] <= 1

(* A later report reaches an address before an earlier one only while a      *)
(* reader holds the earlier one: no report is overtaken in the channel.      *)
OvertakenIsHeld ==
    \A r, s \in Sent : \A i \in 1 .. Addresses :
        (r < s /\ r \notin dropped /\ posted[s][i] > 0 /\ posted[r][i] = 0)
            => r \in Held

(* How long a report can take: in the channel, a share of the reports ahead  *)
(* of it per reader, then itself, each at most one timeout per address.      *)
Rounds == (Capacity + Cardinality(Readers) - 1) \div Cardinality(Readers)

(* An accepted report is finished within Rounds + 1 full posting rounds,     *)
(* even if every address lets every post time out.                           *)
DelayBounded ==
    \A r \in Reports :
        pending[r] # -1 => now <= pending[r] + (Rounds + 1) * Addresses * ReadTimeout

Promise == INSTANCE Reporter WITH
    open      <- Queued \cup Held,
    delivered <- {r \in Sent : Finished(r)},
    refused   <- dropped

(* The queue keeps the promise of module Reporter: each report is taken or,  *)
(* with at least a channel full of reports open, refused, and what is taken  *)
(* stays open until it has been posted to the last address, however the      *)
(* readers interleave.                                                       *)
ReporterSpec == Promise!Spec

(* Every report that was not dropped is posted to every address.             *)
AcceptedIsReported ==
    \A r \in Reports : (r \in Queued) ~> Finished(r)
=============================================================================
