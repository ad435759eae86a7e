---------------------------- MODULE RadiusServer ----------------------------
(***************************************************************************)
(* The RADIUS server: the packet loop of layeh.com/radius, which starts a  *)
(* goroutine per datagram and drops a packet whose client address and      *)
(* identifier are already being handled, and the handlers of               *)
(* radius/handler.go with the class numbers of radius/radius.go.           *)
(*                                                                         *)
(* The clients and the network are the environment: any packet may arrive  *)
(* at any time, any number of times, which covers loss, delay, reordering  *)
(* and retransmission.  Api.Get is here what module Api shows it to be: it *)
(* takes a while and returns an answer or an error.  The report channels   *)
(* are here their lengths; module ReportQueue has their readers.           *)
(*                                                                         *)
(* The process may stop at any time and start again with empty memory and  *)
(* with the clock as its first class number.                               *)
(***************************************************************************)
EXTENDS Integers, Sequences, FiniteSets

CONSTANTS
    Requests,      \* packets: their key <client address, identifier> and their code
    Goroutines,    \* how many packets can be in work at once
    Answers,       \* what the API answers: ip, pool, lease and status
    Wrap,          \* 2^32: a session timeout is an unsigned 32 bit number
    Capacity,      \* the buffer of each report channel
    NoRequest, NoAnswer,
    MaxHandled,    \* bound of the model: so many packets are admitted
    MaxRestarts,   \* bound of the model: so many restarts
    MaxTime        \* bound of the model: the clock stops here

ASSUME RadiusServerAssumption ==
    /\ Requests \subseteq [id : Nat, key : STRING, code : {"access", "acct", "other"}]
    /\ Answers \subseteq [ip     : {"none", "ipv4", "other"},   \* other: no IPv4 address
                          pool   : {"none", "fits", "long"},    \* long: above 253 bytes
                          lease  : Int,
                          status : STRING]
    /\ Wrap \in Nat \ {0}
    /\ \A x \in Answers : x.status # "ERROR"   \* the server's own word
    /\ IsFiniteSet(Goroutines)
    /\ NoRequest \notin Requests
    /\ NoAnswer \notin Answers
    /\ Capacity \in Nat \ {0}
    /\ MaxHandled \in Nat /\ MaxRestarts \in Nat /\ MaxTime \in Nat

VARIABLES
    requests,    \* the keys being handled (the map in PacketServer.Serve)
    handlers,    \* what each goroutine does
    classId,     \* Radius.classId
    postAuth,    \* how many post-auth reports wait in the channel
    acct,        \* how many accounting reports wait in the channel
    metrics,     \* counters of package prom, all hosts together
    now,         \* the clock, in seconds
    restarts,    \* history: how often the process was started again
    handled,     \* history: how many packets were admitted
    firstClass,  \* history: classId when the process started
    issued,      \* history: the class numbers handed out, in order
    ahead,       \* history: at some restart the class numbers were ahead of the clock
    replies,     \* history: the Access-Accepts written to the network
    reports      \* history: the post-auth reports made, dropped ones included

vars == <<requests, handlers, classId, postAuth, acct, metrics, now,
          restarts, handled, firstClass, issued, ahead, replies, reports>>

(* Why a request was refused: there was no answer that assigns anything, or  *)
(* the reply could not be written.                                           *)
Errors == {"", "answer", "write"}

Handler == [pc     : {"idle", "class", "ask", "respond", "report", "account", "ack", "end"},
            req    : Requests \cup {NoRequest},
            class  : Nat,
            answer : Answers \cup {NoAnswer},
            error  : Errors]

Idle == [pc |-> "idle", req |-> NoRequest, class |-> 0, answer |-> NoAnswer, error |-> ""]

(* session 0: the Access-Accept has no Session-Timeout. *)
Reply  == [run : Nat, class : Nat, req : Requests, ip : BOOLEAN, pool : BOOLEAN,
           session : 0 .. Wrap - 1]
Report == [run : Nat, class : Nat, req : Requests, error : Errors, lease : Int,
           status : {x.status : x \in Answers} \cup {"ERROR"}]

TypeOK ==
    /\ requests \subseteq {r.key : r \in Requests}
    /\ handlers \in [Goroutines -> Handler]
    /\ classId \in Nat
    /\ postAuth \in 0 .. Capacity
    /\ acct \in 0 .. Capacity
    /\ metrics \in [radRequests : Nat, radCritical : Nat]
    /\ now \in Nat /\ restarts \in Nat /\ handled \in Nat /\ firstClass \in Nat
    /\ issued \in Seq(Nat)
    /\ ahead \in BOOLEAN
    /\ replies \subseteq Reply
    /\ reports \subseteq Report

-----------------------------------------------------------------------------

NoneCounted == [radRequests |-> 0, radCritical |-> 0]

Init ==
    /\ requests = {}
    /\ handlers = [g \in Goroutines |-> Idle]
    /\ classId = 0
    /\ postAuth = 0
    /\ acct = 0
    /\ metrics = NoneCounted
    /\ now = 0
    /\ restarts = 0
    /\ handled = 0
    /\ firstClass = 0
    /\ issued = <<>>
    /\ ahead = FALSE
    /\ replies = {}
    /\ reports = {}

hist == <<restarts, firstClass, issued, ahead, replies, reports>>

log == <<restarts, firstClass, issued, ahead>>

Active == {g \in Goroutines : handlers[g].pc # "idle"}

FirstStep(code) == CASE code = "access" -> "class"
                     [] code = "acct"   -> "account"
                     [] code = "other"  -> "end"

AdmitUnchecked(g, r) ==                             \* mutant: no look into the map
    /\ handlers[g].pc = "idle"
    /\ handled < MaxHandled
    /\ requests' = requests \cup {r.key}
    /\ handlers' = [handlers EXCEPT ![g] = [Idle EXCEPT !.pc = FirstStep(r.code), !.req = r]]
    /\ handled' = handled + 1
    /\ UNCHANGED <<classId, postAuth, acct, metrics, now, hist>>
(* A packet whose key is in work is dropped: nothing changes. *)
Admit(g, r) ==
    /\ handlers[g].pc = "idle"
    /\ handled < MaxHandled
    /\ r.key \notin requests
    /\ requests' = requests \cup {r.key}
    /\ handlers' = [handlers EXCEPT ![g] = [Idle EXCEPT !.pc = FirstStep(r.code), !.req = r]]
    /\ handled' = handled + 1
    /\ UNCHANGED <<classId, postAuth, acct, metrics, now, hist>>

GetClassId(g) ==
    /\ handlers[g].pc = "class"
    /\ classId' = classId + 1
    /\ issued' = Append(issued, classId')
    /\ handlers' = [handlers EXCEPT ![g].pc = "ask", ![g].class = classId']
    /\ UNCHANGED <<requests, postAuth, acct, metrics, now, restarts, handled, firstClass, ahead,
                   replies, reports>>

(* The error path: no reply, a report with status ERROR. *)
Refuse(g, error) ==
    handlers' = [handlers EXCEPT ![g].pc = "report", ![g].error = error]

Counted(metric) == metrics' = [metrics EXCEPT ![metric] = @ + 1]

ApiFails(g) ==
    /\ handlers[g].pc = "ask"
    /\ Refuse(g, "answer")
    /\ Counted("radCritical")
    /\ UNCHANGED <<requests, classId, postAuth, acct, now, handled, hist>>

ApiAnswers(g, x) ==
    /\ handlers[g].pc = "ask"
    /\ IF x.ip = "none" /\ x.pool = "none"
       THEN Refuse(g, "answer") /\ Counted("radCritical")
       ELSE /\ handlers' = [handlers EXCEPT ![g].pc = "respond", ![g].answer = x]
            /\ Counted("radRequests")
    /\ UNCHANGED <<requests, classId, postAuth, acct, now, handled, hist>>

GetRadiusResponseType(x) == IF x.ip # "none" THEN "SetIpAddress" ELSE "SetPool"

(* The lease as an unsigned 32 bit number; a lease of 0 sets no timeout. *)
SessionTimeout(lease) == lease % Wrap

(* _respondAuthAccept: an attribute that can not be built is logged and left *)
(* out; the address goes before the pool.                                    *)
Accept(g) ==
    LET x == handlers[g].answer
    IN  [run   |-> restarts,
         class |-> handlers[g].class,
         req   |-> handlers[g].req,
         ip    |-> GetRadiusResponseType(x) = "SetIpAddress" /\ x.ip = "ipv4",
         pool  |-> GetRadiusResponseType(x) = "SetPool" /\ x.pool = "fits",
         session |-> SessionTimeout(x.lease)]

RespondUnreported(g) ==                             \* mutant: returns after the reply
    /\ handlers[g].pc = "respond"
    /\ replies' = replies \cup {Accept(g)}
    /\ handlers' = [handlers EXCEPT ![g].pc = "end"]
    /\ UNCHANGED <<requests, classId, postAuth, acct, metrics, now, handled, log, reports>>
Respond(g) ==
    /\ handlers[g].pc = "respond"
    /\ replies' = replies \cup {Accept(g)}
    /\ handlers' = [handlers EXCEPT ![g].pc = "report"]
    /\ UNCHANGED <<requests, classId, postAuth, acct, metrics, now, handled, log, reports>>

RespondFailsUnseen(g) ==                            \* mutant: Write's error not looked at
    /\ handlers[g].pc = "respond"
    /\ handlers' = [handlers EXCEPT ![g].pc = "report"]
    /\ UNCHANGED <<requests, classId, postAuth, acct, metrics, now, handled, hist>>
RespondFails(g) ==
    /\ handlers[g].pc = "respond"
    /\ Refuse(g, "write")
    /\ UNCHANGED <<requests, classId, postAuth, acct, metrics, now, handled, hist>>

(* The report repeats the answer, or says ERROR and nothing of the answer. *)
ReportOf(g) ==
    LET h == handlers[g]
        granted == h.error = ""
    IN  [run    |-> restarts, class |-> h.class, req |-> h.req, error |-> h.error,
         status |-> IF granted THEN h.answer.status ELSE "ERROR",
         lease  |-> IF granted THEN h.answer.lease ELSE 0]

SendPostAuthUnbounded(g) ==                         \* mutant: no limit
    /\ handlers[g].pc = "report"
    /\ postAuth' = postAuth + 1
    /\ reports' = reports \cup {ReportOf(g)}
    /\ metrics' = IF handlers[g].error = "write"
                  THEN [metrics EXCEPT !.radCritical = @ + 1] ELSE metrics
    /\ handlers' = [handlers EXCEPT ![g].pc = "end"]
    /\ UNCHANGED <<requests, classId, acct, now, handled, log, replies>>
SendPostAuthWaits(g) ==                             \* mutant: waits for room
    /\ handlers[g].pc = "report"
    /\ postAuth < Capacity
    /\ postAuth' = postAuth + 1
    /\ reports' = reports \cup {ReportOf(g)}
    /\ metrics' = IF handlers[g].error = "write"
                  THEN [metrics EXCEPT !.radCritical = @ + 1] ELSE metrics
    /\ handlers' = [handlers EXCEPT ![g].pc = "end"]
    /\ UNCHANGED <<requests, classId, acct, now, handled, log, replies>>
SendPostAuthUncounted(g) ==                         \* mutant: a failed write is not counted
    /\ handlers[g].pc = "report"
    /\ postAuth' = IF postAuth < Capacity THEN postAuth + 1 ELSE postAuth
    /\ reports' = reports \cup {ReportOf(g)}
    /\ handlers' = [handlers EXCEPT ![g].pc = "end"]
    /\ UNCHANGED <<requests, classId, acct, metrics, now, handled, log, replies>>
(* A failed write is counted after its report, the other errors before. *)
SendPostAuth(g) ==
    /\ handlers[g].pc = "report"
    /\ postAuth' = IF postAuth < Capacity THEN postAuth + 1 ELSE postAuth
    /\ reports' = reports \cup {ReportOf(g)}
    /\ metrics' = IF handlers[g].error = "write"
                  THEN [metrics EXCEPT !.radCritical = @ + 1] ELSE metrics
    /\ handlers' = [handlers EXCEPT ![g].pc = "end"]
    /\ UNCHANGED <<requests, classId, acct, now, handled, log, replies>>

SendAcct(g) ==
    /\ handlers[g].pc = "account"
    /\ acct' = IF acct < Capacity THEN acct + 1 ELSE acct
    /\ handlers' = [handlers EXCEPT ![g].pc = "ack"]
    /\ UNCHANGED <<requests, classId, postAuth, metrics, now, handled, hist>>

(* The Accounting-Response; whether it could be written is not looked at. *)
Acknowledge(g) ==
    /\ handlers[g].pc = "ack"
    /\ handlers' = [handlers EXCEPT ![g].pc = "end"]
    /\ UNCHANGED <<requests, classId, postAuth, acct, metrics, now, handled, hist>>

Release(g) ==
    /\ handlers[g].pc = "end"
    /\ requests' = requests \ {handlers[g].req.key}
    /\ handlers' = [handlers EXCEPT ![g] = Idle]
    /\ UNCHANGED <<classId, postAuth, acct, metrics, now, handled, hist>>

TakePostAuth ==
    /\ postAuth > 0
    /\ postAuth' = postAuth - 1
    /\ UNCHANGED <<requests, handlers, classId, acct, metrics, now, handled, hist>>

TakeAcct ==
    /\ acct > 0
    /\ acct' = acct - 1
    /\ UNCHANGED <<requests, handlers, classId, postAuth, metrics, now, handled, hist>>

RestartFromZero ==                                  \* mutant: classes start at 1
    /\ restarts < MaxRestarts
    /\ restarts' = restarts + 1
    /\ requests' = {}
    /\ handlers' = [g \in Goroutines |-> Idle]
    /\ classId' = 0
    /\ firstClass' = classId'
    /\ ahead' = (ahead \/ classId > now)
    /\ postAuth' = 0
    /\ acct' = 0
    /\ metrics' = NoneCounted
    /\ UNCHANGED <<now, handled, issued, replies, reports>>
Restart ==
    /\ restarts < MaxRestarts
    /\ restarts' = restarts + 1
    /\ requests' = {}
    /\ handlers' = [g \in Goroutines |-> Idle]
    /\ classId' = now
    /\ firstClass' = classId'
    /\ ahead' = (ahead \/ classId > now)
    /\ postAuth' = 0
    /\ acct' = 0
    /\ metrics' = NoneCounted
    /\ UNCHANGED <<now, handled, issued, replies, reports>>

Tick ==
    /\ now < MaxTime
    /\ now' = now + 1
    /\ UNCHANGED <<requests, handlers, classId, postAuth, acct, metrics, handled, hist>>

Step(g) ==
    \/ GetClassId(g) \/ ApiFails(g) \/ (\E x \in Answers : ApiAnswers(g, x))
    \/ Respond(g) \/ RespondFails(g) \/ SendPostAuth(g)
    \/ SendAcct(g) \/ Acknowledge(g) \/ Release(g)

Next ==
    \/ \E g \in Goroutines : (\E r \in Requests : Admit(g, r)) \/ Step(g)
    \/ TakePostAuth \/ TakeAcct \/ Restart \/ Tick

Spec == Init /\ [][Next]_vars

(* Every goroutine that can run does, and Api.Get returns (module Api).  The *)
(* readers of the report channels are not relied on.                         *)
FairSpec == Spec /\ \A g \in Goroutines : WF_vars(Step(g))

-----------------------------------------------------------------------------
(* Properties *)

(* A client's packet and its retransmissions are never handled side by side, *)
(* and the map holds exactly the keys in work: a key left behind would make  *)
(* the server deaf to that client address and identifier for good.           *)
KeysAreHeld ==
    /\ requests = {handlers[g].req.key : g \in Active}
    /\ \A g, h \in Active : handlers[g].req.key = handlers[h].req.key => g = h

(* No class number is handed out twice, also not by two runs of the process, *)
(* unless a restart found the numbers ahead of the clock (more than one      *)
(* access request per second since the start).                               *)
ClassUnique ==
    \/ ahead
    \/ \A i, j \in 1 .. Len(issued) : issued[i] = issued[j] => i = j

(* Accounting and post-auth data meet in the class number: a report that is  *)
(* no ERROR is about an Access-Accept that was written before, to the same   *)
(* request with the same class, with the lease the client was given if that  *)
(* is a number of 32 bits; and an ERROR is about none.                       *)
ReportsAreTrue ==
    \A p \in reports :
        (p.status # "ERROR") <=>
            \E a \in replies : /\ a.run = p.run /\ a.class = p.class /\ a.req = p.req
                               /\ p.lease \in 0 .. Wrap - 1 => a.session = p.lease

(* Every class number of the running process is with one handler that still  *)
(* has to report it, or in exactly one report, made by the return path that  *)
(* was taken: no request and no grant goes unreported while the process runs.*)
EveryClassIsReported ==
    \A n \in firstClass + 1 .. classId :
        Cardinality({g \in Active : handlers[g].class = n
                                   /\ handlers[g].pc \in {"ask", "respond", "report"}})
          + Cardinality({p \in reports : p.run = restarts /\ p.class = n}) = 1

(* The metrics agree with the reports: rad_critical_count is the access      *)
(* requests that got no reply, rad_request_count those with an assignment,   *)
(* although both are counted apart from the report, some before and some     *)
(* after it.                                                                 *)
Reported(errors) == {p \in reports : p.run = restarts /\ p.error \in errors}

Reporting(errors) ==
    {g \in Active : handlers[g].pc = "report" /\ handlers[g].error \in errors}

Responding == {g \in Active : handlers[g].pc = "respond"}

MetricsAddUp ==
    /\ metrics.radCritical = Cardinality(Reported({"answer", "write"}))
                               + Cardinality(Reporting({"answer"}))
    /\ metrics.radRequests = Cardinality(Reported({"", "write"}))
                               + Cardinality(Reporting({"", "write"})) + Cardinality(Responding)

(* A packet in work is done with in the end and its key is free again,       *)
(* whatever the API answers and however full the report channels are.        *)
KeysAreFreed ==
    \A k \in {r.key : r \in Requests} : k \in requests ~> k \notin requests
=============================================================================
