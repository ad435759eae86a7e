------------------------- MODULE RadiusServerProofs -------------------------
(***************************************************************************)
(* Proofs about the RADIUS server, for any packets, answers, goroutines and *)
(* bounds.  Every invariant is proved over any interleaving of handlers and *)
(* over restarts at any moment.                                             *)
(***************************************************************************)
EXTENDS RadiusServer, FiniteSetTheorems, SequenceTheorems, TLAPS

(* What a handler has in hand at each of its steps: a packet, no error until *)
(* one occurs, and an answer when it replies or reports a grant.             *)
Equipped(h) ==
    /\ h \in Handler
    /\ h.pc # "idle" => h.req \in Requests
    /\ h.pc \in {"class", "ask", "respond"} => h.error = ""
    /\ h.pc = "respond" => h.answer \in Answers
    /\ h.pc = "report" /\ h.error = "" => h.answer \in Answers

AllEquipped == \A g \in Goroutines : Equipped(handlers[g])

Typed == TypeOK /\ AllEquipped

(* A lease, as the number the client is given, fits into Wrap. *)
LEMMA SessionTimeoutType ==
    ASSUME NEW x \in Answers
    PROVE  SessionTimeout(x.lease) \in 0 .. Wrap - 1
<1>1. x.lease \in Int /\ Wrap \in Nat \ {0}
  BY RadiusServerAssumption
<1>2. QED
  BY <1>1 DEF SessionTimeout

(* A step of one handler replaces its record and no other. *)
LEMMA HandlerStep ==
    ASSUME Typed, NEW g \in Goroutines, NEW h, Equipped(h),
           handlers' = [handlers EXCEPT ![g] = h]
    PROVE  /\ handlers' \in [Goroutines -> Handler]
           /\ AllEquipped'
           /\ handlers'[g] = h
           /\ \A i \in Goroutines : i # g => handlers'[i] = handlers[i]
  BY DEF Typed, TypeOK, AllEquipped, Equipped

(* Every handler keeps a request from its admission to its release, and has  *)
(* an answer of the API whenever it writes one or reports a grant.           *)
THEOREM RadiusServerTyped == Spec => []Typed
<1>1. Init => Typed
  <2> SUFFICES ASSUME Init PROVE Typed
    OBVIOUS
  <2>1. Equipped(Idle) /\ Idle \in Handler
    BY DEF Equipped, Idle, Handler, Errors
  <2>2. handlers \in [Goroutines -> Handler] /\ AllEquipped
    BY <2>1 DEF Init, AllEquipped
  <2>3. QED
    <3>1. metrics \in [radRequests : Nat, radCritical : Nat]
      BY DEF Init, NoneCounted
    <3>2. 0 \in 0 .. Capacity
      BY RadiusServerAssumption
    <3>3. QED
      BY <2>2, <3>1, <3>2, EmptySeq DEF Init, Typed, TypeOK
<1>2. Typed /\ [Next]_vars => Typed'
  <2> SUFFICES ASSUME Typed, [Next]_vars PROVE Typed'
    OBVIOUS
  <2>1. ASSUME NEW g \in Goroutines, NEW r \in Requests, Admit(g, r) PROVE Typed'
    <3> DEFINE h == [Idle EXCEPT !.pc = FirstStep(r.code), !.req = r]
    <3>1. Equipped(h)
      BY RadiusServerAssumption DEF Equipped, Handler, Idle, FirstStep, Errors
    <3>2. handlers' = [handlers EXCEPT ![g] = h]
      BY <2>1 DEF Admit
    <3>3. handlers' \in [Goroutines -> Handler] /\ AllEquipped'
      BY <3>1, <3>2, HandlerStep
    <3>4. QED
      BY <2>1, <3>3 DEF Admit, Typed, TypeOK, hist
  <2>2. ASSUME NEW g \in Goroutines, GetClassId(g) PROVE Typed'
    <3> DEFINE h == [handlers[g] EXCEPT !.pc = "ask", !.class = classId']
    <3>1. Equipped(h)
      <4>1. classId' \in Nat
        BY <2>2 DEF GetClassId, Typed, TypeOK
      <4>2. handlers[g] \in Handler /\ handlers[g].pc = "class"
            /\ handlers[g].req \in Requests /\ handlers[g].error = ""
        BY <2>2 DEF GetClassId, Typed, AllEquipped, Equipped
      <4>3. QED
        BY <4>1, <4>2 DEF Equipped, Handler
    <3>2. handlers' = [handlers EXCEPT ![g] = h]
      BY <2>2 DEF GetClassId, Typed, TypeOK
    <3>3. handlers' \in [Goroutines -> Handler] /\ AllEquipped'
      BY <3>1, <3>2, HandlerStep
    <3>4. QED
      BY <2>2, <3>3 DEF GetClassId, Typed, TypeOK
  <2>3. ASSUME NEW g \in Goroutines, ApiFails(g) PROVE Typed'
    <3> DEFINE h == [handlers[g] EXCEPT !.pc = "report", !.error = "answer"]
    <3>1. Equipped(h)
      BY <2>3 DEF ApiFails, Typed, TypeOK, AllEquipped, Equipped, Handler, Errors
    <3>2. handlers' = [handlers EXCEPT ![g] = h]
      BY <2>3 DEF ApiFails, Refuse, Typed, TypeOK
    <3>3. handlers' \in [Goroutines -> Handler] /\ AllEquipped'
      BY <3>1, <3>2, HandlerStep
    <3>4. QED
      BY <2>3, <3>3 DEF ApiFails, Counted, Typed, TypeOK, hist
  <2>4. ASSUME NEW g \in Goroutines, NEW x \in Answers, ApiAnswers(g, x) PROVE Typed'
    <3> DEFINE refused  == [handlers[g] EXCEPT !.pc = "report", !.error = "answer"]
               assigned == [handlers[g] EXCEPT !.pc = "respond", !.answer = x]
    <3>1. Equipped(refused) /\ Equipped(assigned)
      BY <2>4 DEF ApiAnswers, Typed, TypeOK, AllEquipped, Equipped, Handler, Errors
    <3>2. \/ handlers' = [handlers EXCEPT ![g] = refused]
          \/ handlers' = [handlers EXCEPT ![g] = assigned]
      BY <2>4 DEF ApiAnswers, Refuse, Typed, TypeOK
    <3> HIDE DEF refused, assigned
    <3>3. handlers' \in [Goroutines -> Handler] /\ AllEquipped'
      BY <3>1, <3>2, HandlerStep
    <3>4. QED
      BY <2>4, <3>3 DEF ApiAnswers, Counted, Typed, TypeOK, hist
  <2>5. ASSUME NEW g \in Goroutines, Respond(g) PROVE Typed'
    <3> DEFINE h == [handlers[g] EXCEPT !.pc = "report"]
    <3>1. Equipped(h)
      BY <2>5 DEF Respond, Typed, TypeOK, AllEquipped, Equipped, Handler
    <3>2. handlers' = [handlers EXCEPT ![g] = h]
      BY <2>5 DEF Respond
    <3>3. handlers' \in [Goroutines -> Handler] /\ AllEquipped'
      BY <3>1, <3>2, HandlerStep
    <3>4. /\ handlers[g].req \in Requests
          /\ handlers[g].class \in Nat
          /\ handlers[g].answer \in Answers
      BY <2>5 DEF Respond, Typed, AllEquipped, Equipped, Handler
    <3>5. SessionTimeout(handlers[g].answer.lease) \in 0 .. Wrap - 1
      BY <3>4, SessionTimeoutType
    <3>6. Accept(g) \in Reply
      BY <3>4, <3>5 DEF Accept, Reply, Typed, TypeOK
    <3>7. QED
      BY <2>5, <3>3, <3>6 DEF Respond, Typed, TypeOK, log
  <2>6. ASSUME NEW g \in Goroutines, RespondFails(g) PROVE Typed'
    <3> DEFINE h == [handlers[g] EXCEPT !.pc = "report", !.error = "write"]
    <3>1. Equipped(h)
      BY <2>6 DEF RespondFails, Typed, TypeOK, AllEquipped, Equipped, Handler, Errors
    <3>2. handlers' = [handlers EXCEPT ![g] = h]
      BY <2>6 DEF RespondFails, Refuse, Typed, TypeOK
    <3>3. handlers' \in [Goroutines -> Handler] /\ AllEquipped'
      BY <3>1, <3>2, HandlerStep
    <3>4. QED
      BY <2>6, <3>3 DEF RespondFails, Typed, TypeOK, hist
  <2>7. ASSUME NEW g \in Goroutines, SendPostAuth(g) PROVE Typed'
    <3> DEFINE h == [handlers[g] EXCEPT !.pc = "end"]
    <3>1. Equipped(h)
      BY <2>7 DEF SendPostAuth, Typed, TypeOK, AllEquipped, Equipped, Handler
    <3>2. handlers' = [handlers EXCEPT ![g] = h]
      BY <2>7 DEF SendPostAuth
    <3>3. handlers' \in [Goroutines -> Handler] /\ AllEquipped'
      BY <3>1, <3>2, HandlerStep
    <3>4. /\ handlers[g].req \in Requests
          /\ handlers[g].class \in Nat
          /\ handlers[g].error \in Errors
          /\ handlers[g].error = "" => handlers[g].answer \in Answers
      BY <2>7 DEF SendPostAuth, Typed, AllEquipped, Equipped, Handler
    <3>5. handlers[g].error = "" => handlers[g].answer.lease \in Int
      BY <3>4, RadiusServerAssumption
    <3>6. ReportOf(g) \in Report
      <4>1. restarts \in Nat
        BY DEF Typed, TypeOK
      <4>2. CASE handlers[g].error = ""
        BY <3>4, <3>5, <4>1, <4>2 DEF ReportOf, Report
      <4>3. CASE handlers[g].error # ""
        <5>1. ReportOf(g) = [run |-> restarts, class |-> handlers[g].class,
                             req |-> handlers[g].req, error |-> handlers[g].error,
                             status |-> "ERROR", lease |-> 0]
          BY <4>3 DEF ReportOf
        <5>2. "ERROR" \in {x.status : x \in Answers} \cup {"ERROR"}
          OBVIOUS
        <5>3. \A r, n, q, e : r \in Nat /\ n \in Nat /\ q \in Requests /\ e \in Errors =>
                [run |-> r, class |-> n, req |-> q, error |-> e,
                             status |-> "ERROR", lease |-> 0] \in Report
          BY <5>2 DEF Report
        <5>4. QED
          BY <3>4, <4>1, <5>1, <5>3
      <4>4. QED
        BY <4>2, <4>3
    <3>7. postAuth' \in 0 .. Capacity
      BY <2>7, RadiusServerAssumption DEF SendPostAuth, Typed, TypeOK
    <3>8. metrics' \in [radRequests : Nat, radCritical : Nat]
      <4>1. metrics \in [radRequests : Nat, radCritical : Nat]
        BY DEF Typed, TypeOK
      <4>2. metrics' = metrics \/ metrics' = [metrics EXCEPT !.radCritical = @ + 1]
        BY <2>7 DEF SendPostAuth
      <4>3. QED
        BY <4>1, <4>2
    <3>9. QED
      BY <2>7, <3>3, <3>6, <3>7, <3>8 DEF SendPostAuth, Typed, TypeOK, log
  <2>8. ASSUME NEW g \in Goroutines, SendAcct(g) PROVE Typed'
    <3> DEFINE h == [handlers[g] EXCEPT !.pc = "ack"]
    <3>1. Equipped(h)
      BY <2>8 DEF SendAcct, Typed, TypeOK, AllEquipped, Equipped, Handler
    <3>2. handlers' = [handlers EXCEPT ![g] = h]
      BY <2>8 DEF SendAcct
    <3>3. handlers' \in [Goroutines -> Handler] /\ AllEquipped'
      BY <3>1, <3>2, HandlerStep
    <3>4. acct' \in 0 .. Capacity
      BY <2>8, RadiusServerAssumption DEF SendAcct, Typed, TypeOK
    <3>5. QED
      BY <2>8, <3>3, <3>4 DEF SendAcct, Typed, TypeOK, hist
  <2>9. ASSUME NEW g \in Goroutines, Acknowledge(g) PROVE Typed'
    <3> DEFINE h == [handlers[g] EXCEPT !.pc = "end"]
    <3>1. Equipped(h)
      BY <2>9 DEF Acknowledge, Typed, TypeOK, AllEquipped, Equipped, Handler
    <3>2. handlers' = [handlers EXCEPT ![g] = h]
      BY <2>9 DEF Acknowledge
    <3>3. handlers' \in [Goroutines -> Handler] /\ AllEquipped'
      BY <3>1, <3>2, HandlerStep
    <3>4. QED
      BY <2>9, <3>3 DEF Acknowledge, Typed, TypeOK, hist
  <2>10. ASSUME NEW g \in Goroutines, Release(g) PROVE Typed'
    <3>1. Equipped(Idle)
      BY DEF Equipped, Idle, Handler, Errors
    <3>2. handlers' \in [Goroutines -> Handler] /\ AllEquipped'
      BY <2>10, <3>1, HandlerStep DEF Release
    <3>3. QED
      BY <2>10, <3>2 DEF Release, Typed, TypeOK, hist
  <2>11. CASE TakePostAuth
    BY <2>11, RadiusServerAssumption DEF TakePostAuth, Typed, TypeOK, AllEquipped, hist
  <2>12. CASE TakeAcct
    BY <2>12, RadiusServerAssumption DEF TakeAcct, Typed, TypeOK, AllEquipped, hist
  <2>13. CASE Restart
    <3>1. Equipped(Idle)
      BY DEF Equipped, Idle, Handler, Errors
    <3>2. handlers' \in [Goroutines -> Handler] /\ AllEquipped'
      BY <2>13, <3>1 DEF Restart, AllEquipped, Equipped
    <3>3. QED
      BY <2>13, <3>2, RadiusServerAssumption DEF Restart, NoneCounted, Typed, TypeOK
  <2>14. CASE Tick
    BY <2>14 DEF Tick, Typed, TypeOK, AllEquipped, hist
  <2>15. CASE UNCHANGED vars
    BY <2>15 DEF vars, Typed, TypeOK, AllEquipped
  <2>16. QED
    BY <2>1, <2>2, <2>3, <2>4, <2>5, <2>6, <2>7, <2>8, <2>9, <2>10, <2>11, <2>12, <2>13,
       <2>14, <2>15 DEF Next, Step
<1>3. QED
  BY <1>1, <1>2, PTL DEF Spec

(* Every variable keeps its type, and no handler is in work without the      *)
(* record of its packet.                                                     *)
THEOREM RadiusServerTypeOK == Spec => []TypeOK
<1>1. Typed => TypeOK
  BY DEF Typed
<1>2. QED
  BY <1>1, RadiusServerTyped, PTL

-----------------------------------------------------------------------------
(* Packets in work.  What a handler does between Admit and Release keeps its *)
(* packet and leaves the map of keys alone.                                  *)

(* Neither the request of a handler in work nor the map of keys changes      *)
(* between Admit and Release.                                                *)
LEMMA KeepsPacket ==
    ASSUME TypeOK, NEW g \in Goroutines,
           \/ GetClassId(g) \/ ApiFails(g) \/ \E x \in Answers : ApiAnswers(g, x)
           \/ Respond(g) \/ RespondFails(g) \/ SendPostAuth(g)
           \/ SendAcct(g) \/ Acknowledge(g)
    PROVE  /\ handlers[g].pc # "idle" /\ handlers'[g].pc # "idle"
           /\ handlers'[g].req = handlers[g].req
           /\ \A i \in Goroutines : i # g => handlers'[i] = handlers[i]
           /\ requests' = requests
<1> USE DEF TypeOK, Handler
<1>1. CASE GetClassId(g)
  BY <1>1 DEF GetClassId
<1>2. CASE ApiFails(g)
  BY <1>2 DEF ApiFails, Refuse
<1>3. ASSUME NEW x \in Answers, ApiAnswers(g, x)
      PROVE  /\ handlers[g].pc # "idle" /\ handlers'[g].pc # "idle"
             /\ handlers'[g].req = handlers[g].req
             /\ \A i \in Goroutines : i # g => handlers'[i] = handlers[i]
             /\ requests' = requests
  BY <1>3 DEF ApiAnswers, Refuse
<1>4. CASE Respond(g)
  BY <1>4 DEF Respond
<1>5. CASE RespondFails(g)
  BY <1>5 DEF RespondFails, Refuse
<1>6. CASE SendPostAuth(g)
  BY <1>6 DEF SendPostAuth
<1>7. CASE SendAcct(g)
  BY <1>7 DEF SendAcct
<1>8. CASE Acknowledge(g)
  BY <1>8 DEF Acknowledge
<1>9. QED
  BY <1>1, <1>2, <1>3, <1>4, <1>5, <1>6, <1>7, <1>8

(* One handler per packet key, and the map holds exactly the keys in work:   *)
(* inductive as it stands, since Admit and Release change both together.     *)
THEOREM RadiusServerKeysAreHeld == Spec => []KeysAreHeld
<1>1. ASSUME Init PROVE KeysAreHeld
  <2>1. requests = {} /\ Active = {}
    BY <1>1 DEF Init, Active, Idle
  <2>2. QED
    BY <2>1 DEF KeysAreHeld
<1>2. TypeOK /\ KeysAreHeld /\ [Next]_vars => KeysAreHeld'
  <2> SUFFICES ASSUME TypeOK, KeysAreHeld, [Next]_vars PROVE KeysAreHeld'
    OBVIOUS
  <2>1. ASSUME NEW g \in Goroutines, NEW r \in Requests, Admit(g, r) PROVE KeysAreHeld'
    <3>1. /\ handlers'[g].pc # "idle" /\ handlers'[g].req = r
          /\ \A i \in Goroutines : i # g => handlers'[i] = handlers[i]
      BY <2>1, RadiusServerAssumption DEF Admit, TypeOK, Handler, Idle, FirstStep
    <3>2. Active' = Active \cup {g} /\ g \notin Active
      BY <2>1, <3>1 DEF Active, Admit
    <3>3. requests' = requests \cup {r.key} /\ r.key \notin requests
      BY <2>1 DEF Admit
    <3>4. QED
      BY <3>1, <3>2, <3>3 DEF KeysAreHeld, Active
  <2>2. ASSUME NEW g \in Goroutines, Release(g) PROVE KeysAreHeld'
    <3>1. /\ g \in Active /\ handlers'[g].pc = "idle"
          /\ \A i \in Goroutines : i # g => handlers'[i] = handlers[i]
      BY <2>2 DEF Release, TypeOK, Handler, Idle, Active
    <3>2. Active' = Active \ {g}
      BY <3>1 DEF Active
    <3>3. requests' = requests \ {handlers[g].req.key}
      BY <2>2 DEF Release
    <3>4. QED
      BY <3>1, <3>2, <3>3 DEF KeysAreHeld, Active
  <2>3. ASSUME NEW g \in Goroutines,
               \/ GetClassId(g) \/ ApiFails(g) \/ \E x \in Answers : ApiAnswers(g, x)
               \/ Respond(g) \/ RespondFails(g) \/ SendPostAuth(g)
               \/ SendAcct(g) \/ Acknowledge(g)
        PROVE  KeysAreHeld'
    <3>1. /\ handlers[g].pc # "idle" /\ handlers'[g].pc # "idle"
          /\ handlers'[g].req = handlers[g].req
          /\ \A i \in Goroutines : i # g => handlers'[i] = handlers[i]
          /\ requests' = requests
      BY <2>3, KeepsPacket
    <3>2. /\ Active' = Active
          /\ \A i \in Goroutines : handlers'[i].req = handlers[i].req
      BY <3>1 DEF Active
    <3>3. QED
      BY <3>1, <3>2 DEF KeysAreHeld, Active
  <2>4. CASE Restart
    <3>1. requests' = {} /\ Active' = {}
      BY <2>4 DEF Restart, Active, Idle
    <3>2. QED
      BY <3>1 DEF KeysAreHeld
  <2>5. CASE TakePostAuth \/ TakeAcct \/ Tick \/ UNCHANGED vars
    <3>1. UNCHANGED <<requests, handlers>>
      BY <2>5 DEF TakePostAuth, TakeAcct, Tick, vars
    <3>2. QED
      BY <3>1 DEF KeysAreHeld, Active
  <2>6. QED
    BY <2>1, <2>2, <2>3, <2>4, <2>5 DEF Next, Step
<1>3. QED
  BY <1>1, <1>2, RadiusServerTyped, PTL DEF Spec, Typed

-----------------------------------------------------------------------------
(* Class numbers.  A number of the running process is with one handler that  *)
(* still has to report it or in one report, and the two never meet.          *)

Holds(g) == handlers[g].pc \in {"ask", "respond", "report"}

Numbers == firstClass + 1 .. classId

HeldOnce ==
    \A g \in Goroutines :
      Holds(g) =>
        /\ handlers[g].class \in Numbers
        /\ \A i \in Goroutines : Holds(i) /\ handlers[i].class = handlers[g].class => i = g
        /\ \A p \in reports : p.run = restarts => p.class # handlers[g].class

ReportedOnce ==
    \A p \in reports :
      /\ p.run <= restarts
      /\ p.run = restarts =>
           /\ p.class \in Numbers
           /\ \A q \in reports : q.run = restarts /\ q.class = p.class => q = p

NoneMissing ==
    \A n \in Numbers :
      \/ \E g \in Goroutines : Holds(g) /\ handlers[g].class = n
      \/ \E p \in reports : p.run = restarts /\ p.class = n

EachInOnePlace == firstClass <= classId /\ HeldOnce /\ ReportedOnce /\ NoneMissing

(* A handler that has its class number keeps it until its report is made.    *)
LEMMA KeepsClass ==
    ASSUME TypeOK, NEW g \in Goroutines,
           ApiFails(g) \/ (\E x \in Answers : ApiAnswers(g, x)) \/ Respond(g) \/ RespondFails(g)
    PROVE  /\ Holds(g) /\ Holds(g)'
           /\ handlers'[g].class = handlers[g].class
           /\ \A i \in Goroutines : i # g => handlers'[i] = handlers[i]
           /\ UNCHANGED <<classId, firstClass, restarts, reports>>
<1> USE DEF TypeOK, Handler, Holds
<1>1. CASE ApiFails(g)
  BY <1>1 DEF ApiFails, Refuse, hist
<1>2. ASSUME NEW x \in Answers, ApiAnswers(g, x)
      PROVE  /\ Holds(g) /\ Holds(g)'
             /\ handlers'[g].class = handlers[g].class
             /\ \A i \in Goroutines : i # g => handlers'[i] = handlers[i]
             /\ UNCHANGED <<classId, firstClass, restarts, reports>>
  BY <1>2 DEF ApiAnswers, Refuse, hist
<1>3. CASE Respond(g)
  BY <1>3 DEF Respond, log
<1>4. CASE RespondFails(g)
  BY <1>4 DEF RespondFails, Refuse, hist
<1>5. QED
  BY <1>1, <1>2, <1>3, <1>4

(* The other steps of a handler are taken without a class number in hand.    *)
LEMMA HoldsNone ==
    ASSUME TypeOK, NEW g \in Goroutines,
           \/ (\E r \in Requests : Admit(g, r))
           \/ SendAcct(g) \/ Acknowledge(g) \/ Release(g)
    PROVE  /\ ~Holds(g) /\ ~Holds(g)'
           /\ \A i \in Goroutines : i # g => handlers'[i] = handlers[i]
           /\ UNCHANGED <<classId, metrics, hist>>
<1> USE DEF TypeOK, Handler, Holds
<1>1. ASSUME NEW r \in Requests, Admit(g, r)
      PROVE  /\ ~Holds(g) /\ ~Holds(g)'
             /\ \A i \in Goroutines : i # g => handlers'[i] = handlers[i]
             /\ UNCHANGED <<classId, metrics, hist>>
  BY <1>1, RadiusServerAssumption DEF Admit, Idle, FirstStep
<1>2. CASE SendAcct(g)
  BY <1>2 DEF SendAcct
<1>3. CASE Acknowledge(g)
  BY <1>3 DEF Acknowledge
<1>4. CASE Release(g)
  BY <1>4 DEF Release, Idle
<1>5. QED
  BY <1>1, <1>2, <1>3, <1>4

(* The steps of the process that leave every handler as it is.               *)
LEMMA HandlersStay ==
    ASSUME TakePostAuth \/ TakeAcct \/ Tick \/ UNCHANGED vars
    PROVE  UNCHANGED <<handlers, classId, firstClass, restarts, issued, ahead, replies, reports>>
  BY DEF TakePostAuth, TakeAcct, Tick, vars, hist

(* Every step keeps a class number of this run in one place.                 *)
LEMMA EachInOnePlaceStep ==
    ASSUME Typed, EachInOnePlace, [Next]_vars
    PROVE  EachInOnePlace'
<1>0. TypeOK /\ classId \in Nat /\ firstClass \in Nat /\ restarts \in Nat
  BY DEF Typed, TypeOK
<1>1. ASSUME NEW g \in Goroutines, GetClassId(g) PROVE EachInOnePlace'
  <2>1. /\ ~Holds(g) /\ Holds(g)'
        /\ handlers'[g].class = classId + 1
        /\ \A i \in Goroutines : i # g => handlers'[i] = handlers[i]
    BY <1>1, <1>0 DEF GetClassId, TypeOK, Handler, Holds
  <2>2. UNCHANGED <<restarts, reports, firstClass>> /\ classId' = classId + 1
    BY <1>1 DEF GetClassId
  <2>3. firstClass' <= classId'
    BY <1>0, <2>2 DEF EachInOnePlace
  <2>4. Numbers' = Numbers \cup {classId + 1} /\ classId + 1 \notin Numbers
    BY <1>0, <2>2, <2>3 DEF Numbers, EachInOnePlace
  <2>5. /\ \A p \in reports : p.run = restarts => p.class # classId + 1
        /\ \A i \in Goroutines : Holds(i) => handlers[i].class # classId + 1
    BY <2>4 DEF EachInOnePlace, ReportedOnce, HeldOnce
  <2>6. HeldOnce'
    <3> SUFFICES ASSUME NEW i \in Goroutines', Holds(i)'
                 PROVE  /\ handlers'[i].class \in Numbers'
                        /\ \A j \in Goroutines :
                             Holds(j)' /\ handlers'[j].class = handlers'[i].class => j = i
                        /\ \A p \in reports' : p.run = restarts' => p.class # handlers'[i].class
      BY DEF HeldOnce
    <3>1. CASE i = g
      BY <2>1, <2>2, <2>4, <2>5, <3>1 DEF Holds
    <3>2. CASE i # g
      BY <2>1, <2>2, <2>4, <2>5, <3>2 DEF EachInOnePlace, HeldOnce, Holds
    <3>3. QED
      BY <3>1, <3>2
  <2>7. ReportedOnce'
    BY <2>2, <2>4 DEF EachInOnePlace, ReportedOnce
  <2>8. NoneMissing'
    BY <2>1, <2>2, <2>4 DEF EachInOnePlace, NoneMissing, Holds
  <2>9. QED
    BY <2>3, <2>6, <2>7, <2>8 DEF EachInOnePlace
<1>2. ASSUME NEW g \in Goroutines, SendPostAuth(g) PROVE EachInOnePlace'
  <2>1. /\ Holds(g) /\ ~Holds(g)'
        /\ \A i \in Goroutines : i # g => handlers'[i] = handlers[i]
    BY <1>2, <1>0 DEF SendPostAuth, TypeOK, Handler, Holds
  <2>2. UNCHANGED <<restarts, firstClass, classId>> /\ Numbers' = Numbers
    BY <1>2 DEF SendPostAuth, log, Numbers
  <2> DEFINE p == ReportOf(g)
  <2>3. /\ reports' = reports \cup {p}
        /\ p.run = restarts /\ p.class = handlers[g].class
    BY <1>2 DEF SendPostAuth, ReportOf
  <2> HIDE DEF p
  <2>4. HeldOnce'
    <3> SUFFICES ASSUME NEW i \in Goroutines, Holds(i)'
                 PROVE  /\ handlers'[i].class \in Numbers'
                        /\ \A j \in Goroutines :
                             Holds(j)' /\ handlers'[j].class = handlers'[i].class => j = i
                        /\ \A q \in reports' : q.run = restarts' => q.class # handlers'[i].class
      BY DEF HeldOnce
    <3>1. i # g /\ handlers'[i] = handlers[i] /\ Holds(i)
      BY <2>1 DEF Holds
    <3>2. handlers[i].class # handlers[g].class
      BY <2>1, <3>1 DEF EachInOnePlace, HeldOnce
    <3>3. QED
      BY <2>1, <2>2, <2>3, <3>1, <3>2 DEF EachInOnePlace, HeldOnce, Holds
  <2>5. ReportedOnce'
    BY <1>0, <2>1, <2>2, <2>3 DEF EachInOnePlace, HeldOnce, ReportedOnce
  <2>6. NoneMissing'
    <3> SUFFICES ASSUME NEW n \in Numbers
                 PROVE  \/ \E i \in Goroutines : Holds(i)' /\ handlers'[i].class = n
                        \/ \E q \in reports' : q.run = restarts /\ q.class = n
      BY <2>2 DEF NoneMissing
    <3>1. CASE \E i \in Goroutines : Holds(i) /\ handlers[i].class = n
      BY <2>1, <2>3, <3>1 DEF Holds
    <3>2. CASE \E q \in reports : q.run = restarts /\ q.class = n
      BY <2>3, <3>2
    <3>3. QED
      BY <3>1, <3>2 DEF EachInOnePlace, NoneMissing
  <2>7. QED
    BY <2>2, <2>4, <2>5, <2>6 DEF EachInOnePlace
<1>3. ASSUME NEW g \in Goroutines,
             ApiFails(g) \/ (\E x \in Answers : ApiAnswers(g, x)) \/ Respond(g) \/ RespondFails(g)
      PROVE  EachInOnePlace'
  <2>1. /\ Holds(g) /\ Holds(g)'
        /\ handlers'[g].class = handlers[g].class
        /\ \A i \in Goroutines : i # g => handlers'[i] = handlers[i]
        /\ UNCHANGED <<classId, firstClass, restarts, reports>>
    BY <1>0, <1>3, KeepsClass
  <2>2. /\ \A i \in Goroutines : Holds(i)' <=> Holds(i)
        /\ \A i \in Goroutines : handlers'[i].class = handlers[i].class
        /\ Numbers' = Numbers
    BY <2>1 DEF Holds, Numbers
  <2>3. QED
    BY <2>1, <2>2 DEF EachInOnePlace, HeldOnce, ReportedOnce, NoneMissing
<1>4. ASSUME NEW g \in Goroutines,
             \/ (\E r \in Requests : Admit(g, r))
             \/ SendAcct(g) \/ Acknowledge(g) \/ Release(g)
      PROVE  EachInOnePlace'
  <2>1. /\ ~Holds(g) /\ ~Holds(g)'
        /\ \A i \in Goroutines : i # g => handlers'[i] = handlers[i]
        /\ UNCHANGED <<classId, firstClass, restarts, reports>>
    BY <1>0, <1>4, HoldsNone DEF hist
  <2>2. /\ \A i \in Goroutines : Holds(i)' <=> Holds(i)
        /\ \A i \in Goroutines : Holds(i) => handlers'[i].class = handlers[i].class
        /\ Numbers' = Numbers
    BY <2>1 DEF Holds, Numbers
  <2>3. QED
    BY <2>1, <2>2 DEF EachInOnePlace, HeldOnce, ReportedOnce, NoneMissing
<1>5. CASE Restart
  <2>1. /\ \A g \in Goroutines : ~Holds(g)'
        /\ firstClass' = now /\ classId' = now /\ now \in Nat
        /\ reports' = reports /\ restarts' = restarts + 1
    BY <1>0, <1>5 DEF Restart, Holds, Idle, TypeOK
  <2>2. Numbers' = {}
    BY <2>1 DEF Numbers
  <2>3. \A p \in reports : p.run < restarts'
    <3>1. \A p \in reports : p.run \in Nat /\ p.run <= restarts
      BY <1>0 DEF TypeOK, Report, EachInOnePlace, ReportedOnce
    <3>2. QED
      BY <1>0, <2>1, <3>1
  <2>4. HeldOnce'
    BY <2>1 DEF HeldOnce
  <2>5. ReportedOnce'
    BY <1>0, <2>1, <2>3 DEF ReportedOnce, TypeOK, Report
  <2>6. NoneMissing' /\ firstClass' <= classId'
    BY <2>1, <2>2 DEF NoneMissing
  <2>7. QED
    BY <2>4, <2>5, <2>6 DEF EachInOnePlace
<1>6. CASE TakePostAuth \/ TakeAcct \/ Tick \/ UNCHANGED vars
  <2>1. UNCHANGED <<handlers, classId, firstClass, restarts, reports>>
    BY <1>6, HandlersStay
  <2>2. QED
    BY <2>1 DEF EachInOnePlace, HeldOnce, ReportedOnce, NoneMissing, Holds, Numbers
<1>7. QED
  BY <1>1, <1>2, <1>3, <1>4, <1>5, <1>6 DEF Next, Step

(* Every class number of this run is with one handler or in one report, and  *)
(* no number is missing.                                                     *)
THEOREM RadiusServerEachInOnePlace == Spec => []EachInOnePlace
<1>1. ASSUME Init PROVE EachInOnePlace
  <2>1. \A g \in Goroutines : ~Holds(g)
    BY <1>1 DEF Init, Holds, Idle
  <2>2. reports = {} /\ firstClass = 0 /\ classId = 0
    BY <1>1 DEF Init
  <2>3. Numbers = {}
    BY <2>2 DEF Numbers
  <2>4. QED
    BY <2>1, <2>2, <2>3 DEF EachInOnePlace, HeldOnce, ReportedOnce, NoneMissing
<1>2. QED
  BY <1>1, EachInOnePlaceStep, RadiusServerTyped, PTL DEF Spec

(* No request and no grant goes unreported: one handler or one report.       *)
THEOREM RadiusServerEveryClassIsReported == Spec => []EveryClassIsReported
<1>1. ASSUME EachInOnePlace PROVE EveryClassIsReported
  <2> SUFFICES ASSUME NEW n \in firstClass + 1 .. classId
               PROVE  Cardinality({g \in Active : /\ handlers[g].class = n
                                                  /\ handlers[g].pc \in {"ask", "respond", "report"}})
                        + Cardinality({p \in reports : p.run = restarts /\ p.class = n}) = 1
    BY DEF EveryClassIsReported
  <2> DEFINE held == {g \in Active : /\ handlers[g].class = n
                                     /\ handlers[g].pc \in {"ask", "respond", "report"}}
             done == {p \in reports : p.run = restarts /\ p.class = n}
  <2>1. n \in Numbers
    BY DEF Numbers
  <2>2. held = {g \in Goroutines : Holds(g) /\ handlers[g].class = n}
    BY DEF Active, Holds
  <2> HIDE DEF held
  <2>3. \/ held = {} /\ \E p : done = {p}
        \/ done = {} /\ \E g : held = {g}
    <3>1. ASSUME NEW g \in Goroutines, Holds(g), handlers[g].class = n
          PROVE  held = {g} /\ done = {}
      BY <1>1, <2>2, <3>1 DEF EachInOnePlace, HeldOnce
    <3>2. ASSUME ~\E g \in Goroutines : Holds(g) /\ handlers[g].class = n
          PROVE  held = {} /\ \E p : done = {p}
      <4>1. held = {}
        BY <2>2, <3>2
      <4>2. PICK p \in reports : p.run = restarts /\ p.class = n
        BY <1>1, <2>1, <3>2 DEF EachInOnePlace, NoneMissing
      <4>3. done = {p}
        BY <1>1, <4>2 DEF EachInOnePlace, ReportedOnce
      <4>4. QED
        BY <4>1, <4>3
    <3>3. QED
      BY <3>1, <3>2
  <2> HIDE DEF done
  <2>4. Cardinality({}) = 0 /\ \A e : Cardinality({e}) = 1
    BY FS_EmptySet, FS_Singleton
  <2>5. Cardinality(held) + Cardinality(done) = 1
    <3>1. CASE held = {}
      <4>1. PICK e : done = {e}
        BY <2>3, <3>1, <2>4
      <4>2. QED
        BY <2>4, <3>1, <4>1
    <3>2. CASE held # {}
      <4>1. PICK e : held = {e}
        BY <2>3, <3>2
      <4>2. QED
        BY <2>3, <2>4, <3>2, <4>1
    <3>3. QED
      BY <3>1, <3>2
  <2>6. QED
    BY <2>5 DEF held, done
<1>2. QED
  BY <1>1, RadiusServerEachInOnePlace, PTL

-----------------------------------------------------------------------------
(* The replies and the handlers' errors say the same: a class number has a   *)
(* reply exactly when its handler, or its report, has no error.              *)
HasReply(n) == \E a \in replies : a.run = restarts /\ a.class = n

Granted(a, run, class, req, lease) ==
    /\ a.run = run /\ a.class = class /\ a.req = req
    /\ lease \in 0 .. Wrap - 1 => a.session = lease

RepliesKnown ==
    \A a \in replies : a.run <= restarts /\ (a.run = restarts => a.class \in Numbers)

HeldMatch ==
    \A g \in Goroutines :
      /\ Holds(g) /\ (handlers[g].pc # "report" \/ handlers[g].error # "")
           => ~HasReply(handlers[g].class)
      /\ handlers[g].pc = "report" /\ handlers[g].error = ""
           => \E a \in replies : Granted(a, restarts, handlers[g].class, handlers[g].req,
                                         handlers[g].answer.lease)

Matches(p) ==
    \/ /\ p.error = "" /\ p.status # "ERROR"
       /\ \E a \in replies : Granted(a, p.run, p.class, p.req, p.lease)
    \/ /\ p.error # "" /\ p.status = "ERROR"
       /\ \A a \in replies : a.run = p.run => a.class # p.class

ReportsMatch == \A p \in reports : Matches(p)

RepliesMatch == RepliesKnown /\ HeldMatch /\ ReportsMatch

(* A step that does not answer leaves the handler without a reply: before    *)
(* its report, or on the error path.                                         *)
LEMMA StaysUnanswered ==
    ASSUME TypeOK, NEW g \in Goroutines,
           ApiFails(g) \/ (\E x \in Answers : ApiAnswers(g, x)) \/ RespondFails(g)
    PROVE  /\ handlers[g].pc \in {"ask", "respond"}
           /\ handlers'[g].pc = "respond" \/ handlers'[g].error # ""
           /\ replies' = replies
<1> USE DEF TypeOK, Handler
<1>1. CASE ApiFails(g)
  BY <1>1 DEF ApiFails, Refuse, hist
<1>2. ASSUME NEW x \in Answers, ApiAnswers(g, x)
      PROVE  /\ handlers[g].pc \in {"ask", "respond"}
             /\ handlers'[g].pc = "respond" \/ handlers'[g].error # ""
             /\ replies' = replies
  <2>1. handlers[g].pc = "ask" /\ replies' = replies
    BY <1>2 DEF ApiAnswers, hist
  <2>2. CASE Refuse(g, "answer")
    BY <2>1, <2>2 DEF Refuse
  <2>3. CASE handlers' = [handlers EXCEPT ![g].pc = "respond", ![g].answer = x]
    BY <2>1, <2>3
  <2>4. QED
    BY <1>2, <2>2, <2>3 DEF ApiAnswers
<1>3. CASE RespondFails(g)
  BY <1>3 DEF RespondFails, Refuse, hist
<1>4. QED
  BY <1>1, <1>2, <1>3

(* A lease of 32 bits reaches the client as it is.                           *)
LEMMA SessionTimeoutExact ==
    ASSUME NEW lease \in 0 .. Wrap - 1
    PROVE  SessionTimeout(lease) = lease
<1>1. Wrap \in Nat \ {0}
  BY RadiusServerAssumption
<1>2. QED
  BY <1>1 DEF SessionTimeout

(* Every step keeps the replies, the handlers in work and the reports in     *)
(* agreement.                                                                *)
LEMMA RepliesMatchStep ==
    ASSUME Typed, EachInOnePlace, RepliesMatch, [Next]_vars
    PROVE  RepliesMatch'
<1>0. /\ TypeOK /\ classId \in Nat /\ firstClass \in Nat /\ restarts \in Nat
      /\ firstClass <= classId /\ HeldOnce /\ ReportedOnce
      /\ RepliesKnown /\ HeldMatch /\ ReportsMatch
  BY DEF Typed, TypeOK, EachInOnePlace, RepliesMatch
<1>1. ASSUME NEW g \in Goroutines, GetClassId(g) PROVE RepliesMatch'
  <2>1. /\ handlers'[g].pc = "ask"
        /\ handlers'[g].class = classId + 1
        /\ \A i \in Goroutines : i # g => handlers'[i] = handlers[i]
    BY <1>1, <1>0 DEF GetClassId, TypeOK, Handler
  <2>2. UNCHANGED <<restarts, reports, replies, firstClass>> /\ classId' = classId + 1
    BY <1>1 DEF GetClassId
  <2>3. Numbers' = Numbers \cup {classId + 1} /\ classId + 1 \notin Numbers
    BY <1>0, <2>2 DEF Numbers
  <2>4. RepliesKnown'
    BY <1>0, <2>2, <2>3 DEF RepliesKnown
  <2>5. ~HasReply(classId + 1) /\ \A n : HasReply(n)' <=> HasReply(n)
    BY <1>0, <2>2, <2>3 DEF RepliesKnown, HasReply
  <2>6. HeldMatch'
    <3> SUFFICES ASSUME NEW i \in Goroutines
                 PROVE  /\ Holds(i)' /\ (handlers'[i].pc # "report" \/ handlers'[i].error # "")
                             => ~HasReply(handlers'[i].class)
                        /\ handlers'[i].pc = "report" /\ handlers'[i].error = ""
                             => \E a \in replies : Granted(a, restarts, handlers'[i].class,
                                          handlers'[i].req, handlers'[i].answer.lease)
      BY <2>2, <2>5 DEF HeldMatch
    <3>1. CASE i = g
      BY <2>1, <2>5, <3>1
    <3>2. CASE i # g
      BY <1>0, <2>1, <3>2 DEF HeldMatch, Holds
    <3>3. QED
      BY <3>1, <3>2
  <2>7. ReportsMatch'
    BY <1>0, <2>2 DEF ReportsMatch, Matches
  <2>8. QED
    BY <2>4, <2>6, <2>7 DEF RepliesMatch
<1>2. ASSUME NEW g \in Goroutines,
             ApiFails(g) \/ (\E x \in Answers : ApiAnswers(g, x)) \/ RespondFails(g)
      PROVE  RepliesMatch'
  <2>1. /\ Holds(g)
        /\ handlers'[g].class = handlers[g].class
        /\ \A i \in Goroutines : i # g => handlers'[i] = handlers[i]
        /\ UNCHANGED <<classId, firstClass, restarts, reports>>
    BY <1>0, <1>2, KeepsClass
  <2>2. /\ handlers[g].pc \in {"ask", "respond"}
        /\ handlers'[g].pc = "respond" \/ handlers'[g].error # ""
        /\ replies' = replies
    BY <1>0, <1>2, StaysUnanswered
  <2>3. Numbers' = Numbers /\ \A n : HasReply(n)' <=> HasReply(n)
    BY <2>1, <2>2 DEF Numbers, HasReply
  <2>4. HeldMatch'
    <3> SUFFICES ASSUME NEW i \in Goroutines
                 PROVE  /\ Holds(i)' /\ (handlers'[i].pc # "report" \/ handlers'[i].error # "")
                             => ~HasReply(handlers'[i].class)
                        /\ handlers'[i].pc = "report" /\ handlers'[i].error = ""
                             => \E a \in replies : Granted(a, restarts, handlers'[i].class,
                                          handlers'[i].req, handlers'[i].answer.lease)
      BY <2>1, <2>2, <2>3 DEF HeldMatch
    <3>1. CASE i = g
      <4>1. ~HasReply(handlers[g].class)
        BY <1>0, <2>1, <2>2 DEF HeldMatch
      <4>2. QED
        BY <2>1, <2>2, <3>1, <4>1
    <3>2. CASE i # g
      BY <1>0, <2>1, <3>2 DEF HeldMatch, Holds
    <3>3. QED
      BY <3>1, <3>2
  <2>5. RepliesKnown' /\ ReportsMatch'
    BY <1>0, <2>1, <2>2, <2>3 DEF RepliesKnown, ReportsMatch, Matches
  <2>6. QED
    BY <2>4, <2>5 DEF RepliesMatch
<1>3. ASSUME NEW g \in Goroutines, Respond(g) PROVE RepliesMatch'
  <2> DEFINE a0 == Accept(g)
  <2>1. /\ Holds(g) /\ handlers[g].error = ""
        /\ \A i \in Goroutines : i # g => handlers'[i] = handlers[i]
        /\ UNCHANGED <<classId, firstClass, restarts, reports>>
    BY <1>3 DEF Respond, Typed, TypeOK, AllEquipped, Equipped, Holds, log
  <2>2. /\ handlers'[g].class = handlers[g].class /\ handlers'[g].req = handlers[g].req
        /\ handlers'[g].answer = handlers[g].answer /\ handlers'[g].error = ""
        /\ handlers'[g].pc = "report"
    BY <1>0, <1>3, <2>1 DEF TypeOK, Handler, Respond
  <2>3. Granted(a0, restarts, handlers[g].class, handlers[g].req, handlers[g].answer.lease)
    BY SessionTimeoutExact DEF Granted, Accept
  <2>4. replies' = replies \cup {a0}
    BY <1>3 DEF Respond
  <2>5. a0.run = restarts /\ a0.class = handlers[g].class
    BY DEF Accept
  <2> HIDE DEF a0
  <2>6. Numbers' = Numbers /\ handlers[g].class \in Numbers
    BY <1>0, <2>1 DEF Numbers, HeldOnce
  <2>7. RepliesKnown'
    <3>1. a0.run <= restarts /\ (a0.run = restarts => a0.class \in Numbers)
      BY <1>0, <2>5, <2>6
    <3>2. QED
      BY <1>0, <2>1, <2>4, <2>6, <3>1 DEF RepliesKnown
  <2>8. HeldMatch'
    <3> SUFFICES ASSUME NEW i \in Goroutines
                 PROVE  /\ Holds(i)' /\ (handlers'[i].pc # "report" \/ handlers'[i].error # "")
                             => ~HasReply(handlers[i].class)'
                        /\ handlers'[i].pc = "report" /\ handlers'[i].error = ""
                             => \E a \in replies' : Granted(a, restarts, handlers'[i].class,
                                          handlers'[i].req, handlers'[i].answer.lease)
      BY <2>1 DEF HeldMatch
    <3>1. CASE i = g
      BY <2>2, <2>3, <2>4, <3>1
    <3>2. CASE i # g
      <4>1. handlers'[i] = handlers[i] /\ (Holds(i)' <=> Holds(i))
        BY <2>1, <3>2 DEF Holds
      <4>2. Holds(i) => (HasReply(handlers[i].class)' <=> HasReply(handlers[i].class))
        BY <1>0, <2>1, <2>4, <2>5, <3>2, <4>1 DEF HasReply, HeldOnce
      <4>3. QED
        BY <1>0, <2>4, <4>1, <4>2 DEF HeldMatch
    <3>3. QED
      BY <3>1, <3>2
  <2>9. ReportsMatch'
    <3>1. \A p \in reports : p.run = restarts => p.class # handlers[g].class
      BY <1>0, <2>1 DEF HeldOnce
    <3>2. ASSUME NEW q \in reports, Matches(q) PROVE Matches(q)'
      BY <2>1, <2>4, <2>5, <3>1, <3>2 DEF Matches
    <3>3. QED
      BY <1>0, <2>1, <3>2 DEF ReportsMatch
  <2>10. QED
    BY <2>7, <2>8, <2>9 DEF RepliesMatch
<1>4. ASSUME NEW g \in Goroutines, SendPostAuth(g) PROVE RepliesMatch'
  <2> DEFINE p == ReportOf(g)
             h == handlers[g]
  <2>1. /\ h.pc = "report" /\ Holds(g) /\ ~Holds(g)' /\ handlers'[g].pc = "end"
        /\ \A i \in Goroutines : i # g => handlers'[i] = handlers[i]
        /\ UNCHANGED <<restarts, replies, firstClass, classId>>
        /\ reports' = reports \cup {p}
    BY <1>4, <1>0 DEF SendPostAuth, TypeOK, Handler, Holds, log
  <2>2. Matches(p)
    <3>1. p.run = restarts /\ p.class = h.class /\ p.error = h.error /\ p.req = h.req
      BY DEF ReportOf
    <3>2. CASE h.error = ""
      <4>1. p.status = h.answer.status /\ p.lease = h.answer.lease
        BY <3>2 DEF ReportOf
      <4>2. h.answer \in Answers
        BY <2>1, <3>2 DEF Typed, AllEquipped, Equipped
      <4>3. p.status # "ERROR"
        BY <4>1, <4>2, RadiusServerAssumption
      <4>4. \E a \in replies : Granted(a, restarts, h.class, h.req, h.answer.lease)
        BY <1>0, <2>1, <3>2 DEF HeldMatch
      <4> HIDE DEF p, h
      <4>5. QED
        BY <3>1, <3>2, <4>1, <4>3, <4>4 DEF Matches
    <3>3. CASE h.error # ""
      <4>1. p.status = "ERROR"
        BY <3>3 DEF ReportOf
      <4>2. ~HasReply(h.class)
        BY <1>0, <2>1, <3>3 DEF HeldMatch
      <4> HIDE DEF p, h
      <4>3. QED
        BY <3>1, <3>3, <4>1, <4>2 DEF HasReply, Matches
    <3>4. QED
      BY <3>2, <3>3
  <2> HIDE DEF p
  <2>3. ReportsMatch'
    <3>1. \A q : Matches(q) => Matches(q)'
      BY <2>1 DEF Matches
    <3>2. QED
      BY <1>0, <2>1, <2>2, <3>1 DEF ReportsMatch
  <2>4. Numbers' = Numbers /\ \A n : HasReply(n)' <=> HasReply(n)
    BY <2>1 DEF Numbers, HasReply
  <2>5. HeldMatch'
    BY <1>0, <2>1, <2>4 DEF HeldMatch, Holds
  <2>6. RepliesKnown'
    BY <1>0, <2>1, <2>4 DEF RepliesKnown
  <2>7. QED
    BY <2>3, <2>5, <2>6 DEF RepliesMatch
<1>5. ASSUME NEW g \in Goroutines,
             \/ (\E r \in Requests : Admit(g, r))
             \/ SendAcct(g) \/ Acknowledge(g) \/ Release(g)
      PROVE  RepliesMatch'
  <2>1. /\ ~Holds(g) /\ ~Holds(g)'
        /\ \A i \in Goroutines : i # g => handlers'[i] = handlers[i]
        /\ UNCHANGED <<classId, firstClass, restarts, reports, replies>>
    BY <1>0, <1>5, HoldsNone DEF hist
  <2>2. Numbers' = Numbers /\ \A n : HasReply(n)' <=> HasReply(n)
    BY <2>1 DEF Numbers, HasReply
  <2>3. HeldMatch'
    BY <1>0, <2>1, <2>2 DEF HeldMatch, Holds
  <2>4. RepliesKnown' /\ ReportsMatch'
    BY <1>0, <2>1, <2>2 DEF RepliesKnown, ReportsMatch, Matches
  <2>5. QED
    BY <2>3, <2>4 DEF RepliesMatch
<1>6. CASE Restart
  <2>1. \A g \in Goroutines : handlers'[g].pc = "idle"
    BY <1>6 DEF Restart, Idle
  <2>2. UNCHANGED <<reports, replies>> /\ restarts' = restarts + 1
    BY <1>6 DEF Restart
  <2>3. HeldMatch'
    BY <2>1 DEF HeldMatch, Holds
  <2>4. RepliesKnown'
    <3>1. \A a \in replies : a.run \in Nat /\ a.run <= restarts
      BY <1>0 DEF TypeOK, Reply, RepliesKnown
    <3>2. \A a \in replies : a.run < restarts'
      BY <1>0, <2>2, <3>1
    <3>3. \A a \in replies : a.run \in Nat /\ restarts' \in Nat
      BY <1>0, <2>2, <3>1
    <3>4. QED
      BY <2>2, <3>2, <3>3 DEF RepliesKnown
  <2>5. ReportsMatch'
    BY <1>0, <2>2 DEF ReportsMatch, Matches
  <2>6. QED
    BY <2>3, <2>4, <2>5 DEF RepliesMatch
<1>7. CASE TakePostAuth \/ TakeAcct \/ Tick \/ UNCHANGED vars
  <2>1. UNCHANGED <<handlers, classId, firstClass, restarts, reports, replies>>
    BY <1>7, HandlersStay
  <2>2. RepliesKnown' /\ ReportsMatch'
    BY <1>0, <2>1 DEF RepliesKnown, ReportsMatch, Numbers, Matches
  <2>3. HeldMatch'
    BY <1>0, <2>1 DEF HeldMatch, Holds, HasReply
  <2>4. QED
    BY <2>2, <2>3 DEF RepliesMatch
<1>8. QED
  BY <1>1, <1>2, <1>3, <1>4, <1>5, <1>6, <1>7 DEF Next, Step

(* What a report says, and what a handler that is about to report holds, is  *)
(* what was written to the client.                                           *)
THEOREM RadiusServerRepliesMatch == Spec => []RepliesMatch
<1>1. ASSUME Init PROVE RepliesMatch
  <2>1. \A g \in Goroutines : handlers[g].pc = "idle"
    BY <1>1 DEF Init, Idle
  <2>2. replies = {} /\ reports = {}
    BY <1>1 DEF Init
  <2>3. QED
    BY <2>1, <2>2 DEF RepliesMatch, RepliesKnown, HeldMatch, ReportsMatch, Holds
<1>2. QED
  BY <1>1, RepliesMatchStep, RadiusServerTyped, RadiusServerEachInOnePlace, PTL DEF Spec

(* A report of a grant is about an Access-Accept that was written, with its  *)
(* request, class and lease, and a report of an error is about none.         *)
THEOREM RadiusServerReportsAreTrue == Spec => []ReportsAreTrue
<1>1. ASSUME RepliesMatch PROVE ReportsAreTrue
  <2> SUFFICES ASSUME NEW p \in reports
               PROVE  (p.status # "ERROR") <=>
                        \E a \in replies : Granted(a, p.run, p.class, p.req, p.lease)
    BY DEF ReportsAreTrue, Granted
  <2>1. Matches(p)
    BY <1>1 DEF RepliesMatch, ReportsMatch
  <2>2. CASE p.error = "" /\ p.status # "ERROR"
    BY <2>1, <2>2 DEF Matches
  <2>3. CASE p.error # "" /\ p.status = "ERROR"
    BY <2>1, <2>3 DEF Matches, Granted
  <2>4. QED
    BY <2>1, <2>2, <2>3 DEF Matches
<1>2. QED
  BY <1>1, RadiusServerRepliesMatch, PTL

-----------------------------------------------------------------------------
(* The numbers handed out, unless a restart found them ahead of the clock.   *)
IssuedApart ==
    \/ ahead
    \/ /\ \A i \in 1 .. Len(issued) : issued[i] <= classId
       /\ \A i, j \in 1 .. Len(issued) : issued[i] = issued[j] => i = j

(* A new number is above all numbers handed out, as long as the clock is     *)
(* ahead of them at every restart.                                           *)
LEMMA IssuedApartStep ==
    ASSUME TypeOK, IssuedApart, [Next]_vars
    PROVE  IssuedApart'
<1>1. ASSUME NEW g \in Goroutines, GetClassId(g) PROVE IssuedApart'
  <2> SUFFICES ASSUME ~ahead
               PROVE  /\ \A i \in 1 .. Len(issued') : issued'[i] <= classId'
                      /\ \A i, j \in 1 .. Len(issued') : issued'[i] = issued'[j] => i = j
    BY <1>1 DEF GetClassId, IssuedApart
  <2>1. issued \in Seq(Nat) /\ classId \in Nat /\ Len(issued) \in Nat
    BY LenProperties DEF TypeOK
  <2>2. issued' = Append(issued, classId + 1) /\ classId' = classId + 1
    BY <1>1 DEF GetClassId
  <2>3. /\ Len(issued') = Len(issued) + 1
        /\ \A i \in 1 .. Len(issued) : issued'[i] = issued[i] /\ issued[i] \in Nat
        /\ issued'[Len(issued) + 1] = classId + 1
    BY <2>1, <2>2, AppendProperties, ElementOfSeq
  <2>4. /\ \A i \in 1 .. Len(issued) : issued[i] <= classId
        /\ \A i, j \in 1 .. Len(issued) : issued[i] = issued[j] => i = j
    BY DEF IssuedApart
  <2>5. \A i \in 1 .. Len(issued') : i \in 1 .. Len(issued) \/ i = Len(issued) + 1
    BY <2>1, <2>3
  <2>6. \A i \in 1 .. Len(issued) : issued'[i] <= classId /\ issued'[i] # classId + 1
    BY <2>1, <2>3, <2>4
  <2>7. QED
    BY <2>1, <2>2, <2>3, <2>4, <2>5, <2>6
<1>2. CASE Restart
  <2>1. issued' = issued /\ classId' = now /\ ahead' = (ahead \/ classId > now)
    BY <1>2 DEF Restart
  <2>2. \A i \in 1 .. Len(issued) : issued[i] \in Nat
    BY ElementOfSeq DEF TypeOK
  <2>3. classId \in Nat /\ now \in Nat
    BY DEF TypeOK
  <2>4. CASE ahead \/ classId > now
    BY <2>1, <2>4 DEF IssuedApart
  <2>5. CASE ~ahead /\ ~(classId > now)
    <3>1. /\ \A i \in 1 .. Len(issued) : issued[i] <= classId
          /\ \A i, j \in 1 .. Len(issued) : issued[i] = issued[j] => i = j
      BY <2>5 DEF IssuedApart
    <3>2. classId <= now
      BY <2>3, <2>5
    <3>3. \A i \in 1 .. Len(issued) : issued[i] <= now
      BY <2>2, <2>3, <3>1, <3>2
    <3>4. QED
      BY <2>1, <3>1, <3>3 DEF IssuedApart
  <2>6. QED
    BY <2>4, <2>5
<1>3. ASSUME UNCHANGED <<classId, issued, ahead>> PROVE IssuedApart'
  BY <1>3 DEF IssuedApart
<1>4. ASSUME NEW g \in Goroutines,
             \/ ApiFails(g) \/ (\E x \in Answers : ApiAnswers(g, x))
             \/ Respond(g) \/ RespondFails(g) \/ SendPostAuth(g)
      PROVE  UNCHANGED <<classId, issued, ahead>>
  BY <1>4 DEF ApiFails, ApiAnswers, Respond, RespondFails, SendPostAuth, hist, log
<1>5. ASSUME NEW g \in Goroutines,
             \/ (\E r \in Requests : Admit(g, r))
             \/ SendAcct(g) \/ Acknowledge(g) \/ Release(g)
      PROVE  UNCHANGED <<classId, issued, ahead>>
  BY <1>5, HoldsNone DEF hist
<1>6. CASE TakePostAuth \/ TakeAcct \/ Tick \/ UNCHANGED vars
  BY <1>3, <1>6, HandlersStay
<1>7. QED
  BY <1>1, <1>2, <1>3, <1>4, <1>5, <1>6 DEF Next, Step

(* No class number is handed out twice, by any run of the process, unless a  *)
(* restart found the numbers ahead of the clock.                             *)
THEOREM RadiusServerClassUnique == Spec => []ClassUnique
<1>1. Init => IssuedApart
  BY DEF Init, IssuedApart
<1>2. IssuedApart => ClassUnique
  BY DEF IssuedApart, ClassUnique
<1>3. QED
  BY <1>1, <1>2, IssuedApartStep, RadiusServerTyped, PTL DEF Spec, Typed

-----------------------------------------------------------------------------
(* The metrics are the reports of this run plus the handlers that were       *)
(* counted before their report.                                              *)
Refused == {g \in Goroutines : handlers[g].pc = "report" /\ handlers[g].error = "answer"}

Assigned == {g \in Goroutines : \/ handlers[g].pc = "respond"
                                \/ handlers[g].pc = "report" /\ handlers[g].error # "answer"}

ReportedErrors == {p \in reports : p.run = restarts /\ p.error \in {"answer", "write"}}

ReportedAssigned == {p \in reports : p.run = restarts /\ p.error \in {"", "write"}}

MetricsCount ==
    /\ IsFiniteSet(reports)
    /\ metrics.radCritical = Cardinality(ReportedErrors) + Cardinality(Refused)
    /\ metrics.radRequests = Cardinality(ReportedAssigned) + Cardinality(Assigned)

(* A set with one element more.                                              *)
LEMMA OneMore ==
    ASSUME NEW S, NEW x, IsFiniteSet(S), x \notin S
    PROVE  Cardinality(S) \in Nat /\ Cardinality(S \cup {x}) = Cardinality(S) + 1
  BY FS_AddElement, FS_CardinalityType

(* A set with one element less.                                              *)
LEMMA OneLess ==
    ASSUME NEW S, NEW x, IsFiniteSet(S), x \in S
    PROVE  Cardinality(S) \in Nat /\ Cardinality(S \ {x}) = Cardinality(S) - 1
  BY FS_RemoveElement, FS_CardinalityType

(* Disjoint sets are counted one after the other.                            *)
LEMMA DisjointSum ==
    ASSUME NEW S, NEW T, IsFiniteSet(S), IsFiniteSet(T), S \cap T = {}
    PROVE  /\ Cardinality(S \cup T) = Cardinality(S) + Cardinality(T)
           /\ Cardinality(S) \in Nat /\ Cardinality(T) \in Nat
<1>1. Cardinality(S) \in Nat /\ Cardinality(T) \in Nat
  BY FS_CardinalityType
<1>2. Cardinality(S \cap T) = 0
  BY FS_EmptySet
<1>3. Cardinality(S \cup T) = Cardinality(S) + Cardinality(T) - Cardinality(S \cap T)
  BY FS_Union
<1>4. QED
  BY <1>1, <1>2, <1>3

(* All sets that are counted are finite. *)
LEMMA CountedSetsFinite ==
    ASSUME IsFiniteSet(reports)
    PROVE  /\ IsFiniteSet(Refused) /\ IsFiniteSet(Assigned)
           /\ IsFiniteSet(ReportedErrors) /\ IsFiniteSet(ReportedAssigned)
<1>1. Refused \subseteq Goroutines /\ Assigned \subseteq Goroutines
  BY DEF Refused, Assigned
<1>2. ReportedErrors \subseteq reports /\ ReportedAssigned \subseteq reports
  BY DEF ReportedErrors, ReportedAssigned
<1>3. QED
  BY <1>1, <1>2, FS_Subset, RadiusServerAssumption

(* A handler is counted when it comes to its report, and once.               *)
LEMMA MetricsCountStep ==
    ASSUME Typed, EachInOnePlace, MetricsCount, [Next]_vars
    PROVE  MetricsCount'
<1>0. /\ TypeOK /\ IsFiniteSet(reports)
      /\ IsFiniteSet(Refused) /\ IsFiniteSet(Assigned)
      /\ IsFiniteSet(ReportedErrors) /\ IsFiniteSet(ReportedAssigned)
      /\ Cardinality(ReportedErrors) \in Nat /\ Cardinality(ReportedAssigned) \in Nat
      /\ Cardinality(Refused) \in Nat /\ Cardinality(Assigned) \in Nat
      /\ metrics \in [radRequests : Nat, radCritical : Nat]
      /\ metrics.radCritical = Cardinality(ReportedErrors) + Cardinality(Refused)
      /\ metrics.radRequests = Cardinality(ReportedAssigned) + Cardinality(Assigned)
  BY CountedSetsFinite, FS_CardinalityType DEF Typed, TypeOK, MetricsCount
<1>1. ASSUME UNCHANGED <<reports, restarts>>
      PROVE  /\ ReportedErrors' = ReportedErrors /\ ReportedAssigned' = ReportedAssigned
             /\ IsFiniteSet(reports')
  BY <1>0, <1>1 DEF ReportedErrors, ReportedAssigned
<1>2. ASSUME Refused' = Refused, Assigned' = Assigned, UNCHANGED <<reports, restarts, metrics>>
      PROVE  MetricsCount'
  BY <1>1, <1>2 DEF MetricsCount
<1>3. ASSUME NEW g \in Goroutines, Refuse(g, "answer"), Counted("radCritical"),
             handlers[g].pc = "ask", UNCHANGED hist
      PROVE  MetricsCount'
  <2>1. /\ handlers'[g].pc = "report" /\ handlers'[g].error = "answer"
        /\ \A i \in Goroutines : i # g => handlers'[i] = handlers[i]
    BY <1>0, <1>3 DEF Refuse, TypeOK, Handler
  <2>2. Refused' = Refused \cup {g} /\ g \notin Refused /\ Assigned' = Assigned
    BY <1>3, <2>1 DEF Refused, Assigned
  <2>3. Cardinality(Refused') = Cardinality(Refused) + 1
    BY <1>0, <2>2, OneMore
  <2>4. /\ metrics'.radCritical = metrics.radCritical + 1
        /\ metrics'.radRequests = metrics.radRequests
    BY <1>0, <1>3 DEF Counted
  <2>5. UNCHANGED <<reports, restarts>>
    BY <1>3 DEF hist
  <2>6. /\ ReportedErrors' = ReportedErrors /\ ReportedAssigned' = ReportedAssigned
        /\ IsFiniteSet(reports')
    BY <1>1, <2>5
  <2>7. QED
    BY <1>0, <2>2, <2>3, <2>4, <2>6 DEF MetricsCount
<1>4. ASSUME NEW g \in Goroutines, NEW x, handlers[g].pc = "ask",
             handlers' = [handlers EXCEPT ![g].pc = "respond", ![g].answer = x],
             Counted("radRequests"), UNCHANGED hist
      PROVE  MetricsCount'
  <2>1. /\ handlers'[g].pc = "respond"
        /\ \A i \in Goroutines : i # g => handlers'[i] = handlers[i]
    BY <1>0, <1>4 DEF TypeOK, Handler
  <2>2. Assigned' = Assigned \cup {g} /\ g \notin Assigned /\ Refused' = Refused
    BY <1>4, <2>1 DEF Refused, Assigned
  <2>3. Cardinality(Assigned') = Cardinality(Assigned) + 1
    BY <1>0, <2>2, OneMore
  <2>4. /\ metrics'.radCritical = metrics.radCritical
        /\ metrics'.radRequests = metrics.radRequests + 1
    BY <1>0, <1>4 DEF Counted
  <2>5. UNCHANGED <<reports, restarts>>
    BY <1>4 DEF hist
  <2>6. /\ ReportedErrors' = ReportedErrors /\ ReportedAssigned' = ReportedAssigned
        /\ IsFiniteSet(reports')
    BY <1>1, <2>5
  <2>7. QED
    BY <1>0, <2>2, <2>3, <2>4, <2>6 DEF MetricsCount
<1>5. ASSUME NEW g \in Goroutines, GetClassId(g) \/ Respond(g) \/ RespondFails(g)
      PROVE  MetricsCount'
  <2>1. UNCHANGED <<reports, restarts, metrics>>
    BY <1>5 DEF GetClassId, Respond, RespondFails, hist, log
  <2>2. CASE GetClassId(g)
    <3>1. /\ handlers[g].pc = "class" /\ handlers'[g].pc = "ask"
          /\ \A i \in Goroutines : i # g => handlers'[i] = handlers[i]
      BY <1>0, <2>2 DEF GetClassId, TypeOK, Handler
    <3>2. Refused' = Refused /\ Assigned' = Assigned
      BY <3>1 DEF Refused, Assigned
    <3>3. QED
      BY <1>2, <2>1, <3>2
  <2>3. CASE Respond(g) \/ RespondFails(g)
    <3>1. /\ handlers[g].pc = "respond" /\ handlers[g].error = ""
          /\ handlers'[g].pc = "report" /\ handlers'[g].error \in {"", "write"}
          /\ \A i \in Goroutines : i # g => handlers'[i] = handlers[i]
      <4>1. handlers[g].pc = "respond" /\ handlers[g].error = ""
        BY <2>3 DEF Respond, RespondFails, Typed, AllEquipped, Equipped
      <4>2. CASE Respond(g)
        BY <1>0, <4>1, <4>2 DEF Respond, TypeOK, Handler
      <4>3. CASE RespondFails(g)
        BY <1>0, <4>1, <4>3 DEF RespondFails, Refuse, TypeOK, Handler
      <4>4. QED
        BY <2>3, <4>2, <4>3, <4>1
    <3>2. Refused' = Refused /\ Assigned' = Assigned
      BY <3>1 DEF Refused, Assigned
    <3>3. QED
      BY <1>2, <2>1, <3>2
  <2>4. QED
    BY <1>5, <2>2, <2>3
<1>6. ASSUME NEW g \in Goroutines, SendPostAuth(g) PROVE MetricsCount'
  <2> DEFINE p == ReportOf(g)
             e == handlers[g].error
  <2>1. /\ handlers[g].pc = "report" /\ handlers'[g].pc = "end"
        /\ \A i \in Goroutines : i # g => handlers'[i] = handlers[i]
    BY <1>0, <1>6 DEF SendPostAuth, TypeOK, Handler
  <2>2. restarts' = restarts /\ reports' = reports \cup {p}
    BY <1>6 DEF SendPostAuth, log
  <2>3. p.run = restarts /\ p.error = e /\ p.class = handlers[g].class
    BY DEF ReportOf
  <2> HIDE DEF p
  <2>4. p \notin reports
    <3>1. Holds(g)
      BY <2>1 DEF Holds
    <3>2. QED
      BY <2>3, <3>1 DEF EachInOnePlace, HeldOnce
  <2>5. IsFiniteSet(reports')
    BY <1>0, <2>2, FS_AddElement
  <2>6. e \in {"", "answer", "write"}
    BY <1>0 DEF TypeOK, Handler, Errors
  <2>7. p \notin ReportedErrors /\ p \notin ReportedAssigned
    BY <2>4 DEF ReportedErrors, ReportedAssigned
  <2>8. /\ e # "" => /\ ReportedErrors' = ReportedErrors \cup {p}
                     /\ Cardinality(ReportedErrors') = Cardinality(ReportedErrors) + 1
        /\ e = "" => ReportedErrors' = ReportedErrors
    <3>1. e # "" => ReportedErrors' = ReportedErrors \cup {p}
      BY <2>2, <2>3, <2>6 DEF ReportedErrors
    <3>2. e = "" => ReportedErrors' = ReportedErrors
      BY <2>2, <2>3 DEF ReportedErrors
    <3>3. Cardinality(ReportedErrors \cup {p}) = Cardinality(ReportedErrors) + 1
      BY <1>0, <2>7, OneMore
    <3>4. QED
      BY <3>1, <3>2, <3>3
  <2>9. /\ e # "answer" => /\ ReportedAssigned' = ReportedAssigned \cup {p}
                           /\ Cardinality(ReportedAssigned') = Cardinality(ReportedAssigned) + 1
        /\ e = "answer" => ReportedAssigned' = ReportedAssigned
    <3>1. e # "answer" => ReportedAssigned' = ReportedAssigned \cup {p}
      BY <2>2, <2>3, <2>6 DEF ReportedAssigned
    <3>2. e = "answer" => ReportedAssigned' = ReportedAssigned
      BY <2>2, <2>3 DEF ReportedAssigned
    <3>3. Cardinality(ReportedAssigned \cup {p}) = Cardinality(ReportedAssigned) + 1
      BY <1>0, <2>7, OneMore
    <3>4. QED
      BY <3>1, <3>2, <3>3
  <2>10. CASE e = "answer"
    <3>1. metrics' = metrics
      BY <1>6, <2>10 DEF SendPostAuth
    <3>2. g \in Refused /\ Refused' = Refused \ {g} /\ Assigned' = Assigned
      BY <2>1, <2>10 DEF Refused, Assigned
    <3>3. Cardinality(Refused') = Cardinality(Refused) - 1
      BY <1>0, <3>2, OneLess
    <3> HIDE DEF e
    <3>4. QED
      BY <1>0, <2>5, <2>8, <2>9, <2>10, <3>1, <3>2, <3>3 DEF MetricsCount
  <2>11. CASE e # "answer"
    <3>1. g \in Assigned /\ Assigned' = Assigned \ {g} /\ Refused' = Refused
      BY <2>1, <2>11 DEF Refused, Assigned
    <3>2. Cardinality(Assigned') = Cardinality(Assigned) - 1
      BY <1>0, <3>1, OneLess
    <3>3. /\ metrics'.radCritical = IF e = "write" THEN metrics.radCritical + 1
                                                   ELSE metrics.radCritical
          /\ metrics'.radRequests = metrics.radRequests
      BY <1>0, <1>6 DEF SendPostAuth
    <3> HIDE DEF e
    <3>4. QED
      <4>1. CASE e = ""
        <5>1. metrics'.radCritical = metrics.radCritical /\ ReportedErrors' = ReportedErrors
          BY <2>8, <3>3, <4>1
        <5>2. Cardinality(ReportedAssigned') = Cardinality(ReportedAssigned) + 1
          BY <2>9, <2>11
        <5>3. QED
          BY <1>0, <2>5, <3>1, <3>2, <3>3, <5>1, <5>2 DEF MetricsCount
      <4>2. CASE e = "write"
        BY <1>0, <2>5, <2>8, <2>9, <3>1, <3>2, <3>3, <4>2 DEF MetricsCount
      <4>3. QED
        BY <2>6, <2>11, <4>1, <4>2
  <2>12. QED
    BY <2>10, <2>11
<1>7. ASSUME NEW g \in Goroutines,
             \/ (\E r \in Requests : Admit(g, r))
             \/ SendAcct(g) \/ Acknowledge(g) \/ Release(g)
      PROVE  MetricsCount'
  <2>1. /\ ~Holds(g) /\ ~Holds(g)'
        /\ \A i \in Goroutines : i # g => handlers'[i] = handlers[i]
        /\ UNCHANGED <<reports, restarts, metrics>>
    BY <1>0, <1>7, HoldsNone DEF hist
  <2>2. Refused' = Refused /\ Assigned' = Assigned
    BY <2>1 DEF Refused, Assigned, Holds
  <2>3. QED
    BY <1>2, <2>1, <2>2
<1>8. CASE Restart
  <2>1. Refused' = {} /\ Assigned' = {}
    BY <1>8 DEF Restart, Idle, Refused, Assigned
  <2>2. reports' = reports /\ restarts' = restarts + 1 /\ metrics' = NoneCounted
    BY <1>8 DEF Restart
  <2>3. \A p \in reports : p.run # restarts'
    <3>1. \A p \in reports : p.run \in Nat /\ p.run <= restarts
      BY <1>0 DEF TypeOK, Report, EachInOnePlace, ReportedOnce
    <3>2. restarts \in Nat
      BY <1>0 DEF TypeOK
    <3>3. QED
      BY <2>2, <3>1, <3>2
  <2>4. ReportedErrors' = {} /\ ReportedAssigned' = {}
    BY <2>2, <2>3 DEF ReportedErrors, ReportedAssigned
  <2>5. metrics'.radCritical = 0 /\ metrics'.radRequests = 0 /\ IsFiniteSet(reports')
    BY <1>0, <2>2 DEF NoneCounted
  <2>6. Cardinality({}) = 0
    BY FS_EmptySet
  <2>7. QED
    BY <2>1, <2>4, <2>5, <2>6 DEF MetricsCount
<1>9. CASE TakePostAuth \/ TakeAcct \/ Tick \/ UNCHANGED vars
  <2>1. UNCHANGED <<handlers, metrics, reports, restarts>>
    BY <1>9 DEF TakePostAuth, TakeAcct, Tick, vars, hist
  <2>2. QED
    BY <1>2, <2>1 DEF Refused, Assigned
<1>10. ASSUME NEW g \in Goroutines, ApiFails(g) PROVE MetricsCount'
  BY <1>3, <1>10 DEF ApiFails
<1>11. ASSUME NEW g \in Goroutines, NEW x \in Answers, ApiAnswers(g, x) PROVE MetricsCount'
  BY <1>3, <1>4, <1>11 DEF ApiAnswers
<1>12. QED
  BY <1>5, <1>6, <1>7, <1>8, <1>9, <1>10, <1>11 DEF Next, Step

(* The counters are the reports of this run and the handlers on their way    *)
(* to one.                                                                   *)
THEOREM RadiusServerMetricsCount == Spec => []MetricsCount
<1>1. ASSUME Init PROVE MetricsCount
  <2>1. Refused = {} /\ Assigned = {}
    BY <1>1 DEF Init, Idle, Refused, Assigned
  <2>2. reports = {} /\ metrics = NoneCounted
    BY <1>1 DEF Init
  <2>3. ReportedErrors = {} /\ ReportedAssigned = {}
    BY <2>2 DEF ReportedErrors, ReportedAssigned
  <2>4. metrics.radCritical = 0 /\ metrics.radRequests = 0
    BY <2>2 DEF NoneCounted
  <2>5. IsFiniteSet({}) /\ Cardinality({}) = 0
    BY FS_EmptySet
  <2>6. QED
    BY <2>1, <2>2, <2>3, <2>4, <2>5 DEF MetricsCount
<1>2. QED
  BY <1>1, MetricsCountStep, RadiusServerTyped, RadiusServerEachInOnePlace, PTL DEF Spec

(* The counters agree with the reports, whatever step of the counting and    *)
(* the reporting a handler is at.                                            *)
THEOREM RadiusServerMetricsAddUp == Spec => []MetricsAddUp
<1>1. ASSUME TypeOK, MetricsCount PROVE MetricsAddUp
  <2>1. \A g \in Goroutines : handlers[g].error \in {"", "answer", "write"}
    BY <1>1 DEF TypeOK, Handler, Errors
  <2>2. /\ ReportedErrors = Reported({"answer", "write"})
        /\ ReportedAssigned = Reported({"", "write"})
    BY DEF ReportedErrors, ReportedAssigned, Reported
  <2>3. Refused = Reporting({"answer"})
    BY DEF Active, Refused, Reporting
  <2>4. /\ Assigned = Reporting({"", "write"}) \cup Responding
        /\ Reporting({"", "write"}) \cap Responding = {}
    BY <2>1 DEF Active, Assigned, Reporting, Responding
  <2>5. IsFiniteSet(Reporting({"", "write"})) /\ IsFiniteSet(Responding)
    <3>1. Reporting({"", "write"}) \subseteq Goroutines /\ Responding \subseteq Goroutines
      BY DEF Active, Reporting, Responding
    <3>2. QED
      BY <3>1, FS_Subset, RadiusServerAssumption
  <2>6. /\ Cardinality(Assigned) = Cardinality(Reporting({"", "write"})) + Cardinality(Responding)
        /\ Cardinality(Reporting({"", "write"})) \in Nat /\ Cardinality(Responding) \in Nat
    BY <2>4, <2>5, DisjointSum
  <2>7. Cardinality(ReportedAssigned) \in Nat
    BY <1>1, CountedSetsFinite, FS_CardinalityType DEF MetricsCount
  <2>8. /\ metrics.radCritical = Cardinality(ReportedErrors) + Cardinality(Refused)
        /\ metrics.radRequests = Cardinality(ReportedAssigned) + Cardinality(Assigned)
    BY <1>1 DEF MetricsCount
  <2>9. metrics.radRequests = Cardinality(ReportedAssigned)
                                + Cardinality(Reporting({"", "write"})) + Cardinality(Responding)
    <3>1. \A a, b, c \in Nat : a + (b + c) = a + b + c
      OBVIOUS
    <3> DEFINE a == Cardinality(ReportedAssigned)
               b == Cardinality(Reporting({"", "write"}))
               c == Cardinality(Responding)
    <3>2. metrics.radRequests = a + Cardinality(Assigned)
      BY <2>8
    <3>3. Cardinality(Assigned) = b + c
      BY <2>6
    <3>4. a \in Nat /\ b \in Nat /\ c \in Nat
      BY <2>6, <2>7
    <3> HIDE DEF a, b, c
    <3>5. metrics.radRequests = a + b + c
      BY <3>1, <3>2, <3>3, <3>4
    <3>6. QED
      BY <3>5 DEF a, b, c
  <2>10. QED
    BY <2>2, <2>3, <2>8, <2>9, Zenon DEF MetricsAddUp
<1>2. QED
  BY <1>1, RadiusServerMetricsCount, RadiusServerTyped, PTL DEF Typed
=============================================================================
