---------------------------- MODULE StartupProofs ----------------------------
(***************************************************************************)
(* Proofs about the start of the server: what its log says, for any         *)
(* configuration file, environment and log levels.                          *)
(***************************************************************************)
EXTENDS Startup, FlattenTheorems, FiniteSets, FiniteSetTheorems, TLAPS

-----------------------------------------------------------------------------
(* The logger.  A number is either in a call that has not written yet or on  *)
(* a line, and on one only.                                                  *)

Lines == 1 .. Len(lines)

Line == [Id : Nat, Level : 1 .. Lg!InfoLevel, by : Goroutines, out : Lg!Outputs]

InBounds ==
    /\ \A g \in Goroutines : logging[g].Id <= logNo
    /\ \A i \in Lines : lines[i].Id \in 1 .. logNo

InCallIsQuietOrNumbered ==
    \A g \in Goroutines : /\ logging[g].Id = 0 => logging[g] = Lg!Quiet
                          /\ logging[g] # Lg!Quiet => logging[g].Level \in 1 .. Lg!InfoLevel

CallsApart ==
    \A g, h \in Goroutines : g # h /\ logging[g].Id # 0 => logging[g].Id # logging[h].Id

LinesApart == \A i, j \in Lines : lines[i].Id = lines[j].Id => i = j

CallsAndLinesApart == \A g \in Goroutines, i \in Lines : logging[g].Id # lines[i].Id

(* A logger at the highest level that is used writes everything.             *)
Complete ==
    worker.level >= Lg!InfoLevel =>
        \A n \in 1 .. logNo : \/ \E g \in Goroutines : logging[g].Id = n
                              \/ \E i \in Lines : lines[i].Id = n

LogInv ==
    /\ logNo \in Nat
    /\ worker \in [level : Int, out : Lg!Outputs]
    /\ logging \in [Goroutines -> [Id : Nat, Level : 0 .. Lg!InfoLevel]]
    /\ lines \in Seq(Line)
    /\ InBounds
    /\ InCallIsQuietOrNumbered
    /\ CallsApart
    /\ LinesApart
    /\ CallsAndLinesApart
    /\ Complete

(* A call takes a number that nobody has.                                    *)
LEMMA LogStep ==
    ASSUME LogInv, NEW g \in Goroutines, NEW lvl \in 1 .. Lg!InfoLevel, Lg!Log(g, lvl)
    PROVE  LogInv'
<1> DEFINE call == [Id |-> logNo + 1, Level |-> lvl]
<1>0. /\ logNo \in Nat /\ logging \in [Goroutines -> [Id : Nat, Level : 0 .. Lg!InfoLevel]]
      /\ logNo' = logNo + 1 /\ logging' = [logging EXCEPT ![g] = call]
      /\ worker' = worker /\ lines' = lines /\ Lines' = Lines
      /\ call.Id = logNo + 1 /\ call.Level = lvl
  BY DEF LogInv, Lg!Log, Lines
<1>1. call \in [Id : Nat, Level : 0 .. Lg!InfoLevel]
  BY <1>0 DEF Lg!InfoLevel
<1> HIDE DEF call
<1>2. /\ logging' \in [Goroutines -> [Id : Nat, Level : 0 .. Lg!InfoLevel]]
      /\ logging'[g] = call /\ \A h \in Goroutines : h # g => logging'[h] = logging[h]
  BY <1>0, <1>1
<1>3. \A h \in Goroutines : logging[h].Id \in Nat /\ logging[h].Id <= logNo
  BY <1>0 DEF LogInv, InBounds
<1>4. \A i \in Lines : lines[i].Id \in 1 .. logNo
  BY DEF LogInv, InBounds
<1>5. InBounds'
  BY <1>0, <1>2, <1>3, <1>4 DEF InBounds
<1>6. InCallIsQuietOrNumbered'
  BY <1>0, <1>2, <1>3 DEF LogInv, InCallIsQuietOrNumbered
<1>7. CallsApart'
  BY <1>0, <1>2, <1>3 DEF LogInv, CallsApart
<1>8. LinesApart' /\ CallsAndLinesApart'
  BY <1>0, <1>2, <1>3, <1>4 DEF LogInv, LinesApart, CallsAndLinesApart
<1>9. Complete'
  <2> SUFFICES ASSUME worker.level >= Lg!InfoLevel, NEW n \in 1 .. logNo + 1
               PROVE  \/ \E h \in Goroutines : logging'[h].Id = n
                      \/ \E i \in Lines : lines[i].Id = n
    BY <1>0 DEF Complete
  <2>1. CASE n = logNo + 1
    BY <1>0, <1>2, <2>1
  <2>2. CASE n # logNo + 1
    <3>1. n \in 1 .. logNo
      BY <1>0, <2>2
    <3>2. CASE \E i \in Lines : lines[i].Id = n
      BY <3>2
    <3>3. ASSUME NEW h \in Goroutines, logging[h].Id = n
          PROVE  \E d \in Goroutines : logging'[d].Id = n
      <4>1. logging[h] # Lg!Quiet
        BY <3>1, <3>3 DEF Lg!Quiet
      <4>2. h # g
        BY <4>1 DEF Lg!Log
      <4>3. QED
        BY <1>2, <3>3, <4>2
    <3>4. QED
      BY <3>1, <3>2, <3>3 DEF LogInv, Complete
  <2>3. QED
    BY <2>1, <2>2
<1>10. QED
  BY <1>0, <1>2, <1>5, <1>6, <1>7, <1>8, <1>9 DEF LogInv

(* The line takes over the number of the call, which is over.                *)
LEMMA WriteStep ==
    ASSUME LogInv, NEW g \in Goroutines, Lg!Write(g)
    PROVE  LogInv'
<1> DEFINE call == logging[g]
           line == [Id |-> call.Id, Level |-> call.Level, by |-> g, out |-> worker.out]
<1>0. /\ logNo \in Nat /\ logging \in [Goroutines -> [Id : Nat, Level : 0 .. Lg!InfoLevel]]
      /\ worker \in [level : Int, out : Lg!Outputs] /\ lines \in Seq(Line)
      /\ logNo' = logNo /\ worker' = worker
      /\ call # Lg!Quiet /\ logging' = [logging EXCEPT ![g] = Lg!Quiet]
      /\ lines' = IF worker.level < call.Level THEN lines ELSE Append(lines, line)
  BY DEF LogInv, Lg!Write
<1>1. /\ logging' \in [Goroutines -> [Id : Nat, Level : 0 .. Lg!InfoLevel]]
      /\ logging'[g] = Lg!Quiet /\ \A h \in Goroutines : h # g => logging'[h] = logging[h]
      /\ Lg!Quiet.Id = 0
  BY <1>0 DEF Lg!Quiet, Lg!InfoLevel
<1>2. call.Id \in 1 .. logNo /\ call.Level \in 1 .. Lg!InfoLevel
  <2>1. call.Id \in Nat /\ call.Id # 0 /\ call.Id <= logNo
    BY <1>0 DEF LogInv, InBounds, InCallIsQuietOrNumbered
  <2>2. call.Level \in 1 .. Lg!InfoLevel
    BY <1>0 DEF LogInv, InCallIsQuietOrNumbered
  <2>3. QED
    BY <1>0, <2>1, <2>2
<1>3. line \in Line /\ line.Id = call.Id
  BY <1>0, <1>2 DEF Line
<1> HIDE DEF line, call
<1>4. \A h \in Goroutines : logging'[h].Id = IF h = g THEN 0 ELSE logging[h].Id
  BY <1>1
<1>5. \A h \in Goroutines : logging[h].Id \in Nat /\ logging[h].Id <= logNo
  BY <1>0 DEF LogInv, InBounds
<1>6. InCallIsQuietOrNumbered'
  BY <1>1 DEF LogInv, InCallIsQuietOrNumbered
<1>7. CallsApart'
  BY <1>4 DEF LogInv, CallsApart
<1>8. \A i \in Lines : lines[i].Id \in 1 .. logNo
  BY DEF LogInv, InBounds
<1>9. \A h \in Goroutines : h # g => logging[h].Id # call.Id
  BY <1>2 DEF LogInv, CallsApart, call
<1>10. \A i \in Lines : lines[i].Id # call.Id
  BY DEF LogInv, CallsAndLinesApart, call
<1>11. CASE worker.level < call.Level
  <2>1. lines' = lines /\ Lines' = Lines
    BY <1>0, <1>11 DEF Lines
  <2>2. InBounds'
    BY <1>0, <1>4, <1>5, <1>8, <2>1 DEF InBounds
  <2>3. LinesApart' /\ CallsAndLinesApart'
    BY <1>0, <1>4, <1>8, <2>1 DEF LogInv, LinesApart, CallsAndLinesApart
  <2>4. ~(worker.level >= Lg!InfoLevel)
    BY <1>0, <1>2, <1>11 DEF Lg!InfoLevel
  <2>5. QED
    BY <1>0, <1>1, <1>6, <1>7, <2>1, <2>2, <2>3, <2>4 DEF LogInv, Complete
<1>12. CASE ~(worker.level < call.Level)
  <2>1. lines' = Append(lines, line)
    BY <1>0, <1>12
  <2>2. /\ Len(lines) \in Nat /\ Len(lines') = Len(lines) + 1 /\ lines' \in Seq(Line)
        /\ lines'[Len(lines) + 1] = line
        /\ \A i \in Lines : lines'[i] = lines[i]
    BY <1>0, <1>3, <2>1 DEF Lines
  <2>3. \A i \in Lines' : /\ i \in Lines \/ i = Len(lines) + 1
                          /\ lines'[i] = IF i \in Lines THEN lines[i] ELSE line
    BY <2>2 DEF Lines
  <2>4. \A i \in Lines : i \in Lines'
    BY <2>2 DEF Lines
  <2>4a. Len(lines) + 1 \in Lines'
    BY <2>2 DEF Lines
  <2>5. \A i \in Lines' : lines'[i].Id = IF i \in Lines THEN lines[i].Id ELSE call.Id
    BY <1>3, <2>3
  <2>5a. \A i \in Lines' : lines'[i].Id \in 1 .. logNo
    <3> SUFFICES ASSUME NEW i \in Lines' PROVE lines'[i].Id \in 1 .. logNo
      OBVIOUS
    <3>1. CASE i \in Lines
      BY <1>8, <2>5, <3>1
    <3>2. CASE i \notin Lines
      BY <1>2, <2>5, <3>2
    <3>3. QED
      BY <3>1, <3>2
  <2>5b. \A h \in Goroutines : logging'[h].Id <= logNo
    BY <1>0, <1>4, <1>5
  <2>5c. InBounds'
    BY <1>0, <2>5a, <2>5b DEF InBounds
  <2>6. LinesApart'
    BY <1>3, <1>10, <2>3 DEF LogInv, LinesApart
  <2>7. CallsAndLinesApart'
    <3>1. \A i \in Lines' : lines'[i].Id # 0
      BY <2>5a
    <3>2. QED
      BY <1>4, <1>9, <2>5, <3>1 DEF LogInv, CallsAndLinesApart
  <2>8. Complete'
    <3> SUFFICES ASSUME worker.level >= Lg!InfoLevel, NEW n \in 1 .. logNo
                 PROVE  \/ \E h \in Goroutines : logging'[h].Id = n
                        \/ \E i \in Lines' : lines'[i].Id = n
      BY <1>0 DEF Complete
    <3>1. CASE n = call.Id
      BY <1>3, <2>2, <2>4a, <3>1
    <3>2. ASSUME NEW h \in Goroutines, logging[h].Id = n, n # call.Id
          PROVE  logging'[h].Id = n
      BY <1>4, <3>2 DEF call
    <3>3. ASSUME NEW i \in Lines, lines[i].Id = n
          PROVE  i \in Lines' /\ lines'[i].Id = n
      BY <2>2, <2>4, <3>3
    <3>4. QED
      BY <3>1, <3>2, <3>3 DEF LogInv, Complete
  <2>9. QED
    BY <1>0, <1>1, <1>6, <1>7, <2>2, <2>5c, <2>6, <2>7, <2>8 DEF LogInv
<1>13. QED
  BY <1>11, <1>12

-----------------------------------------------------------------------------
(* The start.                                                                *)

Sides == {"exporter", "profiler"}

StateTypes ==
    /\ side \in [Sides -> {"none", "started", "serving", "failed"}]
    /\ conf \in [Console : BOOLEAN, LogLevel : Levels, Prometheus : BOOLEAN, Profiler : BOOLEAN]
    /\ stopped \in [how : {"running", "panic", "fatal"}, by : Goroutines \cup {"none"}]

(* Nothing is logged, and no side server runs, before the logger is set up.  *)
LoggerFirst ==
    main \in {"load", "logger"} => logNo = 0 /\ \A s \in Sides : side[s] = "none"

(* The line about the exporter is written, if lines are written at all.      *)
Told ==
    worker.level >= Lg!CriticalLevel =>
        \E i \in Lines : lines[i].by = "exporter" /\ lines[i].Level = Lg!CriticalLevel

(* A failed exporter has told the log or is about to, before it panics.      *)
FailureIsTold ==
    /\ side["exporter"] = "failed" =>
         Told \/ logging["exporter"].Level = Lg!CriticalLevel
    /\ stopped.by = "exporter" => Told

Inv == LogInv /\ StateTypes /\ LoggerFirst /\ FailureIsTold

(* What the logger is made with.                                             *)
LEMMA DefaultLogger == Lg!New(<<>>) = [level |-> Lg!InfoLevel, out |-> "stderr"]
<1>1. {i \in 1 .. Len(<<>>) : <<>>[i].type = "LogLevel"} = {}
  OBVIOUS
<1>2. {i \in 1 .. Len(<<>>) : <<>>[i].type = "io.Writer"} = {}
  OBVIOUS
<1>3. QED
  BY <1>1, <1>2 DEF Lg!New, Lg!Given

(* The logger of a disabled console: no level and no output is among New's   *)
(* arguments.                                                                *)
LEMMA NoLogLogger ==
    Lg!New(<<[type |-> "string", arg |-> "no_log"], [type |-> "string", arg |-> "/dev/null"]>>)
      = [level |-> Lg!InfoLevel, out |-> "stderr"]
<1> DEFINE args == <<[type |-> "string", arg |-> "no_log"], [type |-> "string", arg |-> "/dev/null"]>>
<1>1. Len(args) = 2 /\ args[1].type = "string" /\ args[2].type = "string"
  OBVIOUS
<1> HIDE DEF args
<1>2. \A i \in 1 .. Len(args) : args[i].type = "string"
  BY <1>1
<1>3. /\ {i \in 1 .. Len(args) : args[i].type = "LogLevel"} = {}
      /\ {i \in 1 .. Len(args) : args[i].type = "io.Writer"} = {}
  BY <1>2
<1>4. Lg!New(args) = [level |-> Lg!InfoLevel, out |-> "stderr"]
  BY <1>3 DEF Lg!New, Lg!Given
<1>5. QED
  BY <1>4 DEF args

(* The logger of the console.                                                *)
LEMMA ConsoleLogger ==
    Lg!New(<<[type |-> "string", arg |-> "radius"], [type |-> "io.Writer", arg |-> "stdout"]>>)
      = [level |-> Lg!InfoLevel, out |-> "stdout"]
<1> DEFINE args == <<[type |-> "string", arg |-> "radius"], [type |-> "io.Writer", arg |-> "stdout"]>>
<1>1. Len(args) = 2 /\ args[1].type = "string" /\ args[2].type = "io.Writer"
      /\ args[2].arg = "stdout"
  OBVIOUS
<1> HIDE DEF args
<1>2. {i \in 1 .. Len(args) : args[i].type = "LogLevel"} = {}
  BY <1>1
<1>3. {i \in 1 .. Len(args) : args[i].type = "io.Writer"} = {2}
  BY <1>1
<1>4. (CHOOSE i \in {2} : \A j \in {2} : i >= j) = 2
  <2>1. \E i \in {2} : \A j \in {2} : i >= j
    OBVIOUS
  <2>2. QED
    BY <2>1
<1>5. Lg!New(args) = [level |-> Lg!InfoLevel, out |-> "stdout"]
  BY <1>1, <1>2, <1>3, <1>4 DEF Lg!New, Lg!Given
<1>6. QED
  BY <1>5 DEF args

(* A logger that is made before anything is logged starts a log of its own.  *)
LEMMA FirstLogger ==
    ASSUME LogInv, logNo = 0, worker' \in [level : Int, out : Lg!Outputs],
           UNCHANGED <<logNo, logging, lines>>
    PROVE  LogInv'
<1>1. Lines' = Lines
  BY DEF Lines
<1>2. Complete'
  BY DEF Complete
<1>3. QED
  BY <1>1, <1>2 DEF LogInv, InBounds, InCallIsQuietOrNumbered, CallsApart, LinesApart,
                    CallsAndLinesApart

(* A step that leaves the logger alone.                                      *)
LEMMA LogStays ==
    ASSUME LogInv, UNCHANGED lgVars
    PROVE  LogInv' /\ (Told => Told')
  BY DEF lgVars, LogInv, InBounds, InCallIsQuietOrNumbered, CallsApart, LinesApart,
         CallsAndLinesApart, Complete, Lines, Told

(* What has been written stays written.                                      *)
LEMMA ToldStays ==
    ASSUME LogInv, NEW g \in Goroutines, Lg!Write(g)
    PROVE  /\ Told => Told'
           /\ g = "exporter" /\ logging[g].Level = Lg!CriticalLevel => Told'
           /\ \A h \in Goroutines : h # g => logging'[h] = logging[h]
<1> DEFINE line == [Id |-> logging[g].Id, Level |-> logging[g].Level, by |-> g, out |-> worker.out]
<1>0. /\ logging \in [Goroutines -> [Id : Nat, Level : 0 .. Lg!InfoLevel]] /\ lines \in Seq(Line)
      /\ worker' = worker /\ worker.level \in Int
      /\ logging' = [logging EXCEPT ![g] = Lg!Quiet]
      /\ lines' = IF worker.level < logging[g].Level THEN lines ELSE Append(lines, line)
  BY DEF LogInv, Lg!Write
<1>1. line.by = g /\ line.Level = logging[g].Level
  OBVIOUS
<1> HIDE DEF line
<1>2. CASE worker.level < logging[g].Level
  <2>1. lines' = lines
    BY <1>0, <1>2
  <2>2. Told => Told'
    BY <1>0, <2>1 DEF Told, Lines
  <2>3. logging[g].Level = Lg!CriticalLevel => Told'
    <3>1. worker'.level < logging[g].Level
      BY <1>0, <1>2
    <3>2. logging[g].Level = Lg!CriticalLevel => ~(worker'.level >= Lg!CriticalLevel)
      BY <1>0, <3>1 DEF Lg!CriticalLevel
    <3>3. QED
      BY <3>2 DEF Told
  <2>4. \A h \in Goroutines : h # g => logging'[h] = logging[h]
    BY <1>0
  <2>5. QED
    BY <2>2, <2>3, <2>4
<1>3. CASE ~(worker.level < logging[g].Level)
  <2>1. lines' = Append(lines, line)
    BY <1>0, <1>3
  <2>1a. line \in Line
    <3>1. logging[g].Level \in 1 .. Lg!InfoLevel
      BY <1>0 DEF LogInv, InCallIsQuietOrNumbered, Lg!Write
    <3>2. QED
      BY <1>0, <3>1 DEF LogInv, Line, line
  <2>2. /\ \A i \in Lines : i \in Lines' /\ lines'[i] = lines[i]
        /\ Len(lines) + 1 \in Lines' /\ lines'[Len(lines) + 1] = line
    BY <1>0, <2>1, <2>1a DEF Lines
  <2>3. QED
    BY <1>0, <1>1, <2>2 DEF Told
<1>4. QED
  BY <1>2, <1>3

(* Nothing is logged and nothing runs at the start.                          *)
LEMMA InvInit == Init => Inv
<1> SUFFICES ASSUME Init PROVE Inv
  OBVIOUS
<1>1. /\ logNo = 0 /\ lines = <<>> /\ logging = [g \in Goroutines |-> Lg!Quiet]
      /\ worker = [level |-> Lg!InfoLevel, out |-> "stderr"]
      /\ main = "load" /\ side = [s \in Sides |-> "none"]
      /\ stopped = [how |-> "running", by |-> "none"]
      /\ conf \in [Console : BOOLEAN, LogLevel : Levels, Prometheus : BOOLEAN, Profiler : BOOLEAN]
  BY DefaultLogger DEF Init, Lg!Init, Sides
<1>2. Lines = {} /\ lines \in Seq(Line)
  BY <1>1 DEF Lines
<1>3. /\ worker \in [level : Int, out : Lg!Outputs]
      /\ Lg!Quiet \in [Id : Nat, Level : 0 .. Lg!InfoLevel] /\ Lg!Quiet.Id = 0
  BY <1>1 DEF Lg!InfoLevel, Lg!Outputs, Lg!Quiet
<1>4. logging \in [Goroutines -> [Id : Nat, Level : 0 .. Lg!InfoLevel]]
  BY <1>1, <1>3
<1>5. InBounds /\ LinesApart /\ CallsAndLinesApart /\ CallsApart /\ InCallIsQuietOrNumbered /\ Complete
  BY <1>1, <1>2, <1>3 DEF InBounds, LinesApart, CallsAndLinesApart, CallsApart,
                          InCallIsQuietOrNumbered, Complete
<1>6. LogInv
  BY <1>1, <1>2, <1>3, <1>4, <1>5 DEF LogInv
<1>7. StateTypes /\ LoggerFirst /\ FailureIsTold
  BY <1>1 DEF StateTypes, LoggerFirst, FailureIsTold, Sides, Goroutines
<1>8. QED
  BY <1>6, <1>7 DEF Inv

(* Steps of main that nobody hears of.                                       *)
LEMMA SilentStep ==
    ASSUME Inv, UNCHANGED <<lgVars, side, conf, stopped>>,
           main' \in {"load", "logger"} => main \in {"load", "logger"}
    PROVE  Inv'
<1>1. LogInv' /\ (Told => Told')
  BY LogStays DEF Inv
<1>2. QED
  BY <1>1 DEF Inv, StateTypes, LoggerFirst, FailureIsTold, lgVars

(* The logger is set up before anyone logs.                                  *)
LEMMA ConfigureLoggerStep ==
    ASSUME Inv, ConfigureLogger
    PROVE  Inv'
<1>1. /\ main = "logger" /\ main' = "prometheus" /\ stopped.by = "none"
      /\ UNCHANGED <<side, conf, stopped, logNo, logging, lines>>
      /\ logNo = 0 /\ side["exporter"] = "none"
  BY DEF ConfigureLogger, At, Running, sideVars, Inv, LoggerFirst, Sides
<1>2. worker' \in [level : Int, out : Lg!Outputs]
  <2>1. CASE conf.Console
    <3> DEFINE w == [level |-> Lg!InfoLevel, out |-> "stdout"]
    <3>1. worker' = [w EXCEPT !.level = conf.LogLevel]
      BY <2>1, ConsoleLogger DEF ConfigureLogger
    <3>2. conf.LogLevel \in Int
      BY StartupAssumption DEF Inv, StateTypes
    <3>3. QED
      BY <3>1, <3>2 DEF Lg!Outputs
  <2>2. CASE ~conf.Console
    <3>1. worker' = [level |-> Lg!InfoLevel, out |-> "stderr"]
      BY <2>2, NoLogLogger DEF ConfigureLogger
    <3>2. QED
      BY <3>1 DEF Lg!Outputs, Lg!InfoLevel
  <2>3. QED
    BY <2>1, <2>2
<1>3. LogInv'
  BY <1>1, <1>2, FirstLogger DEF Inv
<1>4. QED
  BY <1>1, <1>3 DEF Inv, StateTypes, LoggerFirst, FailureIsTold

(* A call of the logger begins; a side server that says it has failed says   *)
(* it at the critical level.                                                 *)
LEMMA LogsStep ==
    ASSUME Inv, NEW g \in Goroutines, NEW lvl \in 1 .. Lg!InfoLevel, Lg!Log(g, lvl),
           UNCHANGED <<conf, stopped>>,
           side' \in [Sides -> {"none", "started", "serving", "failed"}],
           main \notin {"load", "logger"}, main' \notin {"load", "logger"},
           \/ g # "exporter" /\ side'["exporter"] = side["exporter"]
           \/ g = "exporter" /\ lvl = Lg!CriticalLevel
    PROVE  Inv'
<1>1. LogInv'
  BY LogStep DEF Inv
<1>2. /\ worker' = worker /\ Lines' = Lines /\ lines' = lines
      /\ g = "exporter" => logging'["exporter"].Level = lvl
      /\ g # "exporter" => logging'["exporter"] = logging["exporter"]
  BY DEF Lg!Log, Lines, Inv, LogInv, Goroutines
<1>3. Told' = Told
  BY <1>2 DEF Told
<1>4. FailureIsTold'
  BY <1>2, <1>3 DEF Inv, FailureIsTold
<1>5. QED
  BY <1>1, <1>4 DEF Inv, StateTypes, LoggerFirst

(* A line is written, or left out by its level.                              *)
LEMMA WriteLineStep ==
    ASSUME Inv, NEW g \in Goroutines, Write(g)
    PROVE  Inv'
<1>1. /\ Lg!Write(g) /\ UNCHANGED <<main, side, conf, stopped>> /\ logNo' = logNo
      /\ "exporter" \in Goroutines
  BY DEF Write, sideVars, Lg!Write, Goroutines
<1>2. LogInv'
  BY <1>1, WriteStep DEF Inv
<1>3. /\ Told => Told'
      /\ g = "exporter" /\ logging[g].Level = Lg!CriticalLevel => Told'
      /\ g # "exporter" => logging'["exporter"] = logging["exporter"]
  BY <1>1, ToldStays DEF Inv
<1>4. FailureIsTold'
  BY <1>1, <1>3 DEF Inv, FailureIsTold
<1>5. QED
  BY <1>1, <1>2, <1>4 DEF Inv, StateTypes, LoggerFirst

(* The process stops: whoever stops it has said so, if it is the exporter.   *)
LEMMA StopStep ==
    ASSUME Inv, LoadFails \/ ServeFails \/ \E s \in Sides : Panic(s)
    PROVE  Inv'
<1>1. UNCHANGED <<main, side, conf, lgVars>>
  BY DEF LoadFails, ServeFails, Panic, sideVars
<1>2. LogInv' /\ (Told => Told')
  BY <1>1, LogStays DEF Inv
<1>3. PICK how \in {"panic", "fatal"}, g \in Goroutines :
        /\ stopped' = [how |-> how, by |-> g]
        /\ g = "exporter" => side["exporter"] = "failed" /\ logging["exporter"] = Lg!Quiet
  BY DEF LoadFails, ServeFails, Panic, Stop, Sides, Goroutines
<1>4. /\ stopped' \in [how : {"running", "panic", "fatal"}, by : Goroutines \cup {"none"}]
      /\ stopped'.by = g
  BY <1>3
<1>5. g = "exporter" => Told
  BY <1>3 DEF Inv, FailureIsTold, Lg!Quiet, Lg!CriticalLevel
<1>6. FailureIsTold'
  BY <1>1, <1>2, <1>4, <1>5 DEF Inv, FailureIsTold, lgVars
<1>7. QED
  BY <1>1, <1>2, <1>4, <1>6 DEF Inv, StateTypes, LoggerFirst, lgVars

(* A side server starts, or fails without a word.                            *)
LEMMA SideStep ==
    ASSUME Inv, StartExporter \/ StartProfiler \/ ProfilerFails
    PROVE  Inv'
<1>0. side \in [Sides -> {"none", "started", "serving", "failed"}]
  BY DEF Inv, StateTypes
<1>1. /\ UNCHANGED <<conf, stopped, lgVars>>
      /\ main \notin {"load", "logger"} /\ main' \notin {"load", "logger"}
      /\ side' \in [Sides -> {"none", "started", "serving", "failed"}]
      /\ side'["exporter"] # "failed" \/ side'["exporter"] = side["exporter"]
  <2>1. CASE StartExporter
    BY <1>0, <2>1 DEF StartExporter, At, Sides
  <2>2. CASE StartProfiler
    BY <1>0, <2>2 DEF StartProfiler, At, Sides
  <2>3. CASE ProfilerFails
    <3>1. side["profiler"] = "serving" /\ "profiler" \in Sides
      BY <2>3 DEF ProfilerFails, Sides
    <3>2. main \notin {"load", "logger"}
      BY <3>1 DEF Inv, LoggerFirst
    <3>3. QED
      BY <1>0, <2>3, <3>2 DEF ProfilerFails, Sides
  <2>4. QED
    BY <2>1, <2>2, <2>3
<1>2. LogInv' /\ (Told => Told')
  BY <1>1, LogStays DEF Inv
<1>3. FailureIsTold'
  BY <1>1, <1>2 DEF Inv, FailureIsTold, lgVars
<1>4. QED
  BY <1>1, <1>2, <1>3 DEF Inv, StateTypes, LoggerFirst

(* Every step of the start keeps the log and the side servers in agreement.  *)
LEMMA InvNext == Inv /\ [Next]_vars => Inv'
<1> SUFFICES ASSUME Inv, [Next]_vars PROVE Inv'
  OBVIOUS
<1>0. /\ side \in [Sides -> {"none", "started", "serving", "failed"}]
      /\ {1, 4, 6} \subseteq 1 .. Lg!InfoLevel
      /\ Goroutines = {"main"} \cup Sides /\ "exporter" \in Sides /\ "profiler" \in Sides
      /\ Lg!CriticalLevel = 1 /\ Lg!NoticeLevel = 4 /\ Lg!InfoLevel = 6
  BY DEF Inv, StateTypes, Lg!InfoLevel, Lg!CriticalLevel, Lg!NoticeLevel, Goroutines, Sides
<1>1. CASE ReplaceVariable \/ Unmarshal \/ NoExporter \/ Serve \/ UNCHANGED vars
  <2>1. /\ UNCHANGED <<lgVars, side, conf, stopped>>
        /\ main' \in {"load", "logger"} => main \in {"load", "logger"}
    BY <1>1 DEF ReplaceVariable, Unmarshal, NoExporter, Serve, vars, sideVars, At
  <2>2. QED
    BY <2>1, SilentStep
<1>2. CASE ConfigureLogger
  BY <1>2, ConfigureLoggerStep
<1>3. CASE ExporterEnabled \/ ExporterStarted \/ InitPostAuth \/ InitAcct \/ RadiusInit
  <2>1. /\ Lg!Log("main", 4) \/ Lg!Log("main", 6)
        /\ UNCHANGED <<side, conf, stopped>>
        /\ main \notin {"load", "logger"} /\ main' \notin {"load", "logger"}
    BY <1>0, <1>3 DEF ExporterEnabled, ExporterStarted, InitPostAuth, InitAcct, RadiusInit,
                      MainLogs, sideVars, At
  <2>2. QED
    BY <1>0, <2>1, LogsStep
<1>4. CASE StartExporter \/ StartProfiler \/ ProfilerFails
  BY <1>4, SideStep
<1>5. CASE ExporterFails
  <2>1. main \notin {"load", "logger"}
    BY <1>0, <1>5 DEF ExporterFails, Inv, LoggerFirst
  <2>2. /\ Lg!Log("exporter", 1) /\ UNCHANGED <<main, conf, stopped>>
        /\ side' \in [Sides -> {"none", "started", "serving", "failed"}]
    BY <1>0, <1>5 DEF ExporterFails
  <2>3. QED
    BY <1>0, <2>1, <2>2, LogsStep
<1>6. CASE ProfilerLogs
  <2>1. main \notin {"load", "logger"}
    BY <1>0, <1>6 DEF ProfilerLogs, Inv, LoggerFirst
  <2>2. /\ Lg!Log("profiler", 4) /\ UNCHANGED <<main, conf, stopped>>
        /\ side' \in [Sides -> {"none", "started", "serving", "failed"}]
        /\ side'["exporter"] = side["exporter"]
    BY <1>0, <1>6 DEF ProfilerLogs
  <2>3. QED
    BY <1>0, <2>1, <2>2, LogsStep
<1>7. CASE LoadFails \/ ServeFails \/ \E s \in Sides : Panic(s)
  BY <1>7, StopStep
<1>8. ASSUME NEW g \in Goroutines, Write(g) PROVE Inv'
  BY <1>8, WriteLineStep
<1>9. QED
  BY <1>1, <1>2, <1>3, <1>4, <1>5, <1>6, <1>7, <1>8 DEF Next, MainStep, Sides

(* What is known of the log and of the side servers in every reachable       *)
(* state.                                                                    *)
THEOREM StartupInv == Spec => []Inv
<1>1. QED
  BY InvInit, InvNext, PTL DEF Spec

(* A process that the exporter took down says so in its log.                 *)
THEOREM StartupDeathIsLogged == Spec => []DeathIsLogged
<1>1. Inv => DeathIsLogged
  BY DEF Inv, FailureIsTold, Told, DeathIsLogged, Lines
<1>2. QED
  BY <1>1, StartupInv, PTL

(* Sets that hold at most one thing, and at most one of the two anything.    *)
LEMMA AtMostOne ==
    ASSUME NEW S, NEW T, IsFiniteSet(S), IsFiniteSet(T),
           \A x, y \in S : x = y, \A x, y \in T : x = y, S = {} \/ T = {}
    PROVE  /\ Cardinality(S) + Cardinality(T) <= 1
           /\ S # {} \/ T # {} => Cardinality(S) + Cardinality(T) = 1
<1>1. ASSUME NEW U, IsFiniteSet(U), \A x, y \in U : x = y
      PROVE  Cardinality(U) = IF U = {} THEN 0 ELSE 1
  <2>1. CASE U = {}
    BY <2>1, FS_EmptySet
  <2>2. CASE U # {}
    <3>1. PICK x : U = {x}
      BY <1>1, <2>2
    <3>2. QED
      BY <2>2, <3>1, FS_Singleton
  <2>3. QED
    BY <2>1, <2>2
<1>2. /\ Cardinality(S) = IF S = {} THEN 0 ELSE 1
      /\ Cardinality(T) = IF T = {} THEN 0 ELSE 1
  BY <1>1
<1>3. QED
  BY <1>2

(* No number is used twice, and at the highest level none is left out.       *)
THEOREM StartupNumbersAreUnique == Spec => []NumbersAreUnique
<1>1. Inv => NumbersAreUnique
  <2> SUFFICES ASSUME Inv, NEW n \in 1 .. logNo
               PROVE  LET S == {g \in Goroutines : logging[g].Id = n}
                          T == {i \in 1 .. Len(lines) : lines[i].Id = n}
                      IN  /\ Cardinality(S) + Cardinality(T) <= 1
                          /\ worker.level >= Lg!InfoLevel =>
                               Cardinality(S) + Cardinality(T) = 1
    BY DEF NumbersAreUnique, Lg!NumbersAreUnique, Lg!Cardinality, Cardinality
  <2> DEFINE S == {g \in Goroutines : logging[g].Id = n}
             T == {i \in 1 .. Len(lines) : lines[i].Id = n}
  <2>1. IsFiniteSet(S)
    <3>1. IsFiniteSet(Goroutines)
      <4>1. IsFiniteSet({"main"} \cup {"exporter"} \cup {"profiler"})
        BY FS_Singleton, FS_Union
      <4>2. QED
        BY <4>1 DEF Goroutines
    <3>2. QED
      BY <3>1, FS_Subset
  <2>2. IsFiniteSet(T)
    <3>1. Len(lines) \in Nat
      BY DEF Inv, LogInv
    <3>2. IsFiniteSet(1 .. Len(lines))
      BY <3>1, FS_Interval
    <3>3. QED
      BY <3>2, FS_Subset
  <2>3. n # 0 /\ logNo \in Nat
    BY DEF Inv, LogInv
  <2>4. \A x, y \in S : x = y
    BY <2>3 DEF Inv, LogInv, CallsApart
  <2>5. \A x, y \in T : x = y
    BY DEF Inv, LogInv, LinesApart, Lines
  <2>6. S = {} \/ T = {}
    BY DEF Inv, LogInv, CallsAndLinesApart, Lines
  <2>7. worker.level >= Lg!InfoLevel => S # {} \/ T # {}
    BY DEF Inv, LogInv, Complete, Lines
  <2> HIDE DEF S, T
  <2>8. /\ Cardinality(S) + Cardinality(T) <= 1
        /\ worker.level >= Lg!InfoLevel => Cardinality(S) + Cardinality(T) = 1
    BY <2>1, <2>2, <2>4, <2>5, <2>6, <2>7, AtMostOne
  <2>9. QED
    BY <2>8 DEF S, T
<1>2. QED
  BY <1>1, StartupInv, PTL

-----------------------------------------------------------------------------
(* The secret.  The passes of LoadConfig against Substituted, which makes no *)
(* passes: what is left to be done after a pass is what the variables that   *)
(* come later stand for.                                                     *)

Named(e, q) == [var |-> TRUE, name |-> e[q].name]

(* The tokens of the file and of the values of an environment.               *)
Occurring(e) ==
    {Document[i] : i \in 1 .. Len(Document)}
      \cup UNION {{e[q].value[i] : i \in 1 .. Len(e[q].value)} : q \in 1 .. Len(e)}

Later(e, p, u) == {q \in p .. Len(e) : u = Named(e, q)}

Standing(e, st, p, u) ==
    IF Later(e, p, u) = {} THEN <<u>>
    ELSE LET q == CHOOSE q \in Later(e, p, u) : \A r \in Later(e, p, u) : q <= r
         IN  Spread(st[q + 1], e[q].value)

(* st says what every token stands for from the p-th variable on.            *)
StandsFrom(e, st, p) ==
    \A k \in p .. Len(e) + 1 : st[k] = [u \in Occurring(e) |-> Standing(e, st, k, u)]

(* One pass of ReplaceAll, token by token.                                   *)
Pass(e, p) == [u \in Occurring(e) |-> IF u = Named(e, p) THEN e[p].value ELSE <<u>>]

(* The environment holds sequences of tokens that occur.                     *)
LEMMA EnvironmentTypes ==
    ASSUME NEW e \in Environments
    PROVE  /\ Len(e) \in Nat /\ Document \in Seq(Occurring(e)) /\ Occurring(e) \subseteq Token
           /\ \A q \in 1 .. Len(e) : e[q].value \in Seq(Occurring(e)) /\ e[q].name \in STRING
<1>1. e \in Seq([name : STRING, value : Seq(Token)]) /\ Document \in Seq(Token)
  <2>1. Environments \subseteq Seq([name : STRING, value : Seq(Token)]) /\ Document \in Seq(Token)
    BY StartupAssumption
  <2>2. QED
    BY <2>1, Zenon
<1>2. \A q \in 1 .. Len(e) : e[q].value \in Seq(Token) /\ e[q].name \in STRING
  <2> DEFINE Variable == [name : STRING, value : Seq(Token)]
  <2>1. \A x \in Variable : x.value \in Seq(Token) /\ x.name \in STRING
    OBVIOUS
  <2>2. e \in Seq(Variable)
    BY <1>1
  <2> HIDE DEF Variable
  <2>3. \A q \in 1 .. Len(e) : e[q] \in Variable
    BY <2>2
  <2>4. QED
    BY <2>1, <2>3
<1>3. Document \in Seq(Occurring(e))
  <2>1. \A i \in 1 .. Len(Document) : Document[i] \in Occurring(e)
    BY DEF Occurring
  <2>2. QED
    BY <1>1, <2>1
<1>4. ASSUME NEW q \in 1 .. Len(e) PROVE e[q].value \in Seq(Occurring(e))
  <2>1. \A i \in 1 .. Len(e[q].value) : e[q].value[i] \in Occurring(e)
    BY DEF Occurring
  <2>2. QED
    BY <1>2, <2>1
<1>5. ASSUME NEW u \in Occurring(e) PROVE u \in Token
  <2>1. CASE \E i \in 1 .. Len(Document) : u = Document[i]
    BY <1>1, <2>1
  <2>2. CASE \E q \in 1 .. Len(e) : \E i \in 1 .. Len(e[q].value) : u = e[q].value[i]
    BY <1>2, <2>2
  <2>3. QED
    BY <2>1, <2>2 DEF Occurring
<1>6. QED
  BY <1>1, <1>2, <1>3, <1>4, <1>5

(* The first of the later variables.                                         *)
LEMMA FirstLater ==
    ASSUME NEW e \in Environments, NEW p \in 1 .. Len(e) + 1, NEW u, Later(e, p, u) # {}
    PROVE  LET q == CHOOSE q \in Later(e, p, u) : \A r \in Later(e, p, u) : q <= r
           IN  /\ q \in Later(e, p, u) /\ q \in p .. Len(e)
               /\ \A r \in Later(e, p, u) : q <= r
<1>1. Later(e, p, u) \subseteq Nat /\ Later(e, p, u) \subseteq p .. Len(e)
  BY EnvironmentTypes DEF Later
<1>2. \E q \in Later(e, p, u) : \A r \in Later(e, p, u) : q <= r
  BY <1>1, LeastNatural
<1>3. QED
  BY <1>1, <1>2

(* What a token stands for is read off the later values of st, and is a      *)
(* sequence of tokens.                                                       *)
LEMMA StandingType ==
    ASSUME NEW e \in Environments, NEW p \in 1 .. Len(e) + 1, NEW u \in Occurring(e), NEW st,
           \A k \in p + 1 .. Len(e) + 1 : st[k] \in [Occurring(e) -> Seq(Occurring(e))]
    PROVE  Standing(e, st, p, u) \in Seq(Occurring(e))
<1>1. CASE Later(e, p, u) = {}
  BY <1>1 DEF Standing
<1>2. CASE Later(e, p, u) # {}
  <2> DEFINE q == CHOOSE q \in Later(e, p, u) : \A r \in Later(e, p, u) : q <= r
  <2>1. q \in p .. Len(e)
    BY <1>2, FirstLater
  <2>2. Standing(e, st, p, u) = Spread(st[q + 1], e[q].value)
    BY <1>2 DEF Standing
  <2> HIDE DEF q
  <2>3. q \in 1 .. Len(e) /\ q + 1 \in p + 1 .. Len(e) + 1
    BY <2>1, EnvironmentTypes
  <2>4. st[q + 1] \in [Occurring(e) -> Seq(Occurring(e))] /\ e[q].value \in Seq(Occurring(e))
    BY <2>3, EnvironmentTypes
  <2>5. Spread(st[q + 1], e[q].value) \in Seq(Occurring(e))
    BY <2>4, SpreadType
  <2>6. QED
    BY <2>2, <2>5
<1>3. QED
  BY <1>1, <1>2

(* Only later entries of st matter. *)
LEMMA StandingSame ==
    ASSUME NEW e \in Environments, NEW p \in 1 .. Len(e) + 1, NEW u, NEW f, NEW g,
           \A k \in p + 1 .. Len(e) + 1 : f[k] = g[k]
    PROVE  Standing(e, f, p, u) = Standing(e, g, p, u)
<1>1. CASE Later(e, p, u) = {}
  BY <1>1 DEF Standing
<1>2. CASE Later(e, p, u) # {}
  <2> DEFINE q == CHOOSE q \in Later(e, p, u) : \A r \in Later(e, p, u) : q <= r
  <2>1. q \in p .. Len(e)
    BY <1>2, FirstLater
  <2>2. /\ Standing(e, f, p, u) = Spread(f[q + 1], e[q].value)
        /\ Standing(e, g, p, u) = Spread(g[q + 1], e[q].value)
    BY <1>2 DEF Standing
  <2> HIDE DEF q
  <2>3. q + 1 \in p + 1 .. Len(e) + 1
    BY <2>1, EnvironmentTypes
  <2>4. QED
    BY <2>2, <2>3
<1>3. QED
  BY <1>1, <1>2

(* There is such an st: the last entry is known, and each one from the next. *)
LEMMA StandsSome ==
    ASSUME NEW e \in Environments
    PROVE  \E st \in [1 .. Len(e) + 1 -> [Occurring(e) -> Seq(Occurring(e))]] : StandsFrom(e, st, 1)
<1> DEFINE n == Len(e)
           Meaning == [Occurring(e) -> Seq(Occurring(e))]
           T == {k \in 0 .. n + 1 :
                   ~\E st \in [n + 2 - k .. n + 1 -> Meaning] : StandsFrom(e, st, n + 2 - k)}
<1>0. n \in Nat
  BY EnvironmentTypes
<1>1. ASSUME T # {} PROVE FALSE
  <2>1. PICK m \in T : \A k \in T : m <= k
    <3>1. T \subseteq Nat
      OBVIOUS
    <3>2. QED
      BY <3>1, <1>1, LeastNatural
  <2>2. m \in 0 .. n + 1
    BY <2>1
  <2>3. m # 0
    <3>1. n + 2 - 0 .. n + 1 = {}
      BY <1>0
    <3>2. [k \in n + 2 - 0 .. n + 1 |-> <<>>] \in [n + 2 - 0 .. n + 1 -> Meaning]
      BY <3>1
    <3>3. StandsFrom(e, [k \in n + 2 - 0 .. n + 1 |-> <<>>], n + 2 - 0)
      BY <3>1 DEF StandsFrom
    <3>4. \E st \in [n + 2 - 0 .. n + 1 -> Meaning] : StandsFrom(e, st, n + 2 - 0)
      BY <3>2, <3>3
    <3>5. 0 \notin T
      BY <3>4
    <3>6. QED
      BY <2>1, <3>5
  <2>4. m - 1 \in 0 .. n + 1 /\ m - 1 \notin T
    <3>1. m - 1 \in 0 .. n + 1 /\ ~(m <= m - 1)
      BY <1>0, <2>2, <2>3
    <3>2. QED
      BY <2>1, <3>1
  <2> DEFINE p == n + 2 - m
  <2>5. p \in 1 .. n + 1 /\ n + 2 - (m - 1) = p + 1
    BY <1>0, <2>2, <2>3
  <2>6. \E st \in [n + 2 - (m - 1) .. n + 1 -> Meaning] : StandsFrom(e, st, n + 2 - (m - 1))
    BY <2>4
  <2>7. PICK f \in [p + 1 .. n + 1 -> Meaning] : StandsFrom(e, f, p + 1)
    BY <2>5, <2>6
  <2>8. ~\E st \in [p .. n + 1 -> Meaning] : StandsFrom(e, st, p)
    BY <2>1
  <2> HIDE DEF p, T
  <2> DEFINE here == [u \in Occurring(e) |-> Standing(e, f, p, u)]
             g == [k \in p .. n + 1 |-> IF k = p THEN here ELSE f[k]]
  <2>9. here \in Meaning
    <3>1. \A k \in p + 1 .. n + 1 : f[k] \in Meaning
      BY <2>7
    <3>2. \A u \in Occurring(e) : Standing(e, f, p, u) \in Seq(Occurring(e))
      BY <2>5, <3>1, StandingType
    <3>3. QED
      BY <3>2
  <2>10. g \in [p .. n + 1 -> Meaning]
    <3> HIDE DEF here, Meaning
    <3>1. \A k \in p .. n + 1 : k # p => k \in p + 1 .. n + 1
      BY <1>0, <2>5
    <3>2. QED
      BY <2>7, <2>9, <3>1
  <2>11. ASSUME NEW k \in p .. n + 1
         PROVE  g[k] = [u \in Occurring(e) |-> Standing(e, g, k, u)]
    <3>1. k \in 1 .. n + 1 /\ (k # p => k \in p + 1 .. n + 1)
      BY <1>0, <2>5
    <3>2. \A i \in k + 1 .. n + 1 : f[i] = g[i]
      BY <1>0, <2>5
    <3>3. \A u \in Occurring(e) : Standing(e, f, k, u) = Standing(e, g, k, u)
      <4> HIDE DEF g
      <4>1. QED
        BY <3>1, <3>2, StandingSame
    <3>4. g[k] = [u \in Occurring(e) |-> Standing(e, f, k, u)]
      <4>1. CASE k = p
        BY <4>1
      <4>2. CASE k # p
        BY <2>7, <3>1, <4>2 DEF StandsFrom
      <4>3. QED
        BY <4>1, <4>2
    <3> HIDE DEF g
    <3>5. QED
      BY <3>3, <3>4
  <2>12. StandsFrom(e, g, p)
    BY <2>11 DEF StandsFrom
  <2>13. QED
    BY <2>8, <2>10, <2>12
<1>2. n + 1 \in 0 .. n + 1 /\ n + 2 - (n + 1) = 1
  BY <1>0
<1>3. n + 1 \notin T
  BY <1>1
<1>4. \E st \in [n + 2 - (n + 1) .. n + 1 -> Meaning] : StandsFrom(e, st, n + 2 - (n + 1))
  BY <1>2, <1>3
<1>5. QED
  BY <1>2, <1>4

(* Every such st maps tokens to sequences of tokens. *)
LEMMA StandsType ==
    ASSUME NEW e \in Environments, NEW st, StandsFrom(e, st, 1)
    PROVE  \A p \in 1 .. Len(e) + 1 : st[p] \in [Occurring(e) -> Seq(Occurring(e))]
<1> DEFINE n == Len(e)
           Meaning == [Occurring(e) -> Seq(Occurring(e))]
           T == {k \in 0 .. n : st[n + 1 - k] \notin Meaning}
<1>0. n \in Nat
  BY EnvironmentTypes
<1>1. ASSUME T # {} PROVE FALSE
  <2>1. PICK m \in T : \A k \in T : m <= k
    <3>1. T \subseteq Nat
      OBVIOUS
    <3>2. QED
      BY <3>1, <1>1, LeastNatural
  <2> DEFINE p == n + 1 - m
  <2>2. p \in 1 .. n + 1 /\ m \in 0 .. n
    BY <1>0, <2>1
  <2>3. ASSUME NEW k \in p + 1 .. n + 1 PROVE st[k] \in Meaning
    <3>1. n + 1 - k \in 0 .. n /\ ~(m <= n + 1 - k) /\ n + 1 - (n + 1 - k) = k
      BY <1>0, <2>2
    <3>2. n + 1 - k \notin T
      BY <2>1, <3>1
    <3>3. st[n + 1 - (n + 1 - k)] \in Meaning
      BY <3>1, <3>2
    <3>4. QED
      BY <3>1, <3>3
  <2>4. st[p] \notin Meaning
    BY <2>1
  <2> HIDE DEF p
  <2>5. \A u \in Occurring(e) : Standing(e, st, p, u) \in Seq(Occurring(e))
    BY <2>2, <2>3, StandingType
  <2>6. st[p] = [u \in Occurring(e) |-> Standing(e, st, p, u)]
    BY <2>2 DEF StandsFrom
  <2>7. QED
    BY <2>4, <2>5, <2>6
<1>2. ASSUME NEW p \in 1 .. n + 1 PROVE st[p] \in Meaning
  <2>1. n + 1 - p \in 0 .. n /\ n + 1 - (n + 1 - p) = p
    BY <1>0
  <2>2. n + 1 - p \notin T
    BY <1>1
  <2>3. st[n + 1 - (n + 1 - p)] \in Meaning
    BY <2>1, <2>2
  <2>4. QED
    BY <2>1, <2>3
<1>3. QED
  BY <1>2

(* A variable stands for what its value stands for from the next one on, and *)
(* every other token for what it stands for from there: the passes of the    *)
(* code and the definition agree on the first.                               *)
LEMMA StandsStep ==
    ASSUME NEW e \in Environments, NEW p \in 1 .. Len(e), NEW st,
           StandsFrom(e, st, 1), NEW u \in Occurring(e),
           st[p + 1] \in [Occurring(e) -> Seq(Occurring(e))]
    PROVE  st[p][u] = Spread(st[p + 1], Pass(e, p)[u])
<1>0. /\ Len(e) \in Nat /\ p \in 1 .. Len(e) + 1 /\ p + 1 \in 1 .. Len(e) + 1
  BY EnvironmentTypes
<1>1. st[p][u] = Standing(e, st, p, u) /\ st[p + 1][u] = Standing(e, st, p + 1, u)
  BY <1>0 DEF StandsFrom
<1>2. CASE u = Named(e, p)
  <2>1. Later(e, p, u) # {} /\ p \in Later(e, p, u)
    BY <1>0, <1>2 DEF Later
  <2> DEFINE q == CHOOSE q \in Later(e, p, u) : \A r \in Later(e, p, u) : q <= r
  <2>2. q \in p .. Len(e) /\ q <= p
    BY <1>0, <2>1, FirstLater
  <2>3. Standing(e, st, p, u) = Spread(st[q + 1], e[q].value)
    BY <2>1 DEF Standing
  <2> HIDE DEF q
  <2>4. q = p
    BY <1>0, <2>2
  <2>5. QED
    BY <1>1, <1>2, <2>3, <2>4 DEF Pass
<1>3. CASE u # Named(e, p)
  <2>1. Later(e, p, u) = Later(e, p + 1, u)
    BY <1>0, <1>3 DEF Later
  <2>2. Standing(e, st, p, u) = Standing(e, st, p + 1, u)
    BY <2>1 DEF Standing
  <2>3. Pass(e, p)[u] = <<u>>
    BY <1>3 DEF Pass
  <2>4. Spread(st[p + 1], <<u>>) = st[p + 1][u]
    BY SpreadOne
  <2>5. QED
    BY <1>1, <2>2, <2>3, <2>4
<1>4. QED
  BY <1>2, <1>3

(* ReplaceAll is a pass over the text. *)
LEMMA ExpandIsPass ==
    ASSUME NEW e \in Environments, NEW p \in 1 .. Len(e), NEW t \in Seq(Occurring(e))
    PROVE  /\ Expand(t, e[p]) = Spread(Pass(e, p), t)
           /\ Pass(e, p) \in [Occurring(e) -> Seq(Occurring(e))]
<1>1. Pass(e, p) \in [Occurring(e) -> Seq(Occurring(e))]
  <2>1. e[p].value \in Seq(Occurring(e)) /\ \A u \in Occurring(e) : <<u>> \in Seq(Occurring(e))
    BY EnvironmentTypes
  <2>2. QED
    BY <2>1 DEF Pass
<1>2. [i \in 1 .. Len(t) |-> IF t[i] = [var |-> TRUE, name |-> e[p].name] THEN e[p].value
                             ELSE <<t[i]>>]
        = [i \in 1 .. Len(t) |-> Pass(e, p)[t[i]]]
  <2>1. \A i \in 1 .. Len(t) : t[i] \in Occurring(e)
    OBVIOUS
  <2>2. QED
    BY <2>1 DEF Pass, Named
<1>3. QED
  BY <1>1, <1>2 DEF Expand, Spread

(* A pass moves the meaning of the text on by one variable.                  *)
LEMMA PassKeepsMeaning ==
    ASSUME NEW e \in Environments, NEW p \in 1 .. Len(e), NEW t \in Seq(Occurring(e)),
           NEW st \in [1 .. Len(e) + 1 -> [Occurring(e) -> Seq(Occurring(e))]],
           StandsFrom(e, st, 1)
    PROVE  /\ Expand(t, e[p]) \in Seq(Occurring(e))
           /\ Spread(st[p + 1], Expand(t, e[p])) = Spread(st[p], t)
<1> DEFINE D == Occurring(e)
           pass == Pass(e, p)
           here == st[p]
           next == st[p + 1]
<1>1. next \in [D -> Seq(D)] /\ here \in [D -> Seq(D)]
  <2> DEFINE Meaning == [D -> Seq(D)]
  <2>1. st \in [1 .. Len(e) + 1 -> Meaning]
    OBVIOUS
  <2>2. p \in 1 .. Len(e) + 1 /\ p + 1 \in 1 .. Len(e) + 1
    BY EnvironmentTypes
  <2> HIDE DEF Meaning
  <2>3. next \in Meaning /\ here \in Meaning
    BY <2>1, <2>2
  <2>4. QED
    BY <2>3 DEF Meaning
<1>2. Expand(t, e[p]) = Spread(pass, t) /\ pass \in [D -> Seq(D)]
  BY ExpandIsPass
<1>3. \A u \in D : here[u] = Spread(next, pass[u])
  BY <1>1, StandsStep
<1> HIDE DEF D, pass, here, next
<1>4. t \in Seq(D)
  BY DEF D
<1>5. Spread(next, Spread(pass, t)) = Spread(here, t)
  <2>1. Combines(here, next, pass, D)
    BY <1>1, <1>2, <1>3, SpreadTwice
  <2>2. QED
    BY <1>4, <2>1 DEF Combines
<1>6. Spread(pass, t) \in Seq(D)
  BY <1>2, <1>4, SpreadType
<1>7. QED
  BY <1>2, <1>5, <1>6 DEF D, here, next

(* After the last variable every token stands for itself.                    *)
LEMMA MeaningAtEnd ==
    ASSUME NEW e \in Environments, NEW t \in Seq(Occurring(e)), NEW st, StandsFrom(e, st, 1)
    PROVE  Spread(st[Len(e) + 1], t) = t
<1>1. Len(e) \in Nat /\ Len(e) + 1 \in 1 .. Len(e) + 1
  BY EnvironmentTypes
<1>2. \A u : Later(e, Len(e) + 1, u) = {}
  BY <1>1 DEF Later
<1>3. \A u \in Occurring(e) : st[Len(e) + 1][u] = <<u>>
  BY <1>1, <1>2 DEF StandsFrom, Standing
<1>4. QED
  BY <1>3, SpreadSame

(* Substituted is the meaning of the text from the first variable on.        *)
LEMMA SubstitutedIs ==
    ASSUME environ \in Environments
    PROVE  \E st \in [1 .. Len(environ) + 1 -> [Occurring(environ) -> Seq(Occurring(environ))]] :
             /\ StandsFrom(environ, st, 1)
             /\ Substituted(Document) = Spread(st[1], Document)
<1> DEFINE n == Len(environ)
           D == Occurring(environ)
           Fixed(st) == st = [p \in 1 .. n + 1 |-> [u \in D |-> Standing(environ, st, p, u)]]
           c == CHOOSE st : Fixed(st)
<1>1. PICK f \in [1 .. n + 1 -> [D -> Seq(D)]] : StandsFrom(environ, f, 1)
  BY StandsSome
<1>2. Fixed(f)
  BY <1>1 DEF StandsFrom
<1>3. Fixed(c)
  BY <1>2
<1>4. Substituted(Document) = Spread(c[1], Document)
  BY DEF Substituted, Spread, Standing, Later, Named, Occurring
<1> HIDE DEF c
<1>5. StandsFrom(environ, c, 1)
  <2> DEFINE r == [p \in 1 .. n + 1 |-> [u \in D |-> Standing(environ, c, p, u)]]
  <2>1. c = r
    BY <1>3
  <2>2. \A p \in 1 .. n + 1 : r[p] = [u \in D |-> Standing(environ, c, p, u)]
    OBVIOUS
  <2> HIDE DEF r
  <2>3. QED
    BY <2>1, <2>2 DEF StandsFrom
<1>6. c \in [1 .. n + 1 -> [D -> Seq(D)]]
  <2>1. \A p \in 1 .. n + 1 : c[p] \in [D -> Seq(D)]
    BY <1>5, StandsType
  <2>2. c = [p \in 1 .. n + 1 |-> c[p]]
    BY <1>3
  <2>3. QED
    BY <2>1, <2>2
<1>7. QED
  BY <1>4, <1>5, <1>6

-----------------------------------------------------------------------------
(* The passes so far and what is left of them make the secret of Substituted;*)
(* main goes on when none is left, and gives the text to the RADIUS server   *)
(* before it listens.                                                        *)
SecretFollows ==
    /\ environ \in Environments /\ read \in 0 .. Len(environ)
    /\ text \in Seq(Occurring(environ))
    /\ \A st \in [1 .. Len(environ) + 1 -> [Occurring(environ) -> Seq(Occurring(environ))]] :
         StandsFrom(environ, st, 1) => Spread(st[read + 1], text) = Spread(st[1], Document)
    /\ main # "load" => read = Len(environ)
    /\ main \in {"listen", "serving"} => rad.secret = text
    /\ main \in MainState
    /\ rad \in [set : BOOLEAN, secret : Seq(Token)]

(* The environment, the text and the RADIUS server's settings stay.          *)
LEMMA SecretStays ==
    ASSUME SecretFollows, UNCHANGED <<environ, read, text, rad>>, main' \in MainState,
           main' = "load" \/ main # "load" \/ read = Len(environ),
           main' \in {"listen", "serving"} => main \in {"listen", "serving"}
    PROVE  SecretFollows'
  BY DEF SecretFollows

(* One variable is put into the text. *)
LEMMA SecretPass ==
    ASSUME SecretFollows, ReplaceVariable
    PROVE  SecretFollows'
<1> DEFINE p == read + 1
           Meaning == [1 .. Len(environ) + 1 -> [Occurring(environ) -> Seq(Occurring(environ))]]
<1>1. /\ UNCHANGED <<environ, main, rad>> /\ main = "load"
      /\ text' = Expand(text, environ[p]) /\ read' = p
  BY DEF ReplaceVariable, sideVars, At
<1>2. /\ environ \in Environments /\ text \in Seq(Occurring(environ))
      /\ Len(environ) \in Nat /\ p \in 1 .. Len(environ) /\ p \in 0 .. Len(environ)
  BY EnvironmentTypes DEF SecretFollows, ReplaceVariable
<1>3. ASSUME NEW st \in Meaning, StandsFrom(environ, st, 1)
      PROVE  /\ Expand(text, environ[p]) \in Seq(Occurring(environ))
             /\ Spread(st[p + 1], Expand(text, environ[p])) = Spread(st[1], Document)
  <2>1. /\ Expand(text, environ[p]) \in Seq(Occurring(environ))
        /\ Spread(st[p + 1], Expand(text, environ[p])) = Spread(st[p], text)
    BY <1>2, <1>3, PassKeepsMeaning
  <2>2. Spread(st[p], text) = Spread(st[1], Document)
    BY <1>3 DEF SecretFollows
  <2>3. QED
    BY <2>1, <2>2
<1>4. text' \in Seq(Occurring(environ))
  <2>1. \E st \in Meaning : StandsFrom(environ, st, 1)
    BY <1>2, StandsSome
  <2>2. QED
    BY <1>1, <1>3, <2>1
<1>5. \A st \in Meaning : StandsFrom(environ, st, 1) => Spread(st[p + 1], text') = Spread(st[1], Document)
  BY <1>1, <1>3
<1> HIDE DEF p
<1>6. QED
  BY <1>1, <1>2, <1>4, <1>5 DEF SecretFollows

(* Nothing is read, and the text is the document. *)
LEMMA SecretInit == Init => SecretFollows
<1> SUFFICES ASSUME Init PROVE SecretFollows
  OBVIOUS
<1>1. /\ environ \in Environments /\ read = 0 /\ text = Document /\ main = "load"
      /\ rad = [set |-> FALSE, secret |-> <<[var |-> FALSE, name |-> "secret"]>>]
  BY DEF Init
<1>2. Len(environ) \in Nat /\ Document \in Seq(Occurring(environ))
  BY <1>1, EnvironmentTypes
<1>3. rad \in [set : BOOLEAN, secret : Seq(Token)]
  <2>1. [var |-> FALSE, name |-> "secret"] \in [var : BOOLEAN, name : STRING]
    BY LiteralAssumption
  <2>2. <<[var |-> FALSE, name |-> "secret"]>> \in Seq(Token)
    BY <2>1 DEF Token
  <2>3. QED
    BY <1>1, <2>2
<1>4. QED
  BY <1>1, <1>2, <1>3 DEF SecretFollows, MainState

(* Every step of the start keeps the text on its way to the secret.          *)
LEMMA SecretNext == SecretFollows /\ [Next]_vars => SecretFollows'
<1> SUFFICES ASSUME SecretFollows, [Next]_vars PROVE SecretFollows'
  OBVIOUS
<1>1. CASE ReplaceVariable
  BY <1>1, SecretPass
<1>2. CASE RadiusInit
  <2>1. /\ UNCHANGED <<environ, read, text>> /\ main = "radius" /\ main' = "listen"
        /\ rad' = [set |-> TRUE, secret |-> text]
    BY <1>2 DEF RadiusInit, sideVars, At
  <2>2. text \in Seq(Token)
    <3>1. text \in Seq(Occurring(environ)) /\ Occurring(environ) \subseteq Token
      BY EnvironmentTypes DEF SecretFollows
    <3>2. QED
      BY <3>1
  <2>3. rad' \in [set : BOOLEAN, secret : Seq(Token)] /\ rad'.secret = text
    BY <2>1, <2>2
  <2>4. QED
    BY <2>1, <2>3 DEF SecretFollows, MainState
<1>3. CASE Unmarshal \/ ConfigureLogger \/ ExporterEnabled \/ StartExporter \/ ExporterStarted
           \/ NoExporter \/ StartProfiler \/ InitPostAuth \/ InitAcct \/ Serve
  <2>1. UNCHANGED <<environ, read, text, rad>>
    BY <1>3 DEF Unmarshal, ConfigureLogger, ExporterEnabled, StartExporter, ExporterStarted,
                NoExporter, StartProfiler, InitPostAuth, InitAcct, Serve, MainLogs, sideVars
  <2>2. /\ main' \in MainState
        /\ main # "load" \/ read = Len(environ)
        /\ main' \in {"listen", "serving"} => main \in {"listen", "serving"}
    BY <1>3 DEF Unmarshal, ConfigureLogger, ExporterEnabled, StartExporter, ExporterStarted,
                NoExporter, StartProfiler, InitPostAuth, InitAcct, Serve, MainLogs, At, MainState
  <2>3. QED
    BY <2>1, <2>2, SecretStays
<1>4. CASE \/ LoadFails \/ ExporterFails \/ ProfilerLogs \/ ProfilerFails \/ ServeFails
           \/ (\E s \in {"exporter", "profiler"} : Panic(s))
           \/ (\E g \in Goroutines : Write(g)) \/ UNCHANGED vars
  <2>1. UNCHANGED <<main, environ, read, text, rad>>
    BY <1>4 DEF LoadFails, ExporterFails, ProfilerLogs, ProfilerFails, ServeFails, Panic, Write,
                vars, sideVars
  <2>2. QED
    BY <2>1, SecretStays DEF SecretFollows
<1>5. QED
  BY <1>1, <1>2, <1>3, <1>4 DEF Next, MainStep

(* In every reachable state the text is on its way to the secret.            *)
THEOREM StartupSecretFollows == Spec => []SecretFollows
<1>1. QED
  BY SecretInit, SecretNext, PTL DEF Spec

(* What the RADIUS server serves with is the secret of the file under the    *)
(* environment, for every file and every environment: the loop over          *)
(* os.Environ in LoadConfig, ended before Unmarshal and before the listener. *)
THEOREM StartupServedSecret == Spec => []ServedSecret
<1>1. SecretFollows => ServedSecret
  <2> SUFFICES ASSUME SecretFollows, main = "serving"
               PROVE  rad.secret = Substituted(Document)
    BY DEF ServedSecret
  <2>1. /\ environ \in Environments /\ read = Len(environ) /\ rad.secret = text
        /\ text \in Seq(Occurring(environ))
    BY DEF SecretFollows
  <2>2. PICK st \in [1 .. Len(environ) + 1 -> [Occurring(environ) -> Seq(Occurring(environ))]] :
          StandsFrom(environ, st, 1) /\ Substituted(Document) = Spread(st[1], Document)
    BY <2>1, SubstitutedIs
  <2>3. Spread(st[read + 1], text) = Spread(st[1], Document)
    BY <2>2 DEF SecretFollows
  <2>4. Spread(st[Len(environ) + 1], text) = text
    BY <2>1, <2>2, MeaningAtEnd
  <2>5. QED
    BY <2>1, <2>2, <2>3, <2>4
<1>2. QED
  BY <1>1, StartupSecretFollows, PTL

(* Type correctness of the start, with the text and the secret sequences of  *)
(* tokens whatever was put into them.                                        *)
THEOREM StartupTypeOK == Spec => []TypeOK
<1>1. Inv /\ SecretFollows => TypeOK
  <2> SUFFICES ASSUME Inv, SecretFollows PROVE TypeOK
    OBVIOUS
  <2>1. Lg!TypeOK
    BY DEF Inv, LogInv, Line, Lg!TypeOK
  <2>2. text \in Seq(Token)
    <3>1. text \in Seq(Occurring(environ)) /\ Occurring(environ) \subseteq Token
      BY EnvironmentTypes DEF SecretFollows
    <3>2. QED
      BY <3>1
  <2>3. QED
    BY <2>1, <2>2 DEF Inv, StateTypes, SecretFollows, TypeOK, Sides
<1>2. QED
  BY <1>1, StartupInv, StartupSecretFollows, PTL
=============================================================================
