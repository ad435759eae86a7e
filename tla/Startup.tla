------------------------------- MODULE Startup -------------------------------
(***************************************************************************)
(* The start of the server (server/main.go): the configuration file with    *)
(* the environment put into it (config/config.go), the logger, the metrics  *)
(* exporter and the profiler in goroutines of their own, the API client,    *)
(* and the RADIUS server (radius/radius.go).  A goroutine that panics stops *)
(* the process, so the two side servers can end the RADIUS server at any    *)
(* time.                                                                    *)
(*                                                                         *)
(* Of the configuration file's text only the radius secret is kept, as a    *)
(* sequence of tokens: placeholders ${NAME} and other text.  What other     *)
(* settings decide here is chosen in the initial state.                     *)
(***************************************************************************)
EXTENDS Integers, Sequences, SequencesExt

CONSTANTS
    Document,       \* the secret as the file has it, a sequence of tokens
    Environments,   \* environments: sequences of names and values (token sequences)
    Levels          \* values of log_level

Goroutines == {"main", "exporter", "profiler"}

VARIABLES
    main,       \* where main is
    side,       \* the exporter and the profiler: not started, serving, failed
    environ,    \* the environment, in the order of os.Environ
    read,       \* how many of its variables are put into the text
    text,       \* the text of the configuration file
    conf,       \* the settings that decide something here
    rad,        \* the RADIUS server's secret
    stopped,    \* how the process ended, and by whom
    logNo, worker, logging, lines   \* as in Logger

Lg == INSTANCE Logger

lgVars == <<logNo, worker, logging, lines>>
vars == <<main, side, environ, read, text, conf, rad, stopped, lgVars>>

Token == [var : BOOLEAN, name : STRING]

ASSUME StartupAssumption ==
    /\ Document \in Seq(Token)
    /\ Environments \subseteq Seq([name : STRING, value : Seq(Token)])
    /\ Levels \subseteq Int

(* Any literal is a string, which the provers do not know of the one in Init. *)
ASSUME LiteralAssumption == "secret" \in STRING

MainState == {"load", "logger", "prometheus", "exporter", "exporterStarted", "profiler",
              "api", "acct", "radius", "listen", "serving"}

Running == stopped = [how |-> "running", by |-> "none"]

TypeOK ==
    /\ Lg!TypeOK
    /\ main \in MainState
    /\ side \in [{"exporter", "profiler"} -> {"none", "started", "serving", "failed"}]
    /\ read \in 0 .. Len(environ)
    /\ text \in Seq(Token)
    /\ conf \in [Console : BOOLEAN, LogLevel : Levels, Prometheus : BOOLEAN, Profiler : BOOLEAN]
    /\ stopped \in [how : {"running", "panic", "fatal"}, by : Goroutines \cup {"none"}]
    /\ rad \in [set : BOOLEAN, secret : Seq(Token)]

-----------------------------------------------------------------------------

Init ==
    /\ main = "load"
    /\ side = [s \in {"exporter", "profiler"} |-> "none"]
    /\ environ \in Environments
    /\ read = 0
    /\ text = Document
    /\ conf \in [Console : BOOLEAN, LogLevel : Levels, Prometheus : BOOLEAN, Profiler : BOOLEAN]
    /\ rad = [set |-> FALSE, secret |-> <<[var |-> FALSE, name |-> "secret"]>>]
    /\ stopped = [how |-> "running", by |-> "none"]
    /\ Lg!Init

(* main is at a statement and not inside a call of the logger. *)
At(state) == Running /\ main = state /\ logging["main"] = Lg!Quiet

Stop(how, g) == stopped' = [how |-> how, by |-> g]

sideVars == <<side, environ, conf>>

-----------------------------------------------------------------------------
(* LoadConfig: one pass of ReplaceAll over the text per variable. *)

ExpandFirst(t, e) ==                                \* mutant: the first occurrence only
    LET is == {i \in 1 .. Len(t) : t[i] = [var |-> TRUE, name |-> e.name]}
    IN  IF is = {} THEN t
        ELSE LET i == CHOOSE i \in is : \A j \in is : i <= j
             IN  SubSeq(t, 1, i - 1) \o e.value \o SubSeq(t, i + 1, Len(t))
Expand(t, e) ==
    FlattenSeq([i \in 1 .. Len(t) |->
        IF t[i] = [var |-> TRUE, name |-> e.name] THEN e.value ELSE <<t[i]>>])

ReplaceVariable ==
    /\ At("load")
    /\ read < Len(environ)
    /\ text' = Expand(text, environ[read + 1])
    /\ read' = read + 1
    /\ UNCHANGED <<main, sideVars, rad, stopped, lgVars>>

Unmarshal ==
    /\ At("load")
    /\ read = Len(environ)
    /\ main' = "logger"
    /\ UNCHANGED <<sideVars, read, text, rad, stopped, lgVars>>

(* The file can not be read, or is no YAML once the variables are in. *)
LoadFails ==
    /\ At("load")
    /\ read \in {0, Len(environ)}
    /\ Stop("panic", "main")
    /\ UNCHANGED <<main, sideVars, read, text, rad, lgVars>>

(* os.DevNull is the name of a file, a string: New takes it for the module.  *)
ConfigureLogger ==
    /\ At("logger")
    /\ worker' =
         IF conf.Console
         THEN [Lg!New(<<[type |-> "string", arg |-> "radius"],
                        [type |-> "io.Writer", arg |-> "stdout"]>>) EXCEPT !.level = conf.LogLevel]
         ELSE Lg!New(<<[type |-> "string", arg |-> "no_log"],
                       [type |-> "string", arg |-> "/dev/null"]>>)
    /\ main' = "prometheus"
    /\ UNCHANGED <<sideVars, read, text, rad, stopped, logNo, logging, lines>>

-----------------------------------------------------------------------------
(* The exporter and the profiler. *)

MainLogs(level, from, to) ==
    /\ At(from)
    /\ Lg!Log("main", level)
    /\ main' = to
    /\ UNCHANGED <<sideVars, read, text, rad, stopped>>

ExporterEnabled == conf.Prometheus /\ MainLogs(Lg!NoticeLevel, "prometheus", "exporter")

StartExporterInline ==                              \* mutant: main serves the metrics itself
    /\ At("exporter")
    /\ side["exporter"] = "none"
    /\ side' = [side EXCEPT !["exporter"] = "serving"]
    /\ UNCHANGED <<main, environ, conf, read, text, rad, stopped, lgVars>>
StartExporter ==
    /\ At("exporter")
    /\ side' = [side EXCEPT !["exporter"] = "serving"]
    /\ main' = "exporterStarted"
    /\ UNCHANGED <<environ, conf, read, text, rad, stopped, lgVars>>

(* Says so whether or not the exporter could listen. *)
ExporterStarted == MainLogs(Lg!NoticeLevel, "exporterStarted", "profiler")

NoExporter ==
    /\ At("prometheus")
    /\ ~conf.Prometheus
    /\ main' = "profiler"
    /\ UNCHANGED <<sideVars, read, text, rad, stopped, lgVars>>

(* ListenAndServe returns an error, at once or at any later time. *)
ExporterFails ==
    /\ Running
    /\ side["exporter"] = "serving"
    /\ Lg!Log("exporter", Lg!CriticalLevel)
    /\ side' = [side EXCEPT !["exporter"] = "failed"]
    /\ UNCHANGED <<main, environ, conf, read, text, rad, stopped>>

StartProfiler ==
    /\ At("profiler")
    /\ side' = [side EXCEPT !["profiler"] = IF conf.Profiler THEN "started" ELSE "none"]
    /\ main' = "api"
    /\ UNCHANGED <<environ, conf, read, text, rad, stopped, lgVars>>

ProfilerLogs ==
    /\ Running
    /\ side["profiler"] = "started"
    /\ Lg!Log("profiler", Lg!NoticeLevel)
    /\ side' = [side EXCEPT !["profiler"] = "serving"]
    /\ UNCHANGED <<main, environ, conf, read, text, rad, stopped>>

(* The profiler panics without a word in the log. *)
ProfilerFails ==
    /\ Running
    /\ side["profiler"] = "serving"
    /\ logging["profiler"] = Lg!Quiet
    /\ side' = [side EXCEPT !["profiler"] = "failed"]
    /\ UNCHANGED <<main, environ, conf, read, text, rad, stopped, lgVars>>

Panic(s) ==
    /\ Running
    /\ side[s] = "failed"
    /\ logging[s] = Lg!Quiet
    /\ Stop("panic", s)
    /\ UNCHANGED <<main, sideVars, read, text, rad, lgVars>>

-----------------------------------------------------------------------------
(* api.Init says of each report queue that it is on or off; what it builds   *)
(* are the initial states of Sources, ResponseCache and ReportQueue.         *)
InitPostAuth == MainLogs(Lg!NoticeLevel, "api", "acct")

InitAcct == MainLogs(Lg!NoticeLevel, "acct", "radius")

(* radius.Init and the Set functions, then the first line of ListenAndServe. *)
RadiusInit ==
    /\ At("radius")
    /\ Lg!Log("main", Lg!InfoLevel)
    /\ main' = "listen"
    /\ rad' = [set |-> TRUE, secret |-> text]
    /\ UNCHANGED <<sideVars, read, text, stopped>>

Serve ==
    /\ At("listen")
    /\ main' = "serving"
    /\ UNCHANGED <<sideVars, read, text, rad, stopped, lgVars>>

(* The socket can not be opened, or can not be read any more: log.Fatal.     *)
ServeFails ==
    /\ At("listen") \/ At("serving")
    /\ Stop("fatal", "main")
    /\ UNCHANGED <<main, sideVars, read, text, rad, lgVars>>

Write(g) ==
    /\ Running
    /\ Lg!Write(g)
    /\ UNCHANGED <<main, sideVars, read, text, rad, stopped>>

MainStep ==
    \/ ReplaceVariable \/ Unmarshal \/ LoadFails \/ ConfigureLogger
    \/ ExporterEnabled \/ StartExporter \/ ExporterStarted \/ NoExporter
    \/ StartProfiler \/ InitPostAuth \/ InitAcct \/ RadiusInit \/ Serve

Next ==
    \/ MainStep
    \/ ExporterFails \/ ProfilerLogs \/ ProfilerFails \/ ServeFails
    \/ \E s \in {"exporter", "profiler"} : Panic(s)
    \/ \E g \in Goroutines : Write(g)

Spec == Init /\ [][Next]_vars

(* The scheduler runs main, every log call that has begun and every panic.   *)
FairSpec ==
    /\ Spec
    /\ WF_vars(MainStep)
    /\ \A g \in Goroutines : WF_vars(Write(g))
    /\ \A s \in {"exporter", "profiler"} : WF_vars(Panic(s))

-----------------------------------------------------------------------------
(* Properties *)

(* What the environment makes of the text, stated without passes: a variable *)
(* stands for its value, in which only the variables that come later in the  *)
(* environment stand for theirs; a placeholder of no variable stays as it is.*)
Substituted(t) ==
    LET n == Len(environ)
        stands[p \in 1 .. n + 1] ==
          [u \in {t[i] : i \in 1 .. Len(t)}
                   \cup UNION {{environ[q].value[i] : i \in 1 .. Len(environ[q].value)} : q \in 1 .. n} |->
             LET later == {q \in p .. n : u = [var |-> TRUE, name |-> environ[q].name]}
             IN  IF later = {} THEN <<u>>
                 ELSE LET q == CHOOSE q \in later : \A r \in later : q <= r
                      IN  FlattenSeq([i \in 1 .. Len(environ[q].value) |->
                                        stands[q + 1][environ[q].value[i]]])]
    IN  FlattenSeq([i \in 1 .. Len(t) |-> stands[1][t[i]]])

(* The RADIUS server never serves with its built-in secret, nor with one     *)
(* that is not the file's under this environment.                            *)
ServedSecret == main = "serving" => rad.secret = Substituted(Document)

(* When a failed exporter takes the whole process down, the log says so, at  *)
(* every level that logs anything.                                           *)
DeathIsLogged ==
    stopped.by = "exporter" /\ worker.level >= Lg!CriticalLevel =>
        \E i \in 1 .. Len(lines) : lines[i].by = "exporter" /\ lines[i].Level = Lg!CriticalLevel

(* Log numbers stay unique while main, exporter and profiler log at once.    *)
NumbersAreUnique == Lg!NumbersAreUnique

(* The process ends up serving, or stopped; a failed side server stops it.   *)
ServesOrStops ==
    /\ <>(main = "serving" \/ ~Running)
    /\ \A s \in {"exporter", "profiler"} : side[s] = "failed" ~> ~Running
=============================================================================
