# Verification of the DHCP RADIUS server

The program is a RADIUS server for DHCP servers of Mikrotik routers. It turns
an Access-Request into a JSON request to one of several HTTP API sources,
answers with the address or pool the API assigns, keeps the API's answers in a
cache that also serves when all sources are down, and reports what it granted
(post-auth) and what the routers account (acct) to other HTTP addresses.

This directory holds TLA+ modules of the server's own logic, from its start and
the bytes of option 82 to the reports it makes, TLC
configurations that check them on small instances, and theorems about the
source list, the API client, the report queues, the handlers, the start-up and
the load tester that TLAPS proves for every instance.

## The system's parts

| part | code | state it keeps | operations | modelled by |
|---|---|---|---|---|
| source list | `api/sources/sources.go` | per address: alive, requests, disable time | `GetSource`, `IncRequests`, `Disable`, a watcher pass each second | `Sources`, abstractly `SourcePool` |
| API client | `api/api.go` `Get`, `_getFromApi` | the locals of each call | look up, ask, store, fall back | `Api` |
| answer cache | `api/cache/init.go`, vendored go-cache | answer and expiration per request hash | `Get`, `Set`, the janitor | `ResponseCache` |
| report queues | `api/api.go` `SendPostAuth`, `SendAcct`, readers | two channels of 100 | non-blocking send; readers post to every address | `ReportQueue` |
| handlers | `radius/handler.go` | none between packets | access, accounting, anything else | `RadiusServer` |
| class numbers | `radius/radius.go` | `classId`, from the clock at start | `getClassId` | `RadiusServer` |
| packet server | vendored `layeh.com/radius` | keys in work | a goroutine per datagram, duplicate check | `RadiusServer` |
| option 82 | `redback/generated.go`, `redback_agent_parsers`, `_parseAuthRequest` | the packet's attributes | 193 accessors that add and read sub-attributes; the remote-id parser | `RedbackDictionary`, `Redback` |
| metrics | `prom/metrics.go` | counters, gauges | `RadRequestsInc`, `ErrorsInc` and others | two counters in `RadiusServer` |
| logger | `logger/logger.go` | the counter of lines, level and output | `New`, a call per line | `Logger` |
| configuration | `config/config.go` | the file's text, the settings | `LoadConfig`, `ConfigureLogger` | `Startup` |
| start-up | `server/main.go`, `radius.Init` | where `main` is; exporter and profiler goroutines | each statement of `main`; panics | `Startup` |
| load tester | `load_testing` | results waiting, counters, rates, stop flag | workers, collector, ticker, main | `LoadTest` |

How they interact: a packet's goroutine runs a handler; the handler takes a
class number, reads option 82 out of the packet, calls `Api.Get`, writes the
reply and puts a report into a channel. `Api.Get` looks into the cache, and if the answer there is not current
calls `_getFromApi`, which uses the source list. The source list, the cache,
the class number and the map of keys each have a mutex; the two channels
connect handlers and readers. There is no other communication, and none of
these locks is ever held while another one is waited for.

What is hard: any number of handlers overtake each other between any two locks
(the source's counters are read and written in two critical sections; the
cached answer is read before the API is asked and used after); failures arrive
late, from calls sent before the source was taken out; answers are stored out
of order; the network repeats packets; the process restarts with empty memory;
addresses time out while the queue behind them fills. `PROJECT.json` lists
each of these at its line, with the property that watches it, or why none does.

What makes each part correct:

- source list: requests are spread; an outage ends in bounded time; a source is
  not brought back under the calls that will take it out again.
- API client and cache: how old an answer can be, by the way it was obtained;
  when the fallback is owed; every call returns.
- report queues: what is accepted is posted to every address once, not
  overtaken in the channel and not later than the timeouts allow.
- option 82: what a sender put in is read back whole, whatever stands beside it;
  no accessor reads another's bytes; broken bytes end one loop and no other.
- start-up and logger: the secret in use is the file's under the environment;
  line numbers are unique; the end of the process is in the log; the server
  serves or stops, it never hangs half started.
- load tester: it ends, at the number of results asked for, and prints no rate
  that was not reached.
- server: one handler per packet key, no key left behind; class numbers join
  reports, replies and accounting and so must be unique; every class number is
  reported, once, and a report says what the reply said; the metrics add up to
  the reports.

## The modules

| module | extends / instantiates | what it is |
|---|---|---|
| `SourcePool` | | the abstract pool: take a source that is up, finish or fail, recover only what nobody holds |
| `Sources` | `SourcePool` under a refinement mapping | the source list and the callers inside `_getFromApi` |
| `ResponseCache` | | the cache operations that are used |
| `AnswerService` | | the abstract answer service: what a handler may rely on when it calls `Api.Get` |
| `Api` | instances of `Sources` and `ResponseCache`; `AnswerService` under a refinement mapping | `Api.Get` |
| `Reporter` | | the abstract reporter: take, refuse when full, deliver once |
| `ReportQueue` | `Reporter` under a refinement mapping | one report queue and its readers |
| `RadiusServer` | | packet loop, handlers, class numbers, restarts |
| `RedbackDictionary` | | the 193 attributes: number and codec of each, as its accessors have them |
| `Redback` | `RedbackDictionary` | a packet under construction, the accessors over its bytes, and the handler that reads option 82 |
| `Logger` | | the logger's `New`, numbers, level filter and output |
| `Startup` | an instance of `Logger` | `main`, configuration, exporter and profiler |
| `LoadTest` | | the load tester |
| `MCSources`, `MCApi`, `MCReportQueue`, `MCRadiusServer`, `MCRedback`, `MCStartup`, `MCLoadTest` | the module after MC | instances for TLC: symmetry where no liveness is checked, values, where the model may stop |
| `SourcesClaims`, `RadiusServerClaims`, `StartupClaims` | the MC module | statements of the documentation the code does not keep |
| `FlattenTheorems` | the library's facts about sequences and well-founded relations | theorems about `FlattenSeq` for sequences of any length |
| `SourcesProofs`, `ApiProofs`, `ReportQueueProofs`, `RadiusServerProofs`, `StartupProofs`, `LoadTestProofs`, `RedbackProofs` | the module before Proofs, `TLAPS` and the library's facts about finite sets | theorems |

### Sources

`sources` is the map of the code without the address field, `wake` the end of
the watcher's sleep, `calls` the position of each caller in `_getFromApi`
(idle, source picked, posting, failed), `now` a clock in ticks; `downSince` is
history and read by properties only (and by nothing the code does).

| code | action |
|---|---|
| `GetSource` | `GetSource(c)`: any alive source with the fewest requests, since the map's order is random and `sort.Slice` is not stable |
| `IncRequests` | `IncRequests(c)`, a critical section of its own |
| `req.Post` and the checks after it | `PostSucceeds(c)`, `PostFails(c)` with the reason of the failure |
| `Disable` | `Disable(c)`, possibly much later than the source's first failure |
| one pass of `sourcesWatcher` | `SourcesWatcher`; the next pass is `WatchPeriod` later |
| time passing | `Tick` |

Time: a step that computes or takes a mutex is instantaneous, so `Tick` is
disabled while one is pending, while a post is at its timeout and while the
watcher is due. That is the usual maximal-progress reading of a clock whose
ticks are long against the scheduler; the bounds the properties state are
therefore bounds up to scheduling delays.

### ResponseCache and Api

`Api` keeps Sources' variables, the cache's `items`, the locals of each call
(`gets`: `exist` and `response` of the code, the return taken, and the history
flag `promised`), and `answeredAt`, the history of the API's answers. The steps
of a call are: `ServeCurrent` (current answer in the cache, lines 125-131) or
`LookUp`; `GetSource` or `NoSource`; `IncRequests`; then `PostAnswered`,
`PostRefused` (HTTP 200, another statusCode in the body, source kept) or
`PostFails` and `Disable`; then `Store`, `ReturnStale` or `ReturnError`; then
`Leave`. An answer is abstracted to when the API made it (any moment of the
call), the lease it grants and the `Time` until which it is current. Steps of
Sources are taken by `INSTANCE`, so that whatever Api does to the list is what
Sources says (`SourcesSpec` checks that no other step changes it).
The janitor of the cache runs every ten minutes in the code and at any time in
the model. With `auth.caching.enabled` off (`CachingEnabled = FALSE`) nothing is
looked up or stored. The runs have it on: with it off every call goes the way
of one that finds nothing.

`AnswerService` is what is left of this for a caller: what is remembered per
key, and calls that ask, are answered, remember, recall what was remembered
when they began, or are refused when that was nothing. It has no sources, no
HTTP and no counters. Under the mapping in `Api` (`remembered` is the cache's
`items`; a call is asking from its look into the cache until its post has
decided) `ServiceSpec` says that every step of `Api` is a step of it or a
stutter: nothing is remembered that the API did not answer, only what has
expired is forgotten, an answer that assigns nothing (`grant` FALSE) is
remembered like any other and replaces a good one, an answer is current for no
longer than its lease, and a refusal is given to those only who knew nothing.
The API's answer carries a time before the moment it is seen, so an old answer
may overwrite a newer one; `BoundedRegression` says by how much.

### ReportQueue

Both queues are the same code with other names. `channel` is the buffered
channel, `readers` what each reader holds, which address it is at and since
when; `sent`, `dropped`, `pending` and `posted` are history. `Send` and `Drop`
are the two arms of the `select`; `Receive`, `PostToNext` and `PostToLast` the
reader's loop. Whether a post failed changes nothing for the reader, so the
result is not kept. A post lasts at most `ReadTimeout`, which is the two
minutes of `req.New()`'s client. `count_readers` and the address list are
assumed not empty: otherwise nothing is ever posted.

`Reporter` is the promise to the handlers: a report is taken, or refused when at
least `Capacity` are open, and a taken one is delivered once. `ReporterSpec`
shows that the queue implements it: readers, addresses, posts and the clock
are hidden, a report is open from its `Send` until its last address was posted
to.

### RadiusServer

A packet is a record of its key (client address and identifier), its code and
an id that tells different packets with one key apart. The environment may let
any packet arrive at any moment, which covers loss, duplication, reordering and
retransmission; arrival, parsing and the look into the map of keys are one
action, `Admit`, because nothing before the look is shared. A dropped duplicate
changes nothing and is no action. `Api.Get` is abstracted to what `Api` shows
of it: later it answers (`ApiAnswers`) or fails (`ApiFails`). `Accept` says
which attributes the Access-Accept gets: an address that is not IPv4 is left
out and the pool is not used instead. `Restart` is a crash at any moment and a
new start: empty map, empty channels, class numbers from the clock. The clock
is assumed not to go back. `ReportsAreTrue` assumes that the API does not use
the server's own status word ERROR.

A reply carries the lease as an unsigned number of 32 bits (`SessionTimeout`, with
`Wrap` for 2^32), the report carries the number as the API gave it: the two agree
for leases that are such numbers, and a negative lease becomes a very long
session. `error` of a handler is the return path it took (no usable answer, or
a reply that could not be written), and the report says which.
`EveryClassIsReported` counts, for every class number of the running process,
the handlers that still have to report it and the reports that have it: always
one. The two counters of `metrics` are increased by the code at different
moments, a failed write after its report and the rest before; `MetricsAddUp`
says what they are worth at each moment in between.

### RedbackDictionary and Redback

Here the model works on bytes, because which bytes belong to which value is
what can go wrong. `RedbackDictionary` has one definition per attribute, each
with the number its `Lookup` asks for and the codec it decodes with. The 193
groups of accessors in `generated.go` differ in nothing else; each is mapped to
its lines. `Redback` has the code they share: `SubAttributes` is the loop over
one Vendor-Specific attribute, which breaks off at the first length that is
below three or points past the end; `GetsVendor` and `LookupVendor` are the two
copies of that loop; `Add`, `Gets` and `Lookup` are the accessors by codec, with
their tags. `AddAttribute` is a sender that uses an accessor, `AddRaw` one that
does not, and `ParseAuthRequest` the handler: it reads remote id and circuit
id and drops the two header bytes of each. The hex text it makes of the remote
id stands as the bytes.

`Set` and `Del` of each attribute are left out: nothing in the program calls
them. (Read alone, they have defects: `_Redback_SetVendor` looks at the first
byte where it should look at the current one, and `_Redback_DelVendor` does not
step over an attribute of another vendor.)

### Logger and Startup

`Log` is the part of a call that takes a number from the counter of all
loggers, `Write` the part that writes the line or, by the level, does not; any
goroutine may be between the two. `New` tells its arguments apart by their Go
type, the last of a type wins, and what is not given has a default.

`Startup` is `main` statement by statement: `ReplaceVariable` is one pass of
`ReplaceAll` in `LoadConfig`, in the order of the environment; then the logger,
exporter, profiler, the API's two queues, the RADIUS server. Exporter and
profiler are goroutines that may fail at once or at any later time, and then
panic, which ends the whole process wherever `main` is. Of the file's text the
secret is kept, as placeholders and other text; the switches that decide a step
of `main` are chosen in the initial state. `api.Init`'s results are the initial
states of `Sources`, `ResponseCache` and `ReportQueue`.

### LoadTest

The load tester is a program of its own and shares no state with the server.
`Exchange`, `Submit` and `CheckStop` are a worker's loop, `Collect` and
`RaiseStop` the collector's, `TickerReads` and `TickerUpdates` the two readings
of the counters in one pass of the ticker, `SeeStop` and `Report` the end of
`main`, after which nothing runs. `Exchange` waits for an answer without a
deadline, and the server does not answer what it refuses (`Refuse` in
`RadiusServer`), so the workers in `Served` are the only ones fairness is asked
of. The ticker locks a mutex the collector does not take, so a pass can count
fewer requests than there were, but never more; what is lost between its two
readings is in no second's rate. Latencies are left out. (The printed minimum
is always zero: it starts at zero and only a smaller latency replaces it.)

## The runs

The passing runs explore their whole state space. Mutants of the modelled code
(named in `PROJECT.json`, marked `mutant` in the modules, and used by no
specification) show for every property that a plausible error would be found.

| run | instance | what it shows |
|---|---|---|
| `sources` | 2 sources, 2 callers, call timeout = disable_timeout = 2 ticks, 7 ticks, 3 requests per source | `TypeOK`, `EvenUse`, `OutageBounded`, `NoReviveInFlight`, and that the list implements `SourcePool` |
| `api` | 1 source, 2 callers, 1 key, timeouts 1, expire 2, actualize 2, leases 0, 1 and 3, 5 ticks | age bounds `HitsAreCurrent` and `StaleIsBounded`, `FallbackHonoured`, `BoundedRegression`, `SourcesSpec` |
| `api_service` | the same with timeouts 1, expire 1, actualize 1, leases 0 and 2, answers that assign something and that do not, 3 ticks | that `Api` implements `AnswerService` (`ServiceSpec`), `GetReturns` |
| `report_queue` | buffer 3, 2 readers, 2 addresses, 6 reports, 7 ticks | `NoneLostNoneTwice`, `OvertakenIsHeld`, `DelayBounded`, `AcceptedIsReported`, and that the queue implements `Reporter` (`ReporterSpec`) |
| `load_test` | 2 workers, 1 of them answered, 3 results, channel of 2, 2 passes of the ticker | `EndsAtCount`, `RateNotOverstated`, `TestEnds` |
| `radius_server` | 2 goroutines, 4 packets under 2 keys, 4 kinds of answer with leases 0, 5 and -1, numbers of 3 bits, 3 admissions, 1 restart, 2 seconds | `KeysAreHeld`, `ClassUnique`, `ReportsAreTrue`, `EveryClassIsReported`, `MetricsAddUp`, `KeysAreFreed` |
| `redback` | packets of up to 3 Vendor-Specific attributes, 5 attributes of 4 codecs, tags 0, 7 and 40, 13 pieces of raw bytes, 8 bytes per attribute | `AddedIsFound`, `LookupIsFirstOfGets` and `AccessorsIndependent` (both over all 193), `AgentIsFirstAdded` |
| `startup` | every switch, log levels 0, 1, 4 and 6, 4 environments, a secret with one placeholder twice | `ServedSecret`, `DeathIsLogged`, `NumbersAreUnique`, `ServesOrStops` |

Why the bounds are enough: two callers give every order of the steps of two
critical sections, which is what the interleaving hazards need, and three
requests per source exceed the slack of `EvenUse`. The call timeout equals
disable_timeout in `sources` because that is the boundary of `ShortCalls`, and
a watcher that compares with `<=` instead of `<` fails there. Seven ticks hold
a first failure, a late second one and the whole outage after it. In `api` the
clock runs one tick past the oldest possible fallback (`2 * Timeout +
ExpireTimeout`), leases lie on both sides of actualize_timeout and include
zero; one source is enough because the choice among sources is checked in
`sources`. In `report_queue` the bound of `DelayBounded` is tight: with one tick
less it fails. In `load_test` the channel is smaller than
the number of results, so that workers wait for room and results are left over,
and the second pass of the ticker starts from what the first one left. In
`radius_server` three admissions and one restart allow a
packet, its retransmission while it is in work, after it and after the restart.
In `redback` three attributes are one before and one after the one that is read;
the raw bytes break off in each way the loop looks for, hold two sub-attributes
in one, and belong to another vendor; with limits of 8 bytes (249 in the code)
and 7 (253) one value is too long for the packet and one for an attribute at
all. In `startup` a value that names another variable stands before it and after
it in the environment.
In `api_service` one source, two calls and a lease on each side of
actualize_timeout are enough to have an answer expire, be replaced and be
recalled.

The clock stops at `MaxTime`; the MC modules let the model stutter there, so
that deadlock checking reports every other stop.

Fairness: `Api!FairSpec` asks for weak fairness of each call's steps,
`ReportQueue!FairSpec` of each reader's, `RadiusServer!FairSpec` of each
goroutine's, `LoadTest!FairSpec` of the collector, of `main` and of the workers
that are answered. Go's scheduler runs every runnable goroutine, the mutexes are held
for a few statements only, and an HTTP call ends by its client's timeout. No
fairness is asked of arriving packets, of the clock, of the watcher, or, in
`RadiusServer`, of the readers: the handlers must not need them.
`Startup!FairSpec` asks for weak fairness of `main`'s steps, of log calls that
have begun and of panics that are due; that anything fails is never asked.

### What the documentation says and the code does not do

| run | statement | what happens |
|---|---|---|
| `claim_round_robin` | `radius.server.conf.yml:36`: addresses are used evenly, round-robin | two callers read the counters before either counts; one source gets two requests, the other none. `EvenUse` is what does hold |
| `claim_unavailable` | `:52`: unavailable means HTTP status 500 and above or no connection | any status but 200, and a body that does not decode, take the source out |
| `claim_accept_assigns` | `README.md:24`, `handler.go:65`: a pool or an address is given out, an answer with neither is an error | an answer whose address is not IPv4, or whose pool is too long, becomes an Access-Accept with neither |
| `claim_disabled_is_silent` | `config.go:80`: the logger of a disabled console is "no_log" over `os.DevNull` | `os.DevNull` is a string, so `New` takes it for the module; the output stays stderr and the level Info: with the console off every line goes to stderr |

Other differences met while modelling, not repeated as runs because nothing
in the model depends on them:

- `radius.server.conf.yml:51-55`: `alive_checking.enabled` is read by no line of the
  code; a failed post takes the source out whatever it says.
- `:70`: `timeout` is the maximum time of the API's answer, but the readers of
  both report queues post through clients of their own, which keep the
  library's two minutes (`ReadTimeout` in `ReportQueue`).
- `README.md:119`: the report of a grant has the status ACCEPT; the code repeats
  the status of the API's answer, which the documented answers do not have.
- `README.md:54-64`: a request without option 82 has `"agent": null`; the code
  sends an option with empty fields (`AgentIsFirstAdded` says that they are empty).

## The proofs

All theorems hold for every value of the constants that the `ASSUME` of the
module allows. What these say: goroutines, readers and callers are finitely many (workers need
not be); timeouts, limits and counts are numbers of the sign they have in
the code; what stands for "nothing" is none of the things it stands in for
(`NoItemAssumption`, and the like for `NoRequest` and `NoAnswer`). `Api` asks of
its constants what `Sources` asks, since it uses them there. `Redback` asks that the raw
attributes fit into a Vendor-Specific attribute, as everything on the wire does. No theorem assumes
a bound of the model (`MaxTime`, `MaxReports`, `MaxRestarts`, ...) to be small.

### Sources (`SourcesProofs`)

- `SourcesTypeOK`: the type invariant, inductive as it stands.
- `SourcesEvenUse`: `EvenUse`. The counters alone are not inductive, because a
  caller between `GetSource` and `IncRequests` holds a request that is not
  counted. `Even` adds these callers on the one side: requests of a plus callers
  that picked a are at most requests of b plus all callers, for every b that
  was never taken out (and therefore is alive, so that a picked source has at
  most its requests). `IncRequests` then moves one from the callers to the
  counter.
- `SourcesTiming`: the conjunction `Timing` of four bounds: a call in work is
  at most `Timeout` old; the watcher is due within its period; a dead source's
  disable time lies at most one call after it went down, and the watcher will
  look at it at most one sleep after its disable_timeout; and a call in flight
  to a dead source was sent before the source went down, since `GetSource`
  gives out alive sources only. The last one is what stops failures from
  prolonging an outage for ever.
- `SourcesOutageBounded`: follows from `Timing`.
- `SourcesNoReviveInFlight` and `SourcesImplementPool`: under `ShortCalls`
  (api.timeout not above disable_timeout; 3s and 60s in the shipped file). A
  rested source went down more than disable_timeout ago, so every call sent
  before has ended. Without `ShortCalls` both fail.

### Api (`ApiProofs`)

`ApiUsesSources` comes first: a step of `Api` is a step of the source list or
leaves it alone, so what is proved about `Sources` holds inside `Api`. From there
come the source list's types and the one fact about time that the cache needs,
that a post in work is at most `Timeout` old (`CallsAreShort`).

The invariant `Inv` says, for every call, what it knows at its step and how old
that may be. A call that found an answer holds one that had not expired when
the cache was read; while it asks, no time passes, so the bound is the one of
`expire_timeout`; while it posts, the bound is stated at the moment the post
was sent, because the clock runs; after the post it is one `Timeout` larger.
`KnownIsBounded` is these three bounds, and without the middle one the last
does not follow. A call that is about to store holds an answer made within the
call. A call with the history flag `promised` found an answer, and a call that
was refused found none: that is all `FallbackHonoured` needs, because the answer
found is in the call's own variable and not in the cache, where it may be
deleted or replaced meanwhile. For every cached item the invariant says that
it is the API's last answer for its key, current and expiring at the two dates
counted from when that answer was stored (`IsAnswerOf`). `ApiHitsAreCurrent`,
`ApiStaleIsBounded` and `ApiFallbackHonoured` are read off it.
`ApiBoundedRegression` is the action property: only `Store` replaces an item by
another one, what it stores is at most `Timeout` old, and nothing in the cache is
younger than now.

`ApiImplementsService` maps each step to one of `AnswerService` or to a stutter:
`Store` to remembering or, with caching off, to an answer that is not
remembered, the janitor to forgetting, `GetSource`, `IncRequests`, `PostFails`
and `Disable` to nothing. It has the hypothesis `ActualizeTimeout >= 0`: with a
negative actualize_timeout, which the configuration file does not forbid, an
answer's currency ends before it is stored, and the service's promise about
dates (from now to the lease) is not kept.

### ReportQueue (`ReportQueueProofs`)

`Placement` says where every report is. Sent reports are in the channel, in the
hands of one reader, dropped, or received and let go, no two at once; the
channel is in the order of sending; everything received was sent before
everything in the channel; and what was posted is exactly what the place says
(a report at address i was posted once to those before i). `NoneLostNoneTwice`
and `OvertakenIsHeld` do not mention the order of the channel and are not
inductive without it: the report a reader takes next must be one nobody has
taken before.

`DelayBounded` needs counting. The invariant `Timely` gives every queued report
turns: a turn is a reader and a round, and it counts when the reader, after the
time it still needs for what it holds and after so many whole rounds, is free in
time for the report. A report at place i of the channel has at least i turns.
A receive takes one turn from everybody and moves everybody one place forward;
a reader that ends early only adds turns; a report that is sent finds
`Readers * Rounds >= Capacity` of them. Nothing is said about which reader serves
which report, since the code does not say it either.

`ReportQueueImplementsReporter` uses `Placement` alone: a refusal happens with
`Capacity` reports in the channel, which are distinct and therefore `Capacity`
open ones.

### RadiusServer (`RadiusServerProofs`)

- `RadiusServerTyped` and `RadiusServerTypeOK`: types, with what a handler has
  at each step (a packet from the first, an answer where one is used).
- `RadiusServerKeysAreHeld`: inductive on the types, since `Admit` looks into the
  map and `Release` ends the handler in the same step.
- `RadiusServerEachInOnePlace` and `RadiusServerEveryClassIsReported`:
  `EveryClassIsReported` counts; the invariant behind it says the same without
  counting. A number between `firstClass` and `classId` is held by one handler or
  is in one report of this run, and nobody holds a number outside.
- `RadiusServerRepliesMatch` and `RadiusServerReportsAreTrue`: a report is made
  after the reply and of what the handler remembers, so the invariant says of
  handlers what `ReportsAreTrue` says of reports: one that will report a grant
  has its Access-Accept among the replies, one that will report an error, or
  has not answered, has none. That no other handler's reply has the same class
  number is `EachInOnePlace`. A lease is compared as far as 32 bits carry it
  (`SessionTimeoutExact`).
- `RadiusServerClassUnique`: numbers handed out are distinct and at most
  `classId`, unless a restart found the clock behind.
- `RadiusServerMetricsCount` and `RadiusServerMetricsAddUp`: sums of
  cardinalities, and the reason for the assumption that goroutines are finitely
  many. `MetricsAddUp` counts reports and handlers apart, and not their union,
  because the two live in different sets; that each step moves one from one
  term to another, and that a new report is in no set already, is
  `EachInOnePlace` again.

### Startup and Logger (`StartupProofs`)

The goroutines take numbers and write lines at different moments. `LogInv`: no
number is above the counter, two open calls, two lines, and a call and a line
have different numbers, and at a level that writes everything no number is in
neither. `StartupNumbersAreUnique` turns this into the cardinalities of the
property. `FailureIsTold` is for `DeathIsLogged`: a failed exporter has written
its line or has it open, and it panics only after its call has ended; the level
in force is the one the line is written under because the logger is configured
before the exporter is started (`LoggerFirst`). The three ways `main` makes a
logger are computed once (`DefaultLogger`, `NoLogLogger`, `ConsoleLogger`).

`StartupServedSecret` compares two recursions. `Substituted` defines from the
last variable to the first what a token stands for; `ReplaceVariable` rewrites
the text from the first variable to the last. `SecretFollows` ties them: what the
variables not yet put in make of the text is, after every pass, what all of them
make of the document. One pass keeps this because replacing tokens by sequences
twice is one replacement (`SpreadTwice`), and after the last variable every token
stands for itself (`MeaningAtEnd`). The rest is order: `main` leaves the loop only when
no variable is left, and hands the text over before it listens. That there is a
meaning at all, so that the invariant is not empty, is `StandsSome`. No assumption
is made about the environment: names may repeat and values may name each other
in a circle. `StartupTypeOK` needs the same types of texts. `LiteralAssumption`
(`"secret"` is a string) is a fact of TLA+ that the provers' encodings leave out.

### Sequences (`FlattenTheorems`)

The library's induction theorems take an operator as a parameter, which the
provers can not instantiate. Induction is possible all the same where a
definition recurses over numbers: a set of counterexamples that is not empty has
a least element (`LeastNatural`, from the library's well-founded sets), and the
recursion's one step refutes it. `FlattensToSome` and `FlattensToOne` show in this
way that the recursive function inside `FlattenSeq` exists and is determined,
`FlattenAppend` and `FlattenConcat` what it computes, and the `Spread` theorems
what a text becomes whose elements are replaced by sequences. `FlattenEmpties` and
`FlattenFirst` say where the first element of what is flat comes from.

### Redback (`RedbackProofs`)

The loop over the bytes of one Vendor-Specific attribute is a recursion from the
last byte to the first; `SubAttributesIs` shows that it has a result for any bytes,
`SubAttributesOfWritten` that on what an `Add` accessor wrote it finds that value and
nothing else, or nothing if the value is empty. `GetsVendorAppend` and
`LookupVendorIs` describe the two loops over the packet (the second by
`FlattenFirst`), `DecodeEncode` is the round trip of the six codecs, and
`DictionaryNumbers` compares the 193 numbers.

The invariant is `PutsAreRead`: for every attribute under whose number no other
bytes offer a value, what `GetsVendor` finds is what was added, encoded.
`AddedIsFound` itself is not inductive: a value that the encoding does not
keep makes its hypothesis false, and nothing is then known of the values before.
`PutsAreRead` speaks of encoded values and needs no such hypothesis; decoding
them is the last step. Raw bytes make `RawOffers` true or add nothing; an `Add`
adds its value to its own attribute only, which is also
`RedbackAccessorsIndependent`. `LookupIsFirstOfGets` needs no invariant beside the types: it
holds of every packet.

### LoadTest (`LoadTestProofs`)

`EndsAtCount` speaks of the time after the flag; `CountIsExact` says why it holds:
the collector stops at the count, the flag is raised by it, `main` reports after
the flag. `RateFits` is about the moment between the ticker's two readings: the
rate it has computed and not yet added is at most what was counted since, which
keeps the sum of all rates below the requests although no lock protects them.

### Only model-checked

- Liveness: `GetReturns`, `AcceptedIsReported`, `KeysAreFreed`, `TestEnds` and
  `ServesOrStops` need fairness and `ENABLED`, which are beyond the prover.
- The claims of the documentation, which are false.

## Not modelled

- The metrics beside the two counters of `RadiusServer`: the other counters
  count the same events under more labels, and the gauges are read by nothing.
- The logger's formats, colours, time stamps, stack traces and file names.
- The configuration's YAML, and settings that decide no step of the start: they
  are the constants of the other modules.
- `Set` and `Del` of the Redback accessors, which nothing calls, and the 64 bit
  integers' values in the instance of `redback` (their reading is in the model).
- Encoding, authentication and parsing of packets below their attributes, JSON,
  and the parts of a request the API alone looks at.
- The HTTP library below "a post ends by its timeout"; bodies of responses that
  the readers leave open.
- `Shutdown` of the packet server, which is never called; the report queues with
  their switch off, where sending is a return.
- The load tester's latencies and generated MAC addresses.

## Plan

Done: 1. `Sources` with `SourcePool` and its proofs; 2. `ResponseCache` and
`Api`; 3. `ReportQueue`; 4. `RadiusServer`; 5. `LoadTest`; 6. `AnswerService` and
`Reporter`, implemented by `Api` and `ReportQueue`; 7. `Redback`; 8. `Logger` and
`Startup`; 9. leases, metrics and completeness of reports in `RadiusServer`; 10. the
proofs about `RadiusServer`, `ReportQueue`, `Api`, `LoadTest`, `Startup`; 11. the
inductions over sequences, and with them `ServedSecret` and all of `Redback`.

Every safety property that a run checks is now a theorem, except the
claims that fail. Next: the cache's two dates as a specification of
`ResponseCache` of its own; the safety halves of the liveness properties, as
far as they have one (a handler, a reader or a worker that is not done has a next step
unless it waits for the outside); the round trip of `Set` and `Del`, should
anything ever call them.
