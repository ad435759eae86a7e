------------------------------- MODULE Logger -------------------------------
(***************************************************************************)
(* The logger (logger/logger.go): any goroutine may log; a call takes the   *)
(* next number from the counter all loggers share, and later writes its     *)
(* line, or not, by the level.  The lines are written under the mutex of    *)
(* Go's log.Logger.  Formats, colours and time stamps are left out.         *)
(***************************************************************************)
EXTENDS Integers, Sequences, FiniteSets

CONSTANT Goroutines

VARIABLES
    logNo,     \* the counter of all loggers
    worker,    \* level and output of the logger in use
    logging,   \* per goroutine, the call of log_internal it is in
    lines      \* the lines written

vars == <<logNo, worker, logging, lines>>

CriticalLevelZero == 0                              \* mutant: levels from zero
CriticalLevel == 1
NoticeLevel   == 4
InfoLevel     == 6

Quiet == [Id |-> 0, Level |-> 0]

Outputs == {"stdout", "stderr", "devnull"}

TypeOK ==
    /\ logNo \in Nat
    /\ worker \in [level : Int, out : Outputs]
    /\ logging \in [Goroutines -> [Id : Nat, Level : 0 .. InfoLevel]]
    /\ lines \in Seq([Id : Nat, Level : 1 .. InfoLevel, by : Goroutines, out : Outputs])

(* New: each argument is taken for what its Go type says, the last one of a  *)
(* type wins, and what is not given has a default.                           *)
Given(args, type, default) ==
    LET of == {i \in 1 .. Len(args) : args[i].type = type}
    IN  IF of = {} THEN default ELSE args[CHOOSE i \in of : \A j \in of : i >= j].arg

New(args) ==
    [level |-> Given(args, "LogLevel", InfoLevel),
     out   |-> Given(args, "io.Writer", "stderr")]

Init ==
    /\ logNo = 0
    /\ worker = New(<<>>)
    /\ logging = [g \in Goroutines |-> Quiet]
    /\ lines = <<>>

LogLostCount(g, lvl) ==                             \* mutant: the sum is not kept
    /\ logging[g] = Quiet
    /\ logNo' = IF \E h \in Goroutines : logging[h] # Quiet THEN logNo ELSE logNo + 1
    /\ logging' = [logging EXCEPT ![g] = [Id |-> logNo', Level |-> lvl]]
    /\ UNCHANGED <<worker, lines>>
(* log_internal begins: the call has its number. *)
Log(g, lvl) ==
    /\ logging[g] = Quiet
    /\ logNo' = logNo + 1
    /\ logging' = [logging EXCEPT ![g] = [Id |-> logNo', Level |-> lvl]]
    /\ UNCHANGED <<worker, lines>>

WriteBelow(g) ==                                    \* mutant: the level itself is left out
    /\ logging[g] # Quiet
    /\ lines' = IF worker.level <= logging[g].Level THEN lines
                ELSE Append(lines, [Id |-> logging[g].Id, Level |-> logging[g].Level,
                                    by |-> g, out |-> worker.out])
    /\ logging' = [logging EXCEPT ![g] = Quiet]
    /\ UNCHANGED <<logNo, worker>>
(* Worker.Log: the line is written, or its level is above the worker's. *)
Write(g) ==
    /\ logging[g] # Quiet
    /\ lines' = IF worker.level < logging[g].Level THEN lines
                ELSE Append(lines, [Id |-> logging[g].Id, Level |-> logging[g].Level,
                                    by |-> g, out |-> worker.out])
    /\ logging' = [logging EXCEPT ![g] = Quiet]
    /\ UNCHANGED <<logNo, worker>>

-----------------------------------------------------------------------------
(* Properties *)

(* Numbers are unique, and a line that has a number lower than one already   *)
(* written and is not written itself is held by the goroutine that took the  *)
(* number: lines come out of order only by as much as calls overlap.         *)
NumbersAreUnique ==
    LET Calls(n) == Cardinality({g \in Goroutines : logging[g].Id = n})
                      + Cardinality({i \in 1 .. Len(lines) : lines[i].Id = n})
    IN  \A n \in 1 .. logNo : /\ Calls(n) <= 1
                              /\ worker.level >= InfoLevel => Calls(n) = 1
=============================================================================
