------------------------------- MODULE Config -------------------------------
(***************************************************************************)
(* What the process makes of its environment: internal/config, and the     *)
(* places that look at a value once more before they use it (factory.go,   *)
(* NewPublisher).                                                          *)
(*                                                                         *)
(* Of the sixteen variables, all read by the same four helpers, those are  *)
(* kept whose value decides how the process runs.  An environment gives    *)
(* each of them Unset, a text that does not parse (Garbage), or what it    *)
(* parses to: a number, a name, the sequence of the trimmed parts of a     *)
(* list.  Durations are in seconds.                                        *)
(***************************************************************************)
EXTENDS Integers, Sequences

CONSTANTS
    Unset,      \* the empty text, which os.Getenv also returns for no text
    Garbage,    \* a text strconv.Atoi or time.ParseDuration rejects
    HalfInt32,  \* 2^31 in the code: int32 holds -HalfInt32 .. HalfInt32 - 1
    Lower       \* strings.ToLower(strings.TrimSpace(s)) for the names s there may be

ASSUME WidthAssumption == HalfInt32 \in Nat \ {0}

Number == Int \cup {Unset, Garbage}

\* The variables of the process's environment.
Environment ==
    [databaseUrl : STRING \cup {Unset}, jwtSecret : STRING \cup {Unset},
     shutdownTimeout : Number, maxConns : Number, pollInterval : Number, batchSize : Number,
     producer : DOMAIN Lower \cup {Unset}, brokers : Seq(STRING) \cup {Unset}]

GetEnv(v, fallback) == IF v = Unset THEN fallback ELSE v

\* getInt and getDuration.
GetNumber(v, fallback) == IF v \in {Unset, Garbage} THEN fallback ELSE v

\* Slip: blank parts kept.
GetCSVUntrimmed(v, fallback) == IF v = Unset THEN fallback ELSE v

\* result after the loop over the parts: those that are not blank.
NonBlank(v) ==
    LET result[i \in 0..Len(v)] ==
          IF i = 0 THEN <<>>
          ELSE IF v[i] = "" THEN result[i - 1]
          ELSE Append(result[i - 1], v[i])
    IN  result[Len(v)]

GetCSV(v, fallback) ==
    LET parts == IF v = Unset THEN <<>> ELSE NonBlank(v)
    IN  IF parts = <<>> THEN fallback ELSE parts

\* The conversion int32(n) keeps the low 32 bits.
Int32(n) == ((n + HalfInt32) % (2 * HalfInt32)) - HalfInt32

Loads(env) == env.databaseUrl # Unset /\ env.jwtSecret # Unset

Load(env) ==
    [shutdownTimeout |-> GetNumber(env.shutdownTimeout, 10),
     maxConns        |-> Int32(GetNumber(env.maxConns, 10)),
     producer        |-> GetEnv(env.producer, "log"),
     brokers         |-> GetCSV(env.brokers, <<"localhost:9092">>),
     pollInterval    |-> GetNumber(env.pollInterval, 2),
     batchSize       |-> GetNumber(env.batchSize, 10)]

\* The producer NewProducer builds, or "unsupported".
NewProducer(cfg) ==
    CASE Lower[cfg.producer] \in {"", "log"} -> "log"
      [] Lower[cfg.producer] = "kafka"       -> "kafka"
      [] OTHER                               -> "unsupported"

\* Slip: the values used as they were configured.
NewPublisherUnchecked(cfg) == [interval |-> cfg.pollInterval, batch |-> cfg.batchSize]

NewPublisher(cfg) ==
    [interval |-> IF cfg.pollInterval <= 0 THEN 2 ELSE cfg.pollInterval,
     batch    |-> IF cfg.batchSize <= 0 THEN 10 ELSE cfg.batchSize]
=============================================================================
