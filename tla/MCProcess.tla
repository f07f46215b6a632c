----------------------------- MODULE MCProcess -----------------------------
(***************************************************************************)
(* Process in every kind of environment: variables missing, invalid, zero, *)
(* negative or beyond int32; blank lists and names.  Two of them start a   *)
(* process, one with the Kafka producer and one with the log producer.     *)
(***************************************************************************)
EXTENDS Process

\* int32 scaled down: 2^31 is 16, so 33 wraps round to 1.
MCHalfInt32 == 16

MCLower == [s \in {"log", " Kafka ", " ", "nats"} |->
              CASE s = "log" -> "log" [] s = " Kafka " -> "kafka" [] s = " " -> ""
                [] s = "nats" -> "nats"]

Least == [databaseUrl |-> "url", jwtSecret |-> "secret", shutdownTimeout |-> Unset,
          maxConns |-> 1, producer |-> " Kafka ", brokers |-> Unset,
          pollInterval |-> Unset, batchSize |-> Unset]

MCEnvironments ==
    {[Least EXCEPT !.maxConns = 33, !.brokers = <<"">>, !.batchSize = 0,
                   !.pollInterval = Garbage],
     [Least EXCEPT !.producer = " ", !.maxConns = 2, !.brokers = <<"", "broker">>,
                   !.batchSize = Garbage, !.pollInterval = -1, !.shutdownTimeout = 0],
     [Least EXCEPT !.maxConns = 0],
     [Least EXCEPT !.maxConns = 16],
     [Least EXCEPT !.producer = "nats"],
     [Least EXCEPT !.databaseUrl = Unset],
     [Least EXCEPT !.jwtSecret = Unset]}
=============================================================================
