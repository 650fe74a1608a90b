---------------------------- MODULE MCCompletion ----------------------------
(* Instances of Completion for TLC.                                        *)
EXTENDS Completion, TLC

(* Calls are interchangeable: sound for the runs without liveness.         *)
CallSymmetry == Permutations(Requests)

(* Every answer the service tells apart, the NaN hint aside.               *)
OrderlyAnswers == Answers \ {"throttled_nan"}

(* One answer for each way the breaker takes it, without hints.            *)
PlainAnswers == {"completion", "rejected", "server_error"}

(* Answers that end a call in every way, the NaN hint included.            *)
FaultyAnswers == {"completion", "rejected", "server_error", "throttled_nan"}

NanAnswers == {"completion", "throttled_nan"}

=============================================================================
