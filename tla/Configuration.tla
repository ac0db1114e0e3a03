---------------------------- MODULE Configuration ----------------------------
(***************************************************************************)
(* What LoadFrom accepts of an environment, and what the parts that are    *)
(* built from it demand.                                                   *)
(*                                                                         *)
(* An environment is a record of its values after parsing: the mode, two   *)
(* pool sizes, percentages, durations, and whether a URL, a key or a flag  *)
(* is given.                                                               *)
(***************************************************************************)
EXTENDS Integers

CONSTANT MaxWaitingBuffer   \* maxWaitingBuffer

ASSUME BufferAssumption == MaxWaitingBuffer \in Nat

Percentages(env) == {env.base, env.minimum, env.maximum, env.step}

AdaptiveLimits(env) ==
  /\ env.minimum <= env.base /\ env.base <= env.maximum
  /\ env.step >= 1 /\ env.step <= env.maximum

MutMetricsOptional(env) ==
  /\ env.mode \in {"postgres", "mock"}
  /\ env.mode = "postgres" => env.database
  /\ env.maxOpen > 0 /\ env.maxIdle \in 0 .. env.maxOpen
  /\ env.retryBase <= env.retryMax
  /\ env.publisherTimeout <= env.lease \div 2
  /\ env.ai => env.apiKey
  /\ Percentages(env) \subseteq 0 .. MaxWaitingBuffer /\ AdaptiveLimits(env)
  /\ env.adaptive => env.mode = "postgres"
LoadFrom(env) ==
  /\ env.mode \in {"postgres", "mock"}
  /\ env.mode = "postgres" => env.database
  /\ env.maxOpen > 0 /\ env.maxIdle \in 0 .. env.maxOpen
  /\ env.retryBase <= env.retryMax
  /\ env.publisherTimeout <= env.lease \div 2
  /\ env.ai => env.apiKey
  /\ Percentages(env) \subseteq 0 .. MaxWaitingBuffer /\ AdaptiveLimits(env)
  /\ env.adaptive => env.mode = "postgres" /\ env.prometheus

(***************************************************************************)
(* What New needs.  NewController also refuses to be enabled without a     *)
(* metrics reader, but is handed a nil *PrometheusClient in an interface,  *)
(* which is not nil: the first Refresh would end the process instead.      *)
(***************************************************************************)
NewEmbedder(env) == env.apiKey

validateConfig(env) ==
  /\ Percentages(env) \subseteq Nat
  /\ AdaptiveLimits(env)

New(env) ==
  CASE env.mode = "mock" -> TRUE
    [] env.mode = "postgres" -> (env.ai => NewEmbedder(env)) /\ validateConfig(env)

RefreshPanics(env) == env.mode = "postgres" /\ env.adaptive /\ ~env.prometheus
=============================================================================
