---------------------------- MODULE MCBenchmark ----------------------------
(* Two workloads, all providers, and a name that is none of theirs. *)
EXTENDS Benchmark

MCWorkload == {"add_chain", "mul_chain"}

MCProviderId == {"plaintext", "ckks", "ilc", "unknown"}
=============================================================================
