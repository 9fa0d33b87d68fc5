------------------------------ MODULE Backoff ------------------------------
(***************************************************************************)
(* The retry delay that queue deliveries and schedule fires share          *)
(* (backoff_for in crates/krit-state/src/jobs.rs).                         *)
(***************************************************************************)
EXTENDS Naturals, Sequences

\* 2^0 .. 2^16: the exponent is clamped to that range.
Pow2 == <<1, 2, 4, 8, 16, 32, 64, 128, 256, 512, 1024, 2048, 4096, 8192, 16384,
          32768, 65536>>

BackoffFor(p, attempts) ==
    LET exponent == IF attempts = 0 THEN 0
                    ELSE IF attempts - 1 > 16 THEN 16 ELSE attempts - 1
        delay == p.backoff * Pow2[exponent + 1]
    IN  IF delay < p.max_backoff THEN delay ELSE p.max_backoff
=============================================================================
