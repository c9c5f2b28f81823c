------------------------------- MODULE Timing -------------------------------
(***************************************************************************)
(* src/compat/time.c and src/compat/mbedtls/timing_alt.c: the timer of the *)
(* DTLS handshake, on the tick of the HAL.  time_ms is 64 bits wide and    *)
(* the difference of two times may be negative; unsigned long, which it is *)
(* converted to, has as many bits as the tick.  The conversions of Anjay   *)
(* Lite between units (external) are exact.                                *)
(***************************************************************************)
EXTENDS Integers

CONSTANT TickMod    \* 2^32

(* anj_time_real_now *)
anj_time_real_now(tick) == tick

unsigned_long(x) == x % TickMod

\* Mutant: a negative difference is taken for no time at all.
Mut_get_timer(tick, time_ms) == IF tick < time_ms THEN 0 ELSE tick - time_ms

mbedtls_timing_get_timer(tick, time_ms) ==
    unsigned_long(anj_time_real_now(tick) - time_ms)

NoDelay == [time_ms |-> 0, int_ms |-> 0, fin_ms |-> 0]

(* The timer is restarted unless the delay is cancelled. *)
mbedtls_timing_set_delay(ctx, tick, int_ms, fin_ms) ==
    [time_ms |-> IF fin_ms # 0 THEN anj_time_real_now(tick) ELSE ctx.time_ms,
     int_ms |-> int_ms, fin_ms |-> fin_ms]

Verdict(elapsed_ms, ctx) ==
    IF elapsed_ms >= ctx.fin_ms THEN 2 ELSE IF elapsed_ms >= ctx.int_ms THEN 1 ELSE 0

mbedtls_timing_get_delay(ctx, tick) ==
    IF ctx.fin_ms = 0 THEN -1
    ELSE Verdict(mbedtls_timing_get_timer(tick, ctx.time_ms), ctx)
=============================================================================
