------------------------------- MODULE Clock -------------------------------
(***************************************************************************)
(* CLOCK (gui_clock in gui_apps.c) and the time it shows, which            *)
(* sys_get_time (syscall.c) reads from the real-time clock one register at *)
(* a time, without a look at the update flag.  The clock may tick between  *)
(* two registers, and a time is then put together from two moments.        *)
(*                                                                         *)
(* The real-time clock is external.  A second is long against a frame: the *)
(* clock does not tick again before a frame read after the tick is drawn,  *)
(* or the program waits for the next tick.                                 *)
(***************************************************************************)
EXTENDS Integers

CONSTANTS HOURS, MINUTES, SECONDS  \* 24, 60 and 60

ASSUME ClockAssumption == {HOURS, MINUTES, SECONDS} \subseteq 2..99

VARIABLES
    rtc,        \* the registers, in BCD
    tick,       \* history: "no", or how far the program is since the tick
    clock_pc,   \* the register to be read next, or what follows
    time,       \* h, m and s
    current_s,
    shown,      \* the time last drawn
    frames      \* history: none, one or more frames have been drawn

program == <<clock_pc, time, current_s, shown, frames>>
clock == <<rtc, tick, program>>

Times == [h : 0..(HOURS - 1), m : 0..(MINUTES - 1), s : 0..(SECONDS - 1)]

bcd(n) == (n \div 10) * 16 + (n % 10)
bcd2bin(val) == (val \div 16) * 10 + (val % 16)

Registers(t) == [r \in {"h", "m", "s"} |-> bcd(t[r])]
Zero == [h |-> 0, m |-> 0, s |-> 0]

(* The time the registers hold, and the one the program makes of it.       *)
Now == [r \in {"h", "m", "s"} |-> bcd2bin(rtc[r])]
Zone(t) == [t EXCEPT !.h = (@ + 1) % HOURS]

WaitSteps == {"wait_h", "wait_m", "wait_s", "wait"}

ClockTypeOK ==
    /\ Now \in Times /\ time \in Times /\ shown \in Times
    /\ tick \in {"no", "due", "seen"}
    /\ clock_pc \in {"key", "h", "m", "s", "draw"} \cup WaitSteps
    /\ current_s \in 0..(SECONDS - 1)
    /\ frames \in 0..2

clock_reset ==
    /\ clock_pc' = "key" /\ time' = Zero /\ current_s' = 0 /\ shown' = Zero /\ frames' = 0
    /\ tick' = "no"

-----------------------------------------------------------------------------
(* The real-time clock: external.                                          *)
NextTime(t) ==
    LET s == (t.s + 1) % SECONDS
        m == IF s = 0 THEN (t.m + 1) % MINUTES ELSE t.m
        h == IF s = 0 /\ m = 0 THEN (t.h + 1) % HOURS ELSE t.h
    IN  [h |-> h, m |-> m, s |-> s]

rtc_tick ==
    /\ \/ tick = "no"
       \/ clock_pc \in WaitSteps /\ current_s = bcd2bin(rtc.s)
    /\ tick' = "due"
    /\ rtc' = Registers(NextTime(Now))
    /\ UNCHANGED program

-----------------------------------------------------------------------------
(* A key that is not ESC has no effect, here and in the wait below.        *)
clock_frame ==
    /\ clock_pc = "key"
    /\ clock_pc' = "h"
    /\ tick' = IF tick = "due" THEN "seen" ELSE tick
    /\ UNCHANGED <<rtc, time, current_s, shown, frames>>

(* sys_get_time: hours, then minutes, then seconds; h = (h + 1) % 24.      *)
ReadHours(pc, next) ==
    /\ clock_pc = pc
    /\ time' = [time EXCEPT !.h = (bcd2bin(rtc.h) + 1) % HOURS]
    /\ clock_pc' = next

ReadMinutes(pc, next) ==
    /\ clock_pc = pc
    /\ time' = [time EXCEPT !.m = bcd2bin(rtc.m)]
    /\ clock_pc' = next

ReadSeconds(pc, next) ==
    /\ clock_pc = pc
    /\ time' = [time EXCEPT !.s = bcd2bin(rtc.s)]
    /\ clock_pc' = next

sys_get_time ==
    /\ \/ ReadHours("h", "m")
       \/ ReadMinutes("m", "s")
       \/ ReadSeconds("s", "draw")
    /\ UNCHANGED <<rtc, tick, current_s, shown, frames>>

(* The face, the hands and the digits are drawn from the same three values. *)
clock_draw ==
    /\ clock_pc = "draw"
    /\ shown' = time
    /\ current_s' = time.s
    /\ frames' = IF frames < 2 THEN frames + 1 ELSE 2
    /\ tick' = IF tick = "seen" THEN "no" ELSE tick
    /\ clock_pc' = "wait_h"
    /\ UNCHANGED <<rtc, time>>

wait_get_time ==
    /\ \/ ReadHours("wait_h", "wait_m")
       \/ ReadMinutes("wait_m", "wait_s")
       \/ ReadSeconds("wait_s", "wait")
    /\ UNCHANGED <<rtc, tick, current_s, shown, frames>>

(* Mutation: the time read while waiting is drawn.                         *)
clock_wait_draws ==
    /\ clock_pc = "wait"
    /\ clock_pc' = IF current_s = time.s THEN "wait_h" ELSE "draw"
    /\ tick' = IF current_s # time.s /\ tick = "due" THEN "seen" ELSE tick
    /\ UNCHANGED <<rtc, time, current_s, shown, frames>>

(* The wait ends when the second changes; the next frame reads again.      *)
clock_wait ==
    /\ clock_pc = "wait"
    /\ clock_pc' = IF current_s = time.s THEN "wait_h" ELSE "key"
    /\ UNCHANGED <<rtc, tick, time, current_s, shown, frames>>

clock_step == clock_frame \/ sys_get_time \/ clock_draw \/ wait_get_time \/ clock_wait

-----------------------------------------------------------------------------
(* From the second frame on the time shown is the time it is, or was       *)
(* before the last tick: the time that ends the wait may be put together   *)
(* from two moments, and gui_clock reads it again before it draws.         *)
ShowsTheTime ==
    frames = 2 =>
        \/ shown = Zone(Now)
        \/ tick # "no" /\ \E t \in Times : shown = Zone(t) /\ Now = NextTime(t)
=============================================================================
