-------------------------------- MODULE Timer -------------------------------
(***************************************************************************)
(* The one-shot timer of the stm32l4 example (src/examples/stm32l4/src/    *)
(* timer.rs) at the level of its registers: start() computes a prescaler   *)
(* and a reload value from the duration and writes them one by one, while  *)
(* the counter runs on its own and raises the update interrupt.            *)
(***************************************************************************)
EXTENDS Naturals

CONSTANTS
    Clock,      \* the rate of pclk1 in mHz
    Scale,      \* the rate of one millisecond in mHz, 1,000,000
    Half,       \* the registers' range, 2^16
    Durations   \* the durations given to start(), in milliseconds

ASSUME ClockAssumption ==
    /\ Scale \in Nat \ {0} /\ Half \in Nat \ {0}
    /\ Clock \in Nat /\ Clock >= Scale
    /\ Durations \subseteq Nat

VARIABLES
    cen,        \* cr1.cen: the counter is enabled
    uie,        \* dier.uie: the update interrupt is enabled
    uif,        \* sr.uif: the update flag
    psc,        \* the prescaler register
    active,     \* the prescaler in use, loaded by an update event
    arr,        \* the reload register
    pre,        \* the prescaler's count
    cnt,        \* the counter
    irq,        \* TRUE: the interrupt is pending in the NVIC
    pc,         \* where start() is, or "panic"
    duration,   \* the duration given to the last start()
    elapsed     \* how many clock cycles the counter has been running

regs == <<psc, arr>>
counting == <<active, pre, cnt, elapsed>>
vars == <<cen, uie, uif, regs, counting, irq, pc, duration>>

Init ==
    /\ cen = FALSE /\ uie = FALSE /\ uif = FALSE
    /\ psc = 0 /\ active = 0 /\ arr = 0
    /\ pre = 0 /\ cnt = 0
    /\ irq = FALSE
    /\ pc = "idle"
    /\ duration = 0
    /\ elapsed = 0

-----------------------------------------------------------------------------
(***************************************************************************)
(* The arithmetic of start(), in 64 bits; the registers cut to 16.         *)
(***************************************************************************)
rate(d) == Scale \div d

ticks(d) == Clock \div rate(d)

prescaler_Floor(d) == IF ticks(d) < Half THEN 0 ELSE ticks(d) \div Half - 1

prescaler(d) == (ticks(d) - 1) \div Half

reload_Uncut(d) == ticks(d) \div (prescaler(d) + 1)

reload_One(d) == ((ticks(d) - 1) \div (prescaler(d) + 1)) % Half

reload(d) == (ticks(d) \div (prescaler(d) + 1)) % Half

-----------------------------------------------------------------------------
(***************************************************************************)
(* start(): pause the counter, write the registers with the interrupt off, *)
(* raise an update event to load the prescaler, clear the flag which that  *)
(* has set, turn the interrupt on and the counter.  A duration of 0 has no *)
(* rate (unwrap), and one whose rate is rounded to 0 is divided by.        *)
(***************************************************************************)
Pause(d) ==
    /\ pc = "idle"
    /\ cen' = FALSE
    /\ duration' = d
    /\ pc' = IF d = 0 \/ rate(d) = 0 THEN "panic" ELSE "write"
    /\ UNCHANGED <<uie, uif, regs, counting, irq>>

WriteRegisters_Enabled ==
    /\ pc = "write"
    /\ psc' = prescaler(duration) % Half
    /\ arr' = reload(duration)
    /\ pc' = "load"
    /\ UNCHANGED <<cen, uie, uif, counting, irq, duration>>

WriteRegisters ==
    /\ pc = "write"
    /\ psc' = prescaler(duration) % Half
    /\ arr' = reload(duration)
    /\ uie' = FALSE
    /\ pc' = "load"
    /\ UNCHANGED <<cen, uif, counting, irq, duration>>

\* egr.ug: an update event by software, which also resets the counter.
Load ==
    /\ pc = "load"
    /\ active' = psc
    /\ pre' = 0 /\ cnt' = 0 /\ elapsed' = 0
    /\ uif' = TRUE
    /\ irq' = (irq \/ uie)
    /\ pc' = "clear"
    /\ UNCHANGED <<cen, uie, regs, duration>>

clear_update_interrupt_flag == uif' = FALSE

Clear ==
    /\ pc = "clear"
    /\ clear_update_interrupt_flag
    /\ pc' = "enable"
    /\ UNCHANGED <<cen, uie, regs, counting, irq, duration>>

Enable ==
    /\ pc = "enable"
    /\ uie' = TRUE
    /\ irq' = (irq \/ uif)
    /\ cen' = TRUE
    /\ pc' = "idle"
    /\ UNCHANGED <<uif, regs, counting, duration>>

-----------------------------------------------------------------------------
(***************************************************************************)
(* The hardware: the counter counts from 0 to arr, a step every active + 1 *)
(* cycles, and its overflow sets the flag and, in one-pulse mode, stops    *)
(* it.  A reload value of 0 blocks the counter.                            *)
(***************************************************************************)
Cycle ==
    /\ cen /\ arr # 0
    /\ elapsed' = elapsed + 1
    /\ pre' = IF pre = active THEN 0 ELSE pre + 1
    /\ \/ pre # active /\ UNCHANGED <<cen, uif, cnt, irq>>
       \/ /\ pre = active /\ cnt # arr
          /\ cnt' = cnt + 1
          /\ UNCHANGED <<cen, uif, irq>>
       \/ /\ pre = active /\ cnt = arr
          /\ cnt' = 0
          /\ cen' = FALSE
          /\ uif' = TRUE
          /\ irq' = (irq \/ uie)
    /\ UNCHANGED <<uie, regs, active, pc, duration>>

\* The interrupt is served (AsyncTimer::signal), which clears the flag.
Serve ==
    /\ irq
    /\ pc = "idle"
    /\ irq' = FALSE
    /\ clear_update_interrupt_flag
    /\ UNCHANGED <<cen, uie, regs, counting, pc, duration>>

start == WriteRegisters \/ Load \/ Clear \/ Enable

Next == start \/ Cycle \/ Serve \/ \E d \in Durations : Pause(d)

Spec == Init /\ [][Next]_vars

\* start() runs to its end, and the clock does not stop.
FairSpec == Spec /\ WF_vars(start) /\ WF_vars(Cycle)

-----------------------------------------------------------------------------
(***************************************************************************)
(* Properties.                                                             *)
(***************************************************************************)
\* Every register stays in its range of 16 bits, every variable in its type, and a counter
\* that runs has not passed the reload value.
TypeOK ==
    /\ cen \in BOOLEAN /\ uie \in BOOLEAN /\ uif \in BOOLEAN /\ irq \in BOOLEAN
    /\ psc \in 0 .. (Half - 1) /\ arr \in 0 .. (Half - 1)
    /\ active \in 0 .. (Half - 1) /\ pre \in 0 .. active /\ cnt \in 0 .. (Half - 1)
    /\ pc \in {"idle", "write", "load", "clear", "enable", "panic"}
    /\ duration \in Durations \cup {0}
    /\ elapsed \in Nat
    /\ cen => cnt <= arr

Fits(d) == prescaler(d) < Half

\* What the three roundings of start() cost, against the real duration of Clock *
\* duration / Scale cycles: the timer fires no sooner, unless the prescaler was cut to its
\* register, and no later than by one step of the prescaler and the factor Scale /
\* (Scale + 1 - duration), the most that the rounding of the rate can add: next to nothing
\* for a short duration, a fifth for Scale / 6, and as much again just above Scale / 2.
FiresOnTime ==
    uif /\ pc = "idle" =>
        /\ Fits(duration) => elapsed * Scale >= Clock * duration
        /\ (elapsed - (active + 1)) * (Scale + 1 - duration) <= Clock * duration

\* The interrupt is raised by the end of a count only, never by the update event that
\* start() makes to load the prescaler.
InterruptAtEndOnly == [][~irq /\ irq' => cen /\ ~cen' /\ pc = "idle"]_vars

\* A timer that was started fires, unless it is started anew, or the reload value was
\* cut to 0: the number of ticks is a multiple of the registers' range.
StartedFires ==
    cen /\ ticks(duration) % Half # 0 ~> (uif \/ pc # "idle")
=============================================================================
