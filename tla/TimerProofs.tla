---------------------------- MODULE TimerProofs -----------------------------
(***************************************************************************)
(* Proofs about the one-shot timer, for any clock, any range of the        *)
(* registers and any durations.                                            *)
(***************************************************************************)
EXTENDS Timer, Arithmetic

-----------------------------------------------------------------------------
(***************************************************************************)
(* The inductive invariant: where start() is says what it has written, and *)
(* the count says how long the counter has been running.                   *)
(***************************************************************************)
Startable(d) == d # 0 /\ rate(d) # 0

Written == psc = prescaler(duration) % Half /\ arr = reload(duration)

Loaded == Startable(duration) /\ Written /\ active = psc

StartInv ==
    /\ cen => pc = "idle"
    /\ pc \in {"write", "load", "clear", "enable"} => Startable(duration)
    /\ pc \in {"load", "clear", "enable"} => Written /\ ~uie
    /\ pc \in {"clear", "enable"} => active = psc /\ pre = 0 /\ cnt = 0 /\ elapsed = 0
    /\ pc = "enable" => ~uif

CountInv ==
    cen => /\ Loaded /\ ~uif
           /\ elapsed = cnt * (active + 1) + pre

FiredInv ==
    uif /\ pc = "idle" => /\ Loaded /\ arr # 0
                          /\ elapsed = (arr + 1) * (active + 1)

Inv == TypeOK /\ StartInv /\ CountInv /\ FiredInv

-----------------------------------------------------------------------------
(***************************************************************************)
(* The arithmetic of start().                                              *)
(***************************************************************************)

\* A startable duration has a rate, and at least one tick.
LEMMA TicksPositive ==
    ASSUME NEW d \in Nat, Startable(d)
    PROVE  /\ rate(d) \in Nat \ {0} /\ rate(d) * d <= Scale
           /\ ticks(d) \in Nat \ {0} /\ Clock < rate(d) * (ticks(d) + 1)
<1>1. /\ Scale \in Nat \ {0} /\ Clock \in Nat /\ Scale <= Clock /\ d \in Nat \ {0}
  BY ClockAssumption DEF ClockAssumption, Startable
<1>2. PICK r \in Nat \ {0} : r = rate(d)
  <2>1. rate(d) \in Nat /\ rate(d) # 0
    BY <1>1, DivMod DEF rate, Startable
  <2> QED BY <2>1
<1>3. Scale = d * r + (Scale % d) /\ Scale % d \in Nat
  BY <1>1, <1>2, DivMod DEF rate
<1>4. d * r \in Nat /\ d * r = r * d
  BY <1>1, <1>2
<1>5. r * d <= Scale
  BY <1>1, <1>3, <1>4
<1>6. r <= r * d
  BY <1>1, <1>2
<1>7. PICK t \in Nat : t = ticks(d)
  BY <1>1, <1>2, DivMod DEF ticks
<1>8. Clock = r * t + (Clock % r) /\ Clock % r \in Nat /\ Clock % r < r
  BY <1>1, <1>2, <1>7, DivMod DEF ticks
<1>9. t # 0
  <2>1. r <= Clock
    BY <1>1, <1>2, <1>4, <1>5, <1>6
  <2> QED BY <1>1, <1>2, <1>8, <2>1
<1>10. r * (t + 1) = r * t + r /\ r * t \in Nat
  BY <1>2, <1>7
<1>11. Clock < r * (t + 1)
  BY <1>1, <1>2, <1>8, <1>10
<1> QED BY <1>2, <1>5, <1>7, <1>9, <1>11

\* The registers are in range.
LEMMA RegistersInRange ==
    ASSUME NEW d \in Nat, Startable(d)
    PROVE  /\ prescaler(d) \in Nat /\ prescaler(d) % Half \in 0 .. (Half - 1)
           /\ reload(d) \in 0 .. (Half - 1)
<1>1. Half \in Nat \ {0}
  BY ClockAssumption DEF ClockAssumption
<1>2. ticks(d) - 1 \in Nat /\ ticks(d) \in Nat
  BY TicksPositive
<1>3. prescaler(d) \in Nat
  BY <1>1, <1>2, DivMod DEF prescaler
<1>4. ticks(d) \div (prescaler(d) + 1) \in Nat
  <2>1. prescaler(d) + 1 \in Nat \ {0}
    BY <1>3
  <2> QED BY <1>2, <2>1, DivMod
<1> QED BY <1>1, <1>3, <1>4, DivMod DEF reload

\* Cutting a value to the range of the registers makes it no larger.
LEMMA CutIsSmaller ==
    ASSUME NEW n \in Nat, NEW m \in Nat \ {0}
    PROVE  n % m <= n /\ (n < m => n % m = n)
<1>1. n \div m \in Nat /\ n % m \in Nat /\ n = m * (n \div m) + (n % m)
  BY DivMod
<1>2. m * (n \div m) \in Nat
  BY <1>1
<1>3. n < m => n % m = n
  OBVIOUS
<1> QED BY <1>1, <1>2, <1>3

\* A whole count but for its last step is no longer than the wanted number of ticks, and
\* these no longer than the duration but for the rounding of the rate.
LEMMA NotTooLate ==
    ASSUME NEW d \in Nat, Startable(d)
    PROVE  (reload(d) * ((prescaler(d) % Half) + 1)) * (Scale + 1 - d) <= Clock * d
<1>1. Half \in Nat \ {0} /\ Scale \in Nat \ {0} /\ Clock \in Nat /\ d \in Nat \ {0}
  BY ClockAssumption DEF ClockAssumption, Startable
<1>2. PICK t \in Nat : t = ticks(d)
  BY TicksPositive
<1>3. PICK p \in Nat : p = prescaler(d)
  BY RegistersInRange
<1>4. PICK q \in Nat : q = t \div (p + 1)
  <2>1. p + 1 \in Nat \ {0}
    BY <1>3
  <2> QED BY <1>2, <2>1, DivMod
<1>5. (p + 1) * q <= t
  <2>1. p + 1 \in Nat \ {0}
    BY <1>3
  <2>2. t = (p + 1) * q + (t % (p + 1)) /\ t % (p + 1) \in Nat
    BY <1>2, <1>4, <2>1, DivMod
  <2>3. (p + 1) * q \in Nat
    BY <1>3, <1>4
  <2> QED BY <1>2, <2>2, <2>3
<1>6. PICK a \in Nat : a = p % Half /\ a <= p
  BY <1>1, <1>3, DivMod, CutIsSmaller
<1>7. PICK n \in Nat : n = reload(d) /\ n <= q
  BY <1>1, <1>2, <1>3, <1>4, DivMod, CutIsSmaller DEF reload
<1>8. PICK e \in Nat : e = n * (a + 1) /\ e <= t
  <2>1. n * (a + 1) <= (p + 1) * q
    BY <1>3, <1>4, <1>6, <1>7
  <2>2. n * (a + 1) \in Nat /\ (p + 1) * q \in Nat
    BY <1>3, <1>4, <1>6, <1>7
  <2> QED BY <1>2, <1>5, <2>1, <2>2
<1>9. PICK r \in Nat : r * t <= Clock /\ Scale + 1 - d <= r * d
  <2>1. PICK r \in Nat \ {0} : r = rate(d)
    BY TicksPositive
  <2>2. Scale = d * r + (Scale % d) /\ Scale % d \in Nat /\ Scale % d < d
    BY <1>1, <2>1, DivMod DEF rate
  <2>3. Clock = r * t + (Clock % r) /\ Clock % r \in Nat
    BY <1>1, <1>2, <2>1, DivMod DEF ticks
  <2>4. d * r \in Nat /\ d * r = r * d /\ r * t \in Nat
    BY <1>1, <1>2, <2>1
  <2>5. r * t <= Clock
    BY <1>1, <2>3, <2>4
  <2>6. Scale + 1 - d <= r * d
    BY <1>1, <2>2, <2>4
  <2> QED BY <2>1, <2>5, <2>6
<1>10. d <= Scale
  <2>1. PICK s \in Nat \ {0} : s * d <= Scale
    BY TicksPositive
  <2>2. d <= s * d /\ s * d \in Nat
    BY <1>1, <2>1
  <2> QED BY <1>1, <2>1, <2>2
<1>11. PICK k \in Nat : k = Scale + 1 - d
  BY <1>1, <1>10
<1>12. e * k <= t * k
  BY <1>2, <1>8, <1>11
<1>13. t * k <= t * (r * d)
  <2>1. r * d \in Nat /\ k <= r * d
    BY <1>1, <1>9, <1>11
  <2>2. PICK z \in Nat : z = r * d
    BY <2>1
  <2>3. t * k <= t * z
    BY <1>2, <1>11, <2>1, <2>2
  <2> QED BY <2>2, <2>3
<1>14. t * (r * d) = (r * t) * d
  BY <1>1, <1>2, <1>9
<1>15. (r * t) * d <= Clock * d
  <2>1. r * t \in Nat
    BY <1>2, <1>9
  <2> QED BY <1>1, <1>9, <2>1
<1>16. e * k <= Clock * d
  <2>1. /\ e * k \in Nat /\ t * k \in Nat /\ t * (r * d) \in Nat /\ (r * t) * d \in Nat
        /\ Clock * d \in Nat
    <3>1. r * d \in Nat /\ r * t \in Nat
      BY <1>1, <1>2, <1>9
    <3>2. e * k \in Nat /\ t * k \in Nat /\ Clock * d \in Nat
      BY <1>1, <1>2, <1>8, <1>11
    <3>3. t * (r * d) \in Nat
      BY <1>2, <3>1
    <3>4. (r * t) * d \in Nat
      BY <1>1, <3>1
    <3> QED BY <3>2, <3>3, <3>4
  <2> QED BY <1>12, <1>13, <1>14, <1>15, <2>1
<1> QED BY <1>3, <1>6, <1>7, <1>8, <1>11, <1>16

\* A whole count is not shorter than the duration, unless a register was cut.
LEMMA NotTooEarly ==
    ASSUME NEW d \in Nat, Startable(d), Fits(d), reload(d) # 0
    PROVE  ((reload(d) + 1) * ((prescaler(d) % Half) + 1)) * Scale >= Clock * d
<1>1. Half \in Nat \ {0} /\ Scale \in Nat /\ Clock \in Nat /\ d # 0
  BY ClockAssumption DEF ClockAssumption, Startable
<1>2. PICK t \in Nat : t = ticks(d) /\ t # 0
  BY TicksPositive
<1>3. PICK p \in Nat : p = prescaler(d) /\ p < Half /\ p % Half = p
  BY <1>1, RegistersInRange, CutIsSmaller DEF Fits
<1>4. p + 1 \in Nat \ {0} /\ t - 1 \in Nat
  BY <1>2, <1>3
<1>5. PICK q \in Nat : q = t \div (p + 1)
  BY <1>2, <1>4, DivMod
<1>6. t <= Half * (p + 1)
  <2>1. PICK x \in Nat : t - 1 = Half * p + x /\ x < Half
    BY <1>1, <1>2, <1>3, <1>4, DivMod DEF prescaler
  <2>2. Half * (p + 1) = Half * p + Half /\ Half * p \in Nat
    BY <1>1, <1>3
  <2> QED BY <1>1, <1>2, <2>1, <2>2
<1>7. PICK y \in Nat : t = (p + 1) * q + y /\ y < p + 1
  BY <1>2, <1>4, <1>5, DivMod
<1>8. q <= Half
  <2> SUFFICES ASSUME q >= Half + 1 PROVE FALSE
    BY <1>1
  <2>1. (p + 1) * (Half + 1) <= (p + 1) * q
    BY <1>1, <1>3
  <2>2. (p + 1) * (Half + 1) = Half * (p + 1) + (p + 1)
    BY <1>1, <1>3
  <2>3. Half * (p + 1) \in Nat /\ (p + 1) * q \in Nat
    BY <1>1, <1>3
  <2> QED BY <1>2, <1>3, <1>6, <1>7, <2>1, <2>2, <2>3
<1>9. q # Half
  <2>1. Half % Half = 0
    BY <1>1
  <2> QED BY <1>2, <1>3, <1>5, <2>1 DEF reload
<1>10. reload(d) = q
  BY <1>1, <1>2, <1>3, <1>5, <1>8, <1>9, CutIsSmaller DEF reload
<1>11. PICK e \in Nat : e = (q + 1) * (p + 1) /\ t + 1 <= e
  <2>1. (q + 1) * (p + 1) = (p + 1) * q + (p + 1) /\ (p + 1) * q \in Nat
    BY <1>3
  <2> QED BY <1>2, <1>3, <1>7, <2>1
<1>12. PICK r \in Nat : r * d <= Scale /\ Clock < r * (t + 1) /\ r * d \in Nat
  <2>1. rate(d) \in Nat /\ rate(d) * d <= Scale /\ Clock < rate(d) * (t + 1)
    BY <1>2, TicksPositive
  <2> QED BY <2>1
<1>13. r * (t + 1) <= r * e
  BY <1>2, <1>11
<1>14. Clock <= r * e
  BY <1>1, <1>2, <1>11, <1>12, <1>13
<1>15. Clock * d <= (r * e) * d
  BY <1>1, <1>11, <1>14
<1>16. (r * e) * d = e * (r * d)
  BY <1>11
<1>17. e * (r * d) <= e * Scale
  BY <1>1, <1>11, <1>12
<1>18. Clock * d <= e * Scale
  <2>1. Clock * d \in Nat /\ e * Scale \in Nat /\ e * (r * d) \in Nat
    BY <1>1, <1>11, <1>12
  <2> QED BY <1>15, <1>16, <1>17, <2>1
<1> QED BY <1>1, <1>3, <1>10, <1>11, <1>18

-----------------------------------------------------------------------------
(***************************************************************************)
(* Every step keeps the invariant.                                         *)
(***************************************************************************)

\* The duration is a natural number.
LEMMA DurationIsNat ==
    ASSUME TypeOK
    PROVE  duration \in Nat /\ Half \in Nat \ {0}
BY ClockAssumption DEF ClockAssumption, TypeOK

\* A new start() pauses the counter first.
LEMMA PauseKeeps ==
    ASSUME Inv, NEW d \in Durations, Pause(d)
    PROVE  Inv'
<1>1. TypeOK'
  BY DEF Pause, Inv, TypeOK, regs, counting
<1>2. cen' = FALSE /\ pc' # "idle" /\ duration' = d
  BY DEF Pause
<1>3. pc' = "write" => Startable(duration')
  BY <1>2 DEF Pause, Startable
<1>4. pc' \in {"panic", "write"}
  BY DEF Pause
<1>5. StartInv'
  BY <1>2, <1>3, <1>4 DEF StartInv, Startable
<1> QED BY <1>1, <1>2, <1>5 DEF Inv, CountInv, FiredInv

\* The registers are written while the counter is stopped.
LEMMA WriteKeeps ==
    ASSUME Inv, WriteRegisters
    PROVE  Inv'
<1>1. duration \in Nat /\ Startable(duration)
  BY DurationIsNat DEF Inv, StartInv, WriteRegisters
<1>2. psc' = prescaler(duration) % Half /\ arr' = reload(duration) /\ uie' = FALSE
  BY DEF WriteRegisters
<1>3. psc' \in 0 .. (Half - 1) /\ arr' \in 0 .. (Half - 1)
  BY <1>1, <1>2, RegistersInRange
<1>4. /\ UNCHANGED <<cen, uif, active, pre, cnt, elapsed, irq, duration>>
      /\ pc = "write" /\ pc' = "load"
  BY DEF WriteRegisters, counting
<1>5. ~cen
  BY <1>4 DEF Inv, StartInv
<1>6. TypeOK'
  BY <1>2, <1>3, <1>4, <1>5 DEF Inv, TypeOK
<1>7. Written' /\ Startable(duration)'
  BY <1>1, <1>2, <1>4 DEF Written, Startable, prescaler, reload, ticks, rate
<1>8. StartInv'
  BY <1>2, <1>4, <1>5, <1>7 DEF StartInv
<1> QED BY <1>4, <1>5, <1>6, <1>8 DEF Inv, CountInv, FiredInv

\* The update event resets the count, and the interrupt is off.
LEMMA LoadKeeps ==
    ASSUME Inv, Load
    PROVE  Inv'
<1>1. /\ active' = psc /\ pre' = 0 /\ cnt' = 0 /\ elapsed' = 0
      /\ uif' = TRUE /\ irq' = (irq \/ uie)
      /\ pc = "load" /\ pc' = "clear" /\ UNCHANGED <<cen, uie, psc, arr, duration>>
  BY DEF Load, regs
<1>2. psc \in 0 .. (Half - 1) /\ Half \in Nat \ {0}
  BY DurationIsNat DEF Inv, TypeOK
<1>3. pre' \in 0 .. active' /\ cnt' \in 0 .. (Half - 1) /\ active' \in 0 .. (Half - 1)
  BY <1>1, <1>2
<1>4. irq' \in BOOLEAN
  BY <1>1 DEF Inv, TypeOK
<1>5. TypeOK'
  BY <1>1, <1>3, <1>4 DEF Inv, TypeOK
<1>6. StartInv'
  BY <1>1 DEF Inv, StartInv, Written
<1> QED BY <1>1, <1>5, <1>6 DEF Inv, StartInv, CountInv, FiredInv

\* The flag is cleared, and the counter enabled.
LEMMA ClearEnableKeeps ==
    ASSUME Inv, Clear \/ Enable
    PROVE  Inv'
<1>1. CASE Clear
  <2>1. /\ pc = "clear" /\ pc' = "enable" /\ uif' = FALSE
        /\ UNCHANGED <<cen, uie, psc, arr, active, pre, cnt, elapsed, irq, duration>>
    BY <1>1 DEF Clear, clear_update_interrupt_flag, regs, counting
  <2>2. TypeOK'
    BY <2>1 DEF Inv, TypeOK
  <2>3. StartInv'
    BY <2>1 DEF Inv, StartInv, Written
  <2> QED BY <2>1, <2>2, <2>3 DEF Inv, StartInv, CountInv, FiredInv
<1>2. CASE Enable
  <2>1. /\ pc = "enable" /\ pc' = "idle" /\ uie' = TRUE /\ cen' = TRUE
        /\ irq' = (irq \/ uif)
        /\ UNCHANGED <<uif, psc, arr, active, pre, cnt, elapsed, duration>>
    BY <1>2 DEF Enable, regs, counting
  <2>2. irq' \in BOOLEAN
    BY <2>1 DEF Inv, TypeOK
  <2>3. StartInv'
    BY <2>1 DEF StartInv
  <2>4. /\ Startable(duration) /\ Written /\ active = psc /\ pre = 0 /\ cnt = 0
        /\ elapsed = 0 /\ ~uif
    BY <2>1 DEF Inv, StartInv
  <2>5. active \in Nat /\ arr \in Nat /\ cnt <= arr
    BY <2>4, DurationIsNat DEF Inv, TypeOK
  <2>6. TypeOK'
    BY <2>1, <2>2, <2>5 DEF Inv, TypeOK
  <2>7. elapsed = cnt * (active + 1) + pre
    BY <2>4, <2>5
  <2>8. CountInv'
    BY <2>1, <2>4, <2>7 DEF CountInv, Loaded, Written
  <2>9. FiredInv'
    BY <2>1, <2>4 DEF FiredInv
  <2> QED BY <2>3, <2>6, <2>8, <2>9 DEF Inv
<1> QED BY <1>1, <1>2

\* A cycle counts, and the last one fires after (arr + 1) * (active + 1) of them.
LEMMA CycleKeeps ==
    ASSUME Inv, Cycle
    PROVE  Inv'
<1>1. /\ cen /\ arr # 0 /\ pc = "idle" /\ Loaded /\ ~uif /\ cnt <= arr
      /\ elapsed = cnt * (active + 1) + pre
      /\ UNCHANGED <<uie, psc, arr, active, pc, duration>>
      /\ elapsed' = elapsed + 1
  BY DEF Cycle, Inv, TypeOK, StartInv, CountInv, regs
<1>2. /\ active \in Nat /\ arr \in Nat /\ cnt \in Nat /\ pre \in Nat /\ pre <= active
      /\ elapsed \in Nat /\ arr <= Half - 1 /\ Half \in Nat \ {0}
  BY DurationIsNat DEF Inv, TypeOK
<1>3. Loaded'
  BY <1>1 DEF Loaded, Written, Startable
<1>4. pre' \in 0 .. active /\ elapsed' \in Nat
  BY <1>1, <1>2 DEF Cycle
<1>5. CASE pre # active /\ UNCHANGED <<cen, uif, cnt, irq>>
  <2>1. pre' = pre + 1
    BY <1>5 DEF Cycle
  <2>2. elapsed' = cnt * (active + 1) + pre'
    BY <1>1, <1>2, <2>1
  <2>3. TypeOK'
    BY <1>1, <1>4, <1>5 DEF Inv, TypeOK
  <2>4. StartInv' /\ FiredInv'
    BY <1>1, <1>5 DEF StartInv, FiredInv
  <2>5. CountInv'
    BY <1>1, <1>3, <1>5, <2>2 DEF CountInv
  <2> QED BY <2>3, <2>4, <2>5 DEF Inv
<1>6. CASE pre = active /\ cnt # arr /\ cnt' = cnt + 1 /\ UNCHANGED <<cen, uif, irq>>
  <2>1. pre' = 0
    BY <1>6 DEF Cycle
  <2>2. elapsed' = cnt' * (active + 1) + pre'
    <3>1. elapsed' = cnt * (active + 1) + active + 1
      BY <1>1, <1>2, <1>6
    <3> QED BY <1>2, <1>6, <2>1, <3>1
  <2>3. cnt' <= arr /\ cnt' \in 0 .. (Half - 1)
    BY <1>1, <1>2, <1>6
  <2>4. TypeOK'
    BY <1>1, <1>4, <1>6, <2>3 DEF Inv, TypeOK
  <2>5. StartInv' /\ FiredInv'
    BY <1>1, <1>6 DEF StartInv, FiredInv
  <2>6. CountInv'
    BY <1>1, <1>3, <1>6, <2>2, <2>3 DEF CountInv
  <2> QED BY <2>4, <2>5, <2>6 DEF Inv
<1>7. CASE /\ pre = active /\ cnt = arr
           /\ cnt' = 0 /\ cen' = FALSE /\ uif' = TRUE /\ irq' = (irq \/ uie)
  <2>1. elapsed' = arr * (active + 1) + active + 1
    BY <1>1, <1>2, <1>7
  <2>2. elapsed' = (arr + 1) * (active + 1)
    BY <1>2, <2>1
  <2>3. cnt' \in 0 .. (Half - 1)
    BY <1>2, <1>7
  <2>4. irq' \in BOOLEAN
    BY <1>7 DEF Inv, TypeOK
  <2>5. TypeOK'
    BY <1>1, <1>4, <1>7, <2>3, <2>4 DEF Inv, TypeOK
  <2>6. StartInv' /\ CountInv'
    BY <1>1, <1>7 DEF StartInv, CountInv
  <2>7. FiredInv'
    BY <1>1, <1>3, <2>2 DEF FiredInv
  <2> QED BY <2>5, <2>6, <2>7 DEF Inv
<1> QED BY <1>5, <1>6, <1>7 DEF Cycle

\* Serving the interrupt clears the flag.
LEMMA ServeKeeps ==
    ASSUME Inv, Serve
    PROVE  Inv'
<1>1. /\ pc = "idle" /\ uif' = FALSE /\ irq' = FALSE
      /\ UNCHANGED <<cen, uie, psc, arr, active, pre, cnt, elapsed, pc, duration>>
  BY DEF Serve, clear_update_interrupt_flag, regs, counting
<1>2. TypeOK'
  BY <1>1 DEF Inv, TypeOK
<1> QED BY <1>1, <1>2 DEF Inv, StartInv, CountInv, FiredInv, Loaded, Written

\* Every step keeps the invariant.
LEMMA NextKeeps ==
    ASSUME Inv, [Next]_vars
    PROVE  Inv'
<1>1. CASE UNCHANGED vars
  <2>1. UNCHANGED <<cen, uie, uif, psc, arr, active, pre, cnt, elapsed, irq, pc, duration>>
    BY <1>1 DEF vars, regs, counting
  <2>2. TypeOK'
    BY <2>1 DEF Inv, TypeOK
  <2> QED BY <2>1, <2>2 DEF Inv, StartInv, CountInv, FiredInv, Loaded, Written
<1> QED BY <1>1, PauseKeeps, WriteKeeps, LoadKeeps, ClearEnableKeeps, CycleKeeps, ServeKeeps
        DEF Next, start

-----------------------------------------------------------------------------
(***************************************************************************)
(* The theorems.                                                           *)
(***************************************************************************)

\* The inductive invariant holds.
THEOREM InvariantHolds == Spec => []Inv
<1>1. Init => Inv
  <2> SUFFICES ASSUME Init PROVE Inv
    OBVIOUS
  <2>1. 0 \in 0 .. (Half - 1) /\ 0 \in 0 .. 0 /\ 0 \in Nat
    BY ClockAssumption DEF ClockAssumption
  <2>2. TypeOK
    <3>1. /\ psc \in 0 .. (Half - 1) /\ arr \in 0 .. (Half - 1)
          /\ active \in 0 .. (Half - 1) /\ pre \in 0 .. active /\ cnt \in 0 .. (Half - 1)
          /\ elapsed \in Nat
      BY <2>1 DEF Init
    <3> QED BY <3>1 DEF Init, TypeOK
  <2> QED BY <2>2 DEF Init, Inv, StartInv, CountInv, FiredInv
<1>2. Inv /\ [Next]_vars => Inv'
  BY NextKeeps
<1> QED BY <1>1, <1>2, PTL DEF Spec

\* No register leaves its range, and while the counter runs it does not pass the reload
\* value, although start() may write a smaller one: it stops the counter first, and resets
\* it before it lets it run again.
THEOREM TypeCorrect == Spec => []TypeOK
<1>1. Inv => TypeOK
  BY DEF Inv
<1> QED BY <1>1, InvariantHolds, PTL

\* When the timer fires, the real duration is over, unless the prescaler was cut to its
\* register, and it is over by at most one step of the prescaler and what the rounding of
\* the rate adds: for every clock and every duration, in spite of three integer divisions.
THEOREM FiresInTime == Spec => []FiresOnTime
<1>1. Inv => FiresOnTime
  <2> SUFFICES ASSUME Inv, uif, pc = "idle"
               PROVE  /\ Fits(duration) => elapsed * Scale >= Clock * duration
                      /\ (elapsed - (active + 1)) * (Scale + 1 - duration)
                            <= Clock * duration
    BY DEF FiresOnTime
  <2>1. /\ duration \in Nat /\ Startable(duration) /\ reload(duration) # 0
        /\ elapsed = (reload(duration) + 1) * ((prescaler(duration) % Half) + 1)
        /\ active = prescaler(duration) % Half
    BY DurationIsNat DEF Inv, FiredInv, Loaded, Written
  <2>2. PICK n \in Nat, a \in Nat : n = reload(duration) /\ a = active
    <3>1. reload(duration) \in Nat /\ active \in Nat
      BY <2>1, RegistersInRange, DurationIsNat DEF Inv, TypeOK
    <3> QED BY <3>1
  <2>3. elapsed - (active + 1) = n * (a + 1)
    BY <2>1, <2>2
  <2>4. (n * (a + 1)) * (Scale + 1 - duration) <= Clock * duration
    BY <2>1, <2>2, NotTooLate
  <2> QED BY <2>1, <2>3, <2>4, NotTooEarly
<1> QED BY <1>1, InvariantHolds, PTL

\* Only the end of a count raises the interrupt: when start() makes an update event the
\* interrupt is off, and when it turns it on the flag is clear.
THEOREM OnlyEndInterrupts == Spec => InterruptAtEndOnly
<1>1. Inv /\ [Next]_vars => [~irq /\ irq' => cen /\ ~cen' /\ pc = "idle"]_vars
  <2> SUFFICES ASSUME Inv, Next, ~irq, irq'
               PROVE  cen /\ ~cen' /\ pc = "idle"
    OBVIOUS
  <2>1. CASE Cycle
    BY <2>1 DEF Cycle, Inv, StartInv
  <2>2. ~Load /\ ~Enable
    BY DEF Load, Enable, Inv, StartInv
  <2>3. ~WriteRegisters /\ ~Clear /\ ~Serve /\ \A d \in Durations : ~Pause(d)
    BY DEF WriteRegisters, Clear, Serve, Pause
  <2> QED BY <2>1, <2>2, <2>3 DEF Next, start
<1> QED BY <1>1, InvariantHolds, PTL DEF Spec, InterruptAtEndOnly
=============================================================================
