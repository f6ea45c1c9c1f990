--------------------------- MODULE Platform_proofs ---------------------------
(****************************************************************************)
(* Proofs about what the slave has from its platform: the clock, whose      *)
(* counter rolls over (module Clock), and the driver of the radio with its  *)
(* interrupt (module Radio).                                                *)
(****************************************************************************)
EXTENDS Clock, Radio, TLAPS

----------------------------------------------------------------------------
(* The clock: sync_time is exact, for every width of the counter and every  *)
(* set of variables, as long as no variable waits a whole turn of it.       *)

\* The counter is gap ahead of what it was at the last synchronization: in the
\* same turn or in the next one, as the gap is shorter than a turn.
Ahead(s, g) ==
    \/ hw.high = s.high     /\ hw.low = s.low + g
    \/ hw.high = s.high + 1 /\ hw.low + W = s.low + g

ClockIInv == ClockTypeOK /\ Exact /\ \A v \in Vars : Ahead(seen[v], gap[v])

LEMMA InitClockIInv == ClockInit => ClockIInv
BY ClockAssumption DEF ClockInit, ClockIInv, ClockTypeOK, Exact, Ahead, Stamp

\* The rollover is detected exactly when it happened.
LEMMA SyncExact ==
    ASSUME NEW s \in Stamp, NEW g \in 0..MaxGap, hw \in Stamp, Ahead(s, g)
    PROVE  SyncTime(s, hw.low) = hw
<1>1. hw = [high |-> hw.high, low |-> hw.low]
  BY DEF Stamp
<1>2. hw.low < s.low => hw.high = s.high + 1
  BY ClockAssumption DEF Ahead, Stamp
<1>3. ~(hw.low < s.low) => hw.high = s.high
  BY ClockAssumption DEF Ahead, Stamp
<1> QED
  BY <1>1, <1>2, <1>3 DEF SyncTime

LEMMA TickIInv == ClockIInv /\ Tick => ClockIInv'
<1> SUFFICES ASSUME ClockIInv, Tick PROVE ClockIInv'
  OBVIOUS
<1>1. hw' \in Stamp
  BY ClockAssumption DEF ClockIInv, ClockTypeOK, Tick, Stamp
<1>2. gap' \in [Vars -> 0..MaxGap]
  BY ClockAssumption DEF ClockIInv, ClockTypeOK, Tick
<1>3. ASSUME NEW v \in Vars
      PROVE  Ahead(seen[v], gap[v])'
  <2>1. /\ seen[v] \in Stamp /\ gap[v] \in 0..MaxGap /\ Ahead(seen[v], gap[v])
        /\ seen'[v] = seen[v] /\ gap'[v] = gap[v] + 1 /\ gap[v] < MaxGap
    BY DEF ClockIInv, ClockTypeOK, Tick
  <2>2. /\ hw.high \in Nat /\ hw.low \in 0..(W - 1) /\ W \in Nat
        /\ seen[v].high \in Nat /\ seen[v].low \in 0..(W - 1)
        /\ MaxGap \in Nat /\ MaxGap < W
    BY <2>1, ClockAssumption DEF ClockIInv, ClockTypeOK, Stamp
  <2>3. CASE hw.low = W - 1
    <3>1. hw'.high = hw.high + 1 /\ hw'.low = 0
      <4>1. hw' = [high |-> hw.high + 1, low |-> 0]
        BY <2>3, Zenon DEF Tick
      <4> QED
        BY <4>1
    <3>2. hw.high = seen[v].high /\ hw.low = seen[v].low + gap[v]
      BY <2>1, <2>2, <2>3 DEF Ahead
    <3> QED
      BY <2>1, <2>2, <2>3, <3>1, <3>2 DEF Ahead
  <2>4. CASE hw.low # W - 1
    <3>1. hw'.high = hw.high /\ hw'.low = hw.low + 1
      BY <2>4 DEF Tick, ClockIInv, ClockTypeOK, Stamp
    <3> QED
      BY <2>1, <2>2, <3>1 DEF Ahead
  <2> QED
    BY <2>3, <2>4
<1> QED
  BY <1>1, <1>2, <1>3 DEF ClockIInv, ClockTypeOK, Exact, Tick

LEMMA SyncIInv ==
    ASSUME ClockIInv, NEW u \in Vars, Sync(u)
    PROVE  ClockIInv'
<1>1. SyncTime(time[u], hw.low) = hw
  BY SyncExact DEF ClockIInv, ClockTypeOK, Exact
<1>2. /\ hw' = hw /\ hw \in Stamp
      /\ time' = [time EXCEPT ![u] = hw]
      /\ seen' = [seen EXCEPT ![u] = hw]
      /\ gap' = [gap EXCEPT ![u] = 0]
  BY <1>1 DEF Sync, ClockIInv, ClockTypeOK
<1>3. ClockTypeOK' /\ Exact'
  BY <1>2, ClockAssumption DEF ClockIInv, ClockTypeOK, Exact
<1>4. ASSUME NEW v \in Vars
      PROVE  Ahead(seen[v], gap[v])'
  <2>1. CASE v = u
    BY <1>2, <2>1 DEF ClockIInv, ClockTypeOK, Ahead, Stamp
  <2>2. CASE v # u
    BY <1>2, <2>2 DEF ClockIInv, ClockTypeOK, Ahead
  <2> QED
    BY <2>1, <2>2
<1> QED
  BY <1>3, <1>4 DEF ClockIInv

LEMMA NextClockIInv == ClockIInv /\ [ClockNext]_clockvars => ClockIInv'
<1> SUFFICES ASSUME ClockIInv, [ClockNext]_clockvars PROVE ClockIInv'
  OBVIOUS
<1>1. CASE Tick
  BY <1>1, TickIInv
<1>2. ASSUME NEW v \in Vars, Sync(v)
      PROVE  ClockIInv'
  BY <1>2, SyncIInv
<1>3. CASE UNCHANGED clockvars
  BY <1>3 DEF clockvars, ClockIInv, ClockTypeOK, Exact, Ahead
<1> QED
  BY <1>1, <1>2, <1>3 DEF ClockNext

\* The clock, the variables and the history keep their types.
THEOREM ClockTypeCorrect == ClockSpec => []ClockTypeOK
<1>1. ClockIInv => ClockTypeOK
  BY DEF ClockIInv
<1> QED
  BY <1>1, InitClockIInv, NextClockIInv, PTL DEF ClockSpec

\* sync_time gives the elapsed time, whatever the width of the counter.
THEOREM ClockExact == ClockSpec => []Exact
<1>1. ClockIInv => Exact
  BY DEF ClockIInv
<1> QED
  BY <1>1, InitClockIInv, NextClockIInv, PTL DEF ClockSpec

\* Synchronized times never decrease.
THEOREM ClockMonotone == ClockSpec => NeverBack
<1>1. ClockIInv /\ [ClockNext]_clockvars => [\A v \in Vars : Before(time[v], time'[v])]_clockvars
  <2> SUFFICES ASSUME ClockIInv, ClockNext, NEW v \in Vars
               PROVE  Before(time[v], time'[v])
    BY DEF clockvars
  <2>1. time[v] \in Stamp /\ hw \in Stamp /\ seen[v] = time[v]
        /\ Ahead(seen[v], gap[v]) /\ gap[v] \in 0..MaxGap
    BY DEF ClockIInv, ClockTypeOK, Exact
  <2>2. CASE Tick
    BY <2>1, <2>2 DEF Tick, Before, Stamp
  <2>3. ASSUME NEW u \in Vars, Sync(u)
        PROVE  Before(time[v], time'[v])
    <3>1. CASE u = v
      <4>1. time'[v] = SyncTime(time[v], hw.low)
        BY <2>3, <3>1 DEF Sync, ClockIInv, ClockTypeOK
      <4>2. SyncTime(time[v], hw.low) = hw
        BY <2>1, SyncExact
      <4> QED
        BY <2>1, <4>1, <4>2, ClockAssumption DEF Ahead, Before, Stamp
    <3>2. CASE u # v
      BY <2>1, <2>3, <3>2 DEF Sync, ClockIInv, ClockTypeOK, Before, Stamp
    <3> QED
      BY <3>1, <3>2
  <2> QED
    BY <2>2, <2>3 DEF ClockNext
<1> QED
  BY <1>1, InitClockIInv, NextClockIInv, PTL DEF ClockSpec, NeverBack

----------------------------------------------------------------------------
(* The radio driver.                                                        *)

\* What the running process is doing, by where it is.
Listening == {"idle", "engine", "check", "spin", "cca"}
Sending == {"stop", "clear", "pll", "start", "wait", "restart_tx", "relisten_tx"}
Reading == {"read", "restart_rx", "relisten_rx", "fetch", "restart_fetch", "relisten_fetch"}
Relistening == {"relisten_tx", "relisten_rx", "relisten_fetch", "on_listen"}

\* Where no operation has begun, the radio obeys rf2xx_on.
ListeningInv == pc \in Listening => Receiving \/ Quiet \/ (PendingPacket /\ polled)

\* A transmission keeps its state up to its end, and the interrupt masked from
\* idle() to its first bit in the air: nothing is pending then that could be
\* taken for its end.
SendingInv ==
    pc \in Sending =>
        /\ state \in {"RF_TX", "RF_TX_DONE"}
        /\ state = "RF_TX_DONE" => aired # "waiting"
        /\ pc # "stop" => chip \in {"TX_BUSY", "PLL_ON"}
        /\ pc \in {"clear", "pll", "start"} => ~irqEnabled /\ chip = "PLL_ON"
        /\ pc \in {"pll", "start"} => status = {}
        /\ pc = "wait" => irqEnabled
        /\ pc = "wait" /\ state = "RF_TX" /\ status # {} => aired # "waiting"
        /\ pc = "restart_tx" /\ state = "RF_TX" => ~irqEnabled

\* sendto waits until the frame has been sent, or has not.
WritingInv ==
    /\ pc \in {"check", "stop", "clear", "pll", "start", "wait"} => writing
    /\ WaitsForEndOfPacket

\* The other operations keep the interrupt handler out by the state they set.
OperatingInv ==
    /\ pc \in Reading => state = "RF_RX_READ"
    /\ pc \in {"on_listen", "off_idle"} => state = "RF_BUSY"
    /\ pc \in Relistening => on /\ ~irqEnabled
    /\ pc = "off_idle" => ~on

RadioInv ==
    /\ TypeOK /\ NoLostInterrupt
    /\ ListeningInv /\ SendingInv /\ WritingInv /\ OperatingInv

LEMMA InitRadioInv == Init => RadioInv
BY DEF Init, RadioInv, TypeOK, NoLostInterrupt, ListeningInv, SendingInv, WritingInv,
   OperatingInv, ProgramPoints, RadioStates, ChipStates, Fates, Expecting, Receiving,
   Quiet, PendingPacket, Listening, Sending, Reading, Relistening, WaitsForEndOfPacket

\* What the chip does by itself: what it has to say is pending afterwards.
LEMMA ChipStep ==
    ASSUME RadioInv, RxStart \/ RxEnd \/ TxEnd
    PROVE  RadioInv'
<1> USE DEF Raise, software, RadioInv, RxStart, RxEnd, TxEnd
<1>1. TypeOK'
  BY DEF TypeOK, ChipStates, Fates
<1>2. NoLostInterrupt'
  BY DEF NoLostInterrupt
<1>3. ListeningInv'
  BY DEF ListeningInv, Receiving, Quiet, PendingPacket
<1>4. SendingInv'
  BY DEF SendingInv
<1>5. WritingInv' /\ OperatingInv'
  BY DEF WritingInv, OperatingInv, WaitsForEndOfPacket
<1> QED
  BY <1>1, <1>2, <1>3, <1>4, <1>5

\* irq_handler: IRQ_STATUS is cleared whenever the state is one to expect an
\* interrupt in, before and after.
LEMMA InterruptStep ==
    ASSUME RadioInv, Interrupts
    PROVE  RadioInv'
<1> USE DEF software, RadioInv, Expecting
<1>1. CASE IrqUnexpected
  BY <1>1 DEF IrqUnexpected, TypeOK, NoLostInterrupt, ListeningInv, Receiving, Quiet,
     PendingPacket, SendingInv, WritingInv, OperatingInv, WaitsForEndOfPacket
<1>2. CASE IrqHandler
  <2> USE <1>2 DEF IrqHandler
  <2>1. TypeOK' /\ NoLostInterrupt'
    BY DEF TypeOK, RadioStates, ChipStates, Fates, NoLostInterrupt
  <2>2. ListeningInv'
    BY DEF ListeningInv, Receiving, Quiet, PendingPacket, Listening
  <2>3. SendingInv'
    BY DEF SendingInv, Sending, OperatingInv, Relistening
  <2>4. WritingInv'
    BY DEF WritingInv, WaitsForEndOfPacket, SendingInv, Sending
  <2>5. OperatingInv'
    BY DEF OperatingInv, Reading, Relistening, SendingInv, Sending
  <2> QED
    BY <2>1, <2>2, <2>3, <2>4, <2>5
<1> QED
  BY <1>1, <1>2 DEF Interrupts

\* restart of the driver, at the end of an operation: the chip is stopped.
LEMMA RestartIdleStep ==
    ASSUME RadioInv, NEW from, NEW relisten, NEW done, RestartIdle(from, relisten, done),
           \/ <<from, relisten, done>> = <<"restart_tx", "relisten_tx", "spin">>
           \/ <<from, relisten, done>> = <<"restart_fetch", "relisten_fetch", "engine">>
           \/ <<from, relisten, done>> = <<"restart_rx", "relisten_rx", "idle">>
    PROVE  RadioInv'
<1> USE DEF RestartIdle, Goto, Idle, RadioInv
<1>1. TypeOK'
  BY DEF TypeOK, ProgramPoints, RadioStates, ChipStates
<1>2. NoLostInterrupt'
  BY DEF NoLostInterrupt
<1>3. ListeningInv'
  BY DEF ListeningInv, Quiet, Listening
<1>4. SendingInv'
  BY DEF SendingInv, Sending
<1>5. WritingInv' /\ OperatingInv'
  BY DEF WritingInv, OperatingInv, WaitsForEndOfPacket, Reading, Relistening
<1> QED
  BY <1>1, <1>2, <1>3, <1>4, <1>5

\* ...and listens again.
LEMMA RestartListenStep ==
    ASSUME RadioInv, NEW from, NEW to, RestartListen(from, to),
           \/ from = "relisten_tx" /\ to = "spin"
           \/ from \in {"on_listen", "relisten_fetch"} /\ to = "engine"
           \/ from = "relisten_rx" /\ to = "idle"
    PROVE  RadioInv'
<1> USE DEF RestartListen, Goto, Listen, RadioInv
<1>1. TypeOK' /\ NoLostInterrupt'
  BY DEF TypeOK, ProgramPoints, RadioStates, ChipStates, NoLostInterrupt
<1>2. on
  BY DEF OperatingInv, Relistening
<1>3. ListeningInv'
  BY <1>2 DEF ListeningInv, Receiving, Listening
<1>4. SendingInv' /\ WritingInv' /\ OperatingInv'
  BY DEF SendingInv, Sending, WritingInv, OperatingInv, WaitsForEndOfPacket, Reading, Relistening
<1> QED
  BY <1>1, <1>3, <1>4

\* sendto up to the end of the transmission.
LEMMA TransmitStep ==
    ASSUME RadioInv, Transmit
    PROVE  RadioInv'
<1> USE DEF Goto, RadioInv
<1>1. CASE TransmitStarts
  <2> USE <1>1 DEF TransmitStarts, interrupt
  <2>1. TypeOK' /\ NoLostInterrupt'
    BY DEF TypeOK, ProgramPoints, RadioStates, NoLostInterrupt, Expecting, ListeningInv,
       Listening, Receiving, Quiet, PendingPacket
  <2>2. ListeningInv' /\ OperatingInv' /\ WritingInv'
    BY DEF ListeningInv, Listening, OperatingInv, Reading, Relistening, WritingInv,
       WaitsForEndOfPacket
  <2>3. SendingInv'
    BY DEF SendingInv, Sending, ListeningInv, Listening, Receiving, Quiet, PendingPacket
  <2> QED
    BY <2>1, <2>2, <2>3
<1>2. CASE TransmitCollides
  BY <1>2 DEF TransmitCollides, interrupt, TypeOK, ProgramPoints, NoLostInterrupt,
     ListeningInv, Listening, Receiving, Quiet, PendingPacket, SendingInv, Sending,
     WritingInv, OperatingInv, WaitsForEndOfPacket, Reading, Relistening
<1>3. CASE TransmitStops \/ TransmitClears
  <2> USE <1>3 DEF TransmitStops, TransmitClears, Idle
  <2>1. TypeOK' /\ NoLostInterrupt'
    BY DEF TypeOK, ProgramPoints, ChipStates, NoLostInterrupt
  <2>2. ListeningInv' /\ OperatingInv' /\ WritingInv'
    BY DEF ListeningInv, Listening, OperatingInv, Reading, Relistening, WritingInv,
       WaitsForEndOfPacket
  <2>3. SendingInv'
    BY DEF SendingInv, Sending
  <2> QED
    BY <2>1, <2>2, <2>3
<1>4. CASE TransmitReady \/ TransmitFails \/ TransmitSends \/ TransmitEnds
  <2> USE <1>4 DEF TransmitReady, TransmitFails, TransmitSends, TransmitEnds, interrupt
  <2>1. TypeOK' /\ NoLostInterrupt'
    BY DEF TypeOK, ProgramPoints, ChipStates, NoLostInterrupt, SendingInv, Sending
  <2>2. ListeningInv' /\ OperatingInv'
    BY DEF ListeningInv, Listening, OperatingInv, Reading, Relistening
  <2>3. WritingInv'
    BY DEF WritingInv, WaitsForEndOfPacket, SendingInv, Sending
  <2>4. SendingInv'
    BY DEF SendingInv, Sending
  <2> QED
    BY <2>1, <2>2, <2>3, <2>4
<1>5. CASE SendReturned
  BY <1>5 DEF SendReturned, interrupt, TypeOK, ProgramPoints, NoLostInterrupt,
     ListeningInv, Listening, Receiving, Quiet, PendingPacket, SendingInv, Sending,
     WritingInv, OperatingInv, WaitsForEndOfPacket, Reading, Relistening
<1> QED
  BY <1>1, <1>2, <1>3, <1>4, <1>5, RestartIdleStep, RestartListenStep DEF Transmit

\* The other operations, and the scheduler.
LEMMA OperationStep ==
    ASSUME RadioInv, EngineRuns \/ EngineYields \/ SendTo \/ Operations \/ Operate
    PROVE  RadioInv'
<1> USE DEF Goto, RadioInv
<1>1. CASE EngineRuns \/ EngineYields \/ SendTo
  <2> USE <1>1 DEF EngineRuns, EngineYields, SendTo, interrupt
  <2>1. TypeOK'
    BY DEF TypeOK, ProgramPoints, Fates
  <2>2. NoLostInterrupt'
    BY DEF NoLostInterrupt
  <2>3. ListeningInv'
    BY DEF ListeningInv, Listening, Receiving, Quiet, PendingPacket
  <2>4. SendingInv' /\ WritingInv' /\ OperatingInv'
    BY DEF SendingInv, Sending, WritingInv, WaitsForEndOfPacket, OperatingInv, Reading,
       Relistening
  <2> QED
    BY <2>1, <2>2, <2>3, <2>4
<1>2. CASE SwitchOn \/ SwitchOff
  <2> USE <1>2 DEF SwitchOn, SwitchOff, interrupt
  <2>1. TypeOK'
    BY DEF TypeOK, ProgramPoints, RadioStates
  <2>2. NoLostInterrupt'
    BY DEF NoLostInterrupt, Expecting
  <2>3. ListeningInv'
    BY DEF ListeningInv, Listening, Receiving, Quiet, PendingPacket
  <2>4. SendingInv' /\ WritingInv' /\ OperatingInv'
    BY DEF SendingInv, Sending, WritingInv, WaitsForEndOfPacket, OperatingInv, Reading,
       Relistening, ListeningInv, Listening, Receiving, Quiet, PendingPacket
  <2> QED
    BY <2>1, <2>2, <2>3, <2>4
<1>3. CASE Fetch \/ AssessChannel \/ Fetched \/ ChannelAssessed
  <2> USE <1>3 DEF Fetch, AssessChannel, Fetched, ChannelAssessed, interrupt
  <2>1. TypeOK'
    BY DEF TypeOK, ProgramPoints, RadioStates
  <2>2. NoLostInterrupt'
    BY DEF NoLostInterrupt, Expecting
  <2>3. ListeningInv'
    BY DEF ListeningInv, Listening, Receiving, Quiet, PendingPacket
  <2>4. SendingInv' /\ WritingInv' /\ OperatingInv'
    BY DEF SendingInv, Sending, WritingInv, WaitsForEndOfPacket, OperatingInv, Reading,
       Relistening
  <2> QED
    BY <2>1, <2>2, <2>3, <2>4
<1>4. CASE SwitchedOff
  BY <1>4 DEF SwitchedOff, Idle, TypeOK, ProgramPoints, RadioStates, ChipStates,
     NoLostInterrupt, ListeningInv, Listening, Quiet, SendingInv, Sending, WritingInv,
     OperatingInv, WaitsForEndOfPacket, Reading, Relistening
<1> QED
  BY <1>1, <1>2, <1>3, <1>4, RestartIdleStep, RestartListenStep DEF Operations, Operate

\* The driver's process.
LEMMA DriverStep ==
    ASSUME RadioInv, Driver
    PROVE  RadioInv'
<1> USE DEF Goto, RadioInv
<1>1. CASE DriverRuns \/ DriverReads
  <2> USE <1>1 DEF DriverRuns, DriverReads, interrupt
  <2>1. TypeOK'
    BY DEF TypeOK, ProgramPoints, RadioStates
  <2>2. NoLostInterrupt'
    BY DEF NoLostInterrupt, Expecting
  <2>3. ListeningInv'
    BY DEF ListeningInv, Listening, Receiving, Quiet, PendingPacket
  <2>4. SendingInv' /\ WritingInv' /\ OperatingInv'
    BY DEF SendingInv, Sending, WritingInv, WaitsForEndOfPacket, OperatingInv, Reading,
       Relistening
  <2> QED
    BY <2>1, <2>2, <2>3, <2>4
<1> QED
  BY <1>1, RestartIdleStep, RestartListenStep DEF Driver

LEMMA NextRadioInv == RadioInv /\ [Next]_vars => RadioInv'
<1> SUFFICES ASSUME RadioInv, [Next]_vars PROVE RadioInv'
  OBVIOUS
<1>1. CASE UNCHANGED vars
  BY <1>1 DEF vars, RadioInv, TypeOK, NoLostInterrupt, ListeningInv, Receiving, Quiet,
     PendingPacket, SendingInv, WritingInv, OperatingInv, WaitsForEndOfPacket
<1> QED
  BY <1>1, ChipStep, InterruptStep, TransmitStep, OperationStep, DriverStep DEF Next

LEMMA RadioInvHolds == Spec => []RadioInv
<1> QED
  BY InitRadioInv, NextRadioInv, PTL DEF Spec

\* The radio driver keeps its types.
THEOREM RadioTypeCorrect == Spec => []TypeOK
<1>1. RadioInv => TypeOK
  BY DEF RadioInv
<1> QED
  BY <1>1, RadioInvHolds, PTL

\* Whatever the chip receives and when, an interrupt the driver waits for is
\* pending.
THEOREM InterruptsArrive == Spec => []NoLostInterrupt
<1>1. RadioInv => NoLostInterrupt
  BY DEF RadioInv
<1> QED
  BY <1>1, RadioInvHolds, PTL

\* Between two operations, the radio does what rf2xx_on says.
THEOREM PowerCorrect == Spec => []PowerObeyed
<1>1. RadioInv => PowerObeyed
  BY DEF RadioInv, ListeningInv, Listening, PowerObeyed
<1> QED
  BY <1>1, RadioInvHolds, PTL

\* irq_handler and the code it interrupts never use the SPI bus together: the
\* interrupt is masked, or the state is none irq_handler looks at the chip in.
THEOREM BusExclusive == Spec => []SpiExclusive
<1>1. RadioInv => SpiExclusive
  BY DEF RadioInv, SpiExclusive, SendingInv, Sending, OperatingInv, Reading, Relistening, Expecting
<1> QED
  BY <1>1, RadioInvHolds, PTL

\* sendto is told that the transmission is done when the packet has been sent,
\* or a reception was taken for it.
THEOREM EndIsWaitedFor == Spec => []WaitsForEndOfPacket
<1>1. RadioInv => WaitsForEndOfPacket
  BY DEF RadioInv, WritingInv
<1> QED
  BY <1>1, RadioInvHolds, PTL

=============================================================================
