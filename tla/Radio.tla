-------------------------------- MODULE Radio --------------------------------
(****************************************************************************)
(* The radio driver, fich_Compl/radio-rf2xx.c: the operations of            *)
(* rf2xx_driver, called by the engine (sendto of ConMsg.c) or another user  *)
(* of the radio, the process of the driver, and irq_handler.                *)
(*                                                                          *)
(* Contiki processes are cooperative: they share one program counter, and   *)
(* only irq_handler comes in between their steps.  A step ends where an     *)
(* interrupt matters; what runs in a critical section, or with the radio    *)
(* interrupt masked, is one step.  The chip receives whenever it listens,   *)
(* since anybody may send.                                                  *)
(****************************************************************************)
EXTENDS Integers

VARIABLES
    pc,          \* where the running process is; "idle" in the scheduler
    state,       \* rf2xx_state
    on,          \* rf2xx_on
    writing,     \* conmsg->writing_
    polled,      \* process_poll(&rf2xx_process) was called
    irqEnabled,  \* the interrupt line of the radio is not masked
    edge,        \* an interrupt is pending
    status,      \* the IRQ_STATUS register of the chip
    chip,        \* what the chip is doing
    aired        \* history: what became of the frame of the current sendto

vars == <<pc, state, on, writing, polled, irqEnabled, edge, status, chip, aired>>

ProgramPoints == {"idle", "engine", "check", "stop", "clear", "pll", "start",
                  "wait", "restart_tx", "relisten_tx", "spin",
                  "read", "restart_rx", "relisten_rx",
                  "fetch", "restart_fetch", "relisten_fetch",
                  "on_listen", "off_idle", "cca"}

RadioStates == {"RF_IDLE", "RF_BUSY", "RF_TX", "RF_TX_DONE",
                "RF_LISTEN", "RF_RX", "RF_RX_DONE", "RF_RX_READ"}

ChipStates == {"PLL_ON", "RX_ON", "RX_BUSY", "TX_BUSY"}

\* "cut": a reception ended before the transmission began, and was taken for
\* the end of the transmission.
Fates == {"waiting", "whole", "cut"}

\* rf2xx_wr_init: the chip is reset and idle, its interrupt is masked, and the
\* radio is off.  The first operation of start() in ConMsg.c is to turn it on.
Init ==
    /\ pc = "idle" /\ state = "RF_IDLE" /\ on = FALSE
    /\ writing = FALSE /\ polled = FALSE
    /\ irqEnabled = FALSE /\ edge = FALSE /\ status = {} /\ chip = "PLL_ON"
    /\ aired = "waiting"

Goto(from, to) == pc = from /\ pc' = to

\* States in which irq_handler looks at the chip.
Expecting == {"RF_TX", "RF_LISTEN", "RF_RX"}

\* rf2xx_wr_pending_packet.
PendingPacket == state = "RF_RX_DONE"

software == <<pc, on, writing, polled>>
interrupt == <<irqEnabled, edge, status>>

----------------------------------------------------------------------------
(* The chip and the interrupt.                                              *)

\* The line rises when the first bit of IRQ_STATUS is set; a rise while the
\* line is masked is lost.
Raise(bit) ==
    /\ status' = status \cup {bit}
    /\ edge' = (edge \/ (irqEnabled /\ status = {}))
    /\ UNCHANGED irqEnabled

RxStart ==
    /\ chip = "RX_ON" /\ chip' = "RX_BUSY"
    /\ Raise("RX_START")
    /\ UNCHANGED <<software, state, aired>>

RxEnd ==
    /\ chip = "RX_BUSY" /\ chip' = "RX_ON"
    /\ Raise("TRX_END")
    /\ UNCHANGED <<software, state, aired>>

TxEnd ==
    /\ chip = "TX_BUSY" /\ chip' = "PLL_ON"
    /\ Raise("TRX_END")
    /\ aired' = "whole"
    /\ UNCHANGED <<software, state>>

\* irq_handler, in a state it does not expect an interrupt in.
IrqUnexpected ==
    /\ edge /\ irqEnabled /\ state \notin Expecting
    /\ edge' = FALSE
    /\ UNCHANGED <<software, state, irqEnabled, status, chip, aired>>

\* irq_handler otherwise: IRQ_STATUS is read, which clears it; the end of a
\* packet is taken for the end of the transmission when there is one.
IrqHandler ==
    /\ edge /\ irqEnabled /\ state \in Expecting
    /\ edge' = FALSE /\ status' = {}
    /\ IF "TRX_END" \in status
       THEN IF state = "RF_TX"
            THEN /\ state' = "RF_TX_DONE"
                 /\ aired' = IF pc = "stop" THEN "cut" ELSE aired
                 /\ UNCHANGED <<polled, chip>>
            ELSE /\ state' = "RF_RX_DONE"
                 /\ chip' = "PLL_ON"
                 /\ polled' = TRUE
                 /\ UNCHANGED aired
       ELSE /\ state' = IF "RX_START" \in status /\ state = "RF_LISTEN"
                        THEN "RF_RX" ELSE state
            /\ UNCHANGED <<polled, chip, aired>>
    /\ UNCHANGED <<pc, on, writing, irqEnabled>>

----------------------------------------------------------------------------
(* idle, listen and restart of the driver.                                  *)

\* Faulty: the interrupt is not masked.
FaultyIdleUnmasked == chip' = "PLL_ON" /\ UNCHANGED interrupt

\* idle: the interrupt is masked and the chip forced out of what it does.
Idle ==
    /\ irqEnabled' = FALSE /\ edge' = FALSE
    /\ chip' = "PLL_ON"
    /\ UNCHANGED status

\* Faulty: IRQ_STATUS is not cleared.
FaultyListen ==
    /\ irqEnabled' = TRUE /\ edge' = FALSE
    /\ state' = "RF_LISTEN" /\ chip' = "RX_ON"
    /\ UNCHANGED status

\* listen: IRQ_STATUS is cleared, the interrupt unmasked, reception started.
Listen ==
    /\ irqEnabled' = TRUE /\ edge' = FALSE /\ status' = {}
    /\ state' = "RF_LISTEN" /\ chip' = "RX_ON"

\* Faulty: the radio listens again although it has been switched off.
FaultyRestartIdle(from, relisten, done) ==
    /\ Goto(from, relisten)
    /\ Idle
    /\ UNCHANGED <<state, on, writing, polled, aired>>

\* restart: idle, then listen if the radio is on.
RestartIdle(from, relisten, done) ==
    /\ Goto(from, IF on THEN relisten ELSE done)
    /\ Idle
    /\ state' = IF on THEN state ELSE "RF_IDLE"
    /\ UNCHANGED <<on, writing, polled, aired>>

RestartListen(from, to) ==
    /\ Goto(from, to)
    /\ Listen
    /\ UNCHANGED <<on, writing, polled, aired>>

----------------------------------------------------------------------------
(* The engine: sendto, rf2xx_wr_send, rf2xx_wr_transmit.                    *)

\* The scheduler serves the polled driver first.
EngineRuns ==
    /\ ~polled /\ Goto("idle", "engine")
    /\ UNCHANGED <<state, on, writing, polled, interrupt, chip, aired>>

EngineYields ==
    /\ Goto("engine", "idle")
    /\ UNCHANGED <<state, on, writing, polled, interrupt, chip, aired>>

SendTo ==
    /\ Goto("engine", "check")
    /\ writing' = TRUE /\ aired' = "waiting"
    /\ UNCHANGED <<state, on, polled, interrupt, chip>>

\* The critical section: from then on the state is RF_TX.
TransmitStarts ==
    /\ state \in {"RF_LISTEN", "RF_IDLE"}
    /\ Goto("check", IF state = "RF_LISTEN" THEN "stop" ELSE "clear")
    /\ state' = "RF_TX"
    /\ UNCHANGED <<on, writing, polled, interrupt, chip, aired>>

\* RADIO_TX_COLLISION: back to sendto, which does not look at the result.
TransmitCollides ==
    /\ state \notin {"RF_LISTEN", "RF_IDLE"}
    /\ Goto("check", "spin")
    /\ UNCHANGED <<state, on, writing, polled, interrupt, chip, aired>>

TransmitStops ==
    /\ Goto("stop", "clear")
    /\ Idle
    /\ UNCHANGED <<state, on, writing, polled, aired>>

TransmitClears ==
    /\ Goto("clear", "pll")
    /\ status' = {}
    /\ UNCHANGED <<state, on, writing, polled, irqEnabled, edge, chip, aired>>

\* The chip is ready, or is not within a millisecond: RADIO_TX_ERR.
TransmitReady ==
    /\ Goto("pll", "start")
    /\ UNCHANGED <<state, on, writing, polled, interrupt, chip, aired>>

TransmitFails ==
    /\ Goto("pll", "restart_tx")
    /\ UNCHANGED <<state, on, writing, polled, interrupt, chip, aired>>

TransmitSends ==
    /\ Goto("start", "wait")
    /\ irqEnabled' = TRUE /\ chip' = "TX_BUSY"
    /\ UNCHANGED <<state, on, writing, polled, edge, status, aired>>

\* Faulty: the end of the packet is not waited for.
FaultyTransmitEnds ==
    /\ Goto("wait", "restart_tx")
    /\ writing' = FALSE
    /\ UNCHANGED <<state, on, polled, interrupt, chip, aired>>

\* The end of the packet: usr_radio_tx_done.
TransmitEnds ==
    /\ state # "RF_TX" /\ Goto("wait", "restart_tx")
    /\ writing' = FALSE
    /\ UNCHANGED <<state, on, polled, interrupt, chip, aired>>

\* while (conmsg->writing_) in sendto.
SendReturned ==
    /\ ~writing /\ Goto("spin", "engine")
    /\ UNCHANGED <<state, on, writing, polled, interrupt, chip, aired>>

Transmit ==
    \/ TransmitStarts \/ TransmitCollides \/ TransmitStops \/ TransmitClears
    \/ TransmitReady \/ TransmitFails \/ TransmitSends \/ TransmitEnds
    \/ RestartIdle("restart_tx", "relisten_tx", "spin")
    \/ RestartListen("relisten_tx", "spin")
    \/ SendReturned

----------------------------------------------------------------------------
(* The other operations of rf2xx_driver.  Those which only report do not    *)
(* change the state.                                                        *)

\* rf2xx_wr_on, up to its listen().
SwitchOn ==
    /\ ~on /\ on' = TRUE
    /\ IF state = "RF_IDLE"
       THEN Goto("engine", "on_listen") /\ state' = "RF_BUSY"
       ELSE Goto("engine", "engine") /\ UNCHANGED state
    /\ UNCHANGED <<writing, polled, interrupt, chip, aired>>

\* rf2xx_wr_off, up to its idle(); a reception or a received frame is left to
\* restart.
SwitchOff ==
    /\ on /\ on' = FALSE
    /\ IF state = "RF_LISTEN"
       THEN Goto("engine", "off_idle") /\ state' = "RF_BUSY"
       ELSE Goto("engine", "engine") /\ UNCHANGED state
    /\ UNCHANGED <<writing, polled, interrupt, chip, aired>>

SwitchedOff ==
    /\ Goto("off_idle", "engine")
    /\ Idle /\ state' = "RF_IDLE"
    /\ UNCHANGED <<on, writing, polled, aired>>

\* rf2xx_wr_read takes the frame before the driver's process does.
Fetch ==
    /\ PendingPacket /\ state' = "RF_RX_READ"
    /\ Goto("engine", "fetch")
    /\ UNCHANGED <<on, writing, polled, interrupt, chip, aired>>

Fetched ==
    /\ Goto("fetch", "restart_fetch")
    /\ UNCHANGED <<state, on, writing, polled, interrupt, chip, aired>>

\* rf2xx_wr_channel_clear, which waits for the chip or for a reception.
AssessChannel ==
    /\ state = "RF_LISTEN" /\ Goto("engine", "cca")
    /\ UNCHANGED <<state, on, writing, polled, interrupt, chip, aired>>

ChannelAssessed ==
    /\ Goto("cca", "engine")
    /\ UNCHANGED <<state, on, writing, polled, interrupt, chip, aired>>

Operations == SwitchOn \/ SwitchOff \/ Fetch \/ AssessChannel

Operate ==
    \/ RestartListen("on_listen", "engine") \/ SwitchedOff
    \/ Fetched \/ RestartIdle("restart_fetch", "relisten_fetch", "engine")
    \/ RestartListen("relisten_fetch", "engine")
    \/ ChannelAssessed

----------------------------------------------------------------------------
(* The driver's process.                                                    *)

\* Faulty: the process looks for a reception in progress.
FaultyDriverRuns ==
    /\ polled /\ polled' = FALSE
    /\ IF state = "RF_RX"
       THEN Goto("idle", "read") /\ state' = "RF_RX_READ"
       ELSE Goto("idle", "idle") /\ UNCHANGED state
    /\ UNCHANGED <<on, writing, interrupt, chip, aired>>

DriverRuns ==
    /\ polled /\ polled' = FALSE
    /\ IF state = "RF_RX_DONE"
       THEN Goto("idle", "read") /\ state' = "RF_RX_READ"
       ELSE Goto("idle", "idle") /\ UNCHANGED state
    /\ UNCHANGED <<on, writing, interrupt, chip, aired>>

\* Faulty: the radio is not restarted.
FaultyDriverReads ==
    /\ Goto("read", "idle")
    /\ UNCHANGED <<state, on, writing, polled, interrupt, chip, aired>>

\* The frame goes to the ring of buffers (module ConMsg), or is dropped.
DriverReads ==
    /\ Goto("read", "restart_rx")
    /\ UNCHANGED <<state, on, writing, polled, interrupt, chip, aired>>

Driver ==
    \/ DriverRuns \/ DriverReads
    \/ RestartIdle("restart_rx", "relisten_rx", "idle")
    \/ RestartListen("relisten_rx", "idle")

Interrupts == IrqUnexpected \/ IrqHandler

Next ==
    \/ EngineRuns \/ EngineYields \/ SendTo \/ Transmit \/ Driver
    \/ Operations \/ Operate
    \/ Interrupts \/ RxStart \/ RxEnd \/ TxEnd

\* The processor runs the process it gave control to; the engine, which calls
\* the driver a few times in a call of loop(), yields in the end; interrupts
\* are served, and what the chip began it ends.
Fairness ==
    /\ SF_vars(EngineYields) /\ WF_vars(Transmit) /\ WF_vars(Operate)
    /\ WF_vars(Driver) /\ WF_vars(Interrupts)
    /\ WF_vars(RxEnd) /\ WF_vars(TxEnd)

Spec == Init /\ [][Next]_vars /\ Fairness

----------------------------------------------------------------------------
(* Properties.                                                              *)

TypeOK ==
    /\ pc \in ProgramPoints /\ state \in RadioStates /\ chip \in ChipStates
    /\ on \in BOOLEAN /\ writing \in BOOLEAN /\ polled \in BOOLEAN
    /\ irqEnabled \in BOOLEAN /\ edge \in BOOLEAN /\ aired \in Fates
    /\ status \subseteq {"RX_START", "TRX_END"}

\* No interrupt is lost: what the chip has to say, while the driver listens or
\* transmits, is pending.
NoLostInterrupt == status # {} /\ irqEnabled /\ state \in Expecting => edge

\* Between two operations the radio does what rf2xx_on says.  On, it receives
\* with its interrupt on; off, it is quiet, unless a reception which began
\* before goes on.  Or a frame waits, and the driver's process has been told.
Receiving ==
    /\ irqEnabled /\ chip \in {"RX_ON", "RX_BUSY"}
    /\ state \in (IF on THEN {"RF_LISTEN", "RF_RX"} ELSE {"RF_RX"})
Quiet == ~on /\ state = "RF_IDLE" /\ ~irqEnabled /\ chip = "PLL_ON"
PowerObeyed ==
    pc \in {"idle", "engine"} => Receiving \/ Quiet \/ (PendingPacket /\ polled)

\* irq_handler never uses the SPI bus while the code it interrupts does; this
\* is what the list of states at its beginning is for.
SpiExclusive ==
    pc \in {"clear", "pll", "start", "read", "relisten_tx", "relisten_rx",
            "fetch", "relisten_fetch", "on_listen"} =>
        ~(edge /\ irqEnabled /\ state \in Expecting)

\* rf2xx_wr_transmit says "Wait until the end of the packet": when it tells
\* sendto that the transmission is done, the packet has been sent, except when
\* a reception ended after the critical section and before idle().
WaitsForEndOfPacket == pc = "restart_tx" /\ ~writing => aired # "waiting"

\* Nothing but sendto, for ever waiting for the end of a transmission that has
\* not been made, stops the driver.
Stuck == pc = "spin" /\ writing

\* A received frame is read, and the radio listens again or is idle.
ReceptionProgresses ==
    PendingPacket ~> state \in {"RF_LISTEN", "RF_IDLE"} \/ Stuck

\* A radio which is switched off, and not on again, becomes quiet, whatever was
\* going on.
OffTakesEffect == ~on ~> Quiet \/ on \/ Stuck

\* sendto returns, so that the engine goes on.
SendReturns == (pc = "check") ~> (pc = "engine")

=============================================================================
