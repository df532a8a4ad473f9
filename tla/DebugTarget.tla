---------------------------- MODULE DebugTarget ----------------------------
(***************************************************************************)
(* The target side of the debug interface: the JTAG to DMI bridge of       *)
(* dmi_dtm_xilinx.vhdl with its two clock domains, the DMI interconnect of *)
(* soc.vhdl, and its slaves, wishbone_debug_master.vhdl in front of the    *)
(* memory and the registers and the log of core_debug.vhdl.  SysClk is a   *)
(* system clock, JtagTick a JTAG clock; they are not related.  Widths are  *)
(* constants: DBITS stands for 64, LOGBITS for the 32 of the log address.  *)
(***************************************************************************)
EXTENDS DebugRegs

CONSTANTS WORDS,                      \* words of memory
          LOG_LENGTH, LOG_INDEX_BITS,
          NLOG                        \* bound: entries the core logs

VARIABLES
    shiftr, request, jtag_req, ack0, ack1,   \* bridge, JTAG clock
    req0, req1,                              \* bridge, system clock
    wb,      \* debug master
    core,    \* registers of core_debug, and the steps the core was told to make
    log,     \* log RAM, write pointer, entries written
    mem,     \* word index -> word
    halted   \* the simulation was told to stop

dtmVars == <<shiftr, request, jtag_req, ack0, ack1>>
sysVars == <<req0, req1, wb, core, log, mem, halted>>
targetVars == <<dtmVars, sysVars>>

\* What register i of the core holds, and doubleword j of log entry e.
RegValue(i) == 3 * i + 1
select_dword(e, j) == 4 * e + j

TargetInit ==
    /\ shiftr = Bits(0, MSGBITS) /\ request = [op |-> NOP, addr |-> 0, data |-> 0]
    /\ jtag_req = FALSE /\ ack0 = FALSE /\ ack1 = FALSE
    /\ req0 = FALSE /\ req1 = FALSE /\ halted = FALSE
    /\ wb = [state |-> "IDLE", addr |-> 0, ctrl |-> 0, latch |-> 0,
             do_inc |-> FALSE, slow |-> FALSE]
    /\ \E s \in BOOLEAN :  \* a core that runs and logs, or one that has ended
         core = [req_1 |-> FALSE, stopping |-> s, stopped |-> s,
                 terminated |-> s, steps |-> 0,
                 index |-> 0, greq |-> FALSE, gack |-> FALSE, late |-> FALSE,
                 gdata |-> 0,
                 addr |-> IF s THEN LOG_STOP ELSE 0, data |-> 0, fetch |-> 0,
                 rdlog |-> FALSE, rdlog_1 |-> FALSE, trigger |-> 0, mtrigger |-> 0,
                 delay |-> FALSE, was_log |-> FALSE, was_mem |-> FALSE]
    /\ log = [ram |-> [i \in 0 .. LOG_LENGTH - 1 |-> i + 1], ptr |-> 1, n |-> 0]
    /\ mem = [i \in 0 .. WORDS - 1 |-> 7 - i]

-----------------------------------------------------------------------------
(* DMI interconnect: select, acknowledge and read data.                    *)

dmi_wr == request.op = WR
ToWb == req1 /\ request.addr < 4
ToCore == req1 /\ request.addr \div 16 = 1

\* The master acknowledges data accesses once the memory has, the register
\* file those of GSPR_DATA; everything else is acknowledged at once.
dmi_ack ==
    CASE request.addr = WB_DATA -> req1 /\ wb.state = "DMI_WAIT"
      [] request.addr = GSPR_DATA -> core.gack
      [] OTHER -> req1

log_write_addr == 2^LOG_INDEX_BITS + log.ptr

stat_reg == (IF core.terminated THEN 4 ELSE 0) + (IF core.stopped THEN 2 ELSE 0)
            + (IF core.stopping THEN 1 ELSE 0)

dmi_din ==
    CASE request.addr = WB_ADDR -> wb.addr
      [] request.addr = WB_DATA -> wb.latch
      [] request.addr = WB_CTRL -> wb.ctrl
      [] request.addr = CORE_STAT -> stat_reg
      [] request.addr = GSPR_DATA -> core.gdata
      [] request.addr = LOG_ADDR -> log_write_addr * 2^LOGBITS + core.addr
      [] request.addr = LOG_DATA -> core.data
      [] request.addr = LOG_TRIGGER -> core.trigger
      [] request.addr = LOG_MTRIGGER -> core.mtrigger
      [] request.addr < 4 \/ request.addr \div 16 = 1 -> 0
      [] OTHER -> 2^DBITS - 1  \* no slave

-----------------------------------------------------------------------------
(* JTAG clock domain of the bridge.                                        *)

\* Mutant: a request that is under way does not count as busy.
jtag_bsy_acked == ack1

jtag_bsy == jtag_req \/ ack1

\* Every JTAG clock: the acknowledge is synchronised, and a request that has
\* been acknowledged ends, with the data of a read.
JtagTick ==
    /\ ack0' = dmi_ack /\ ack1' = ack0
    /\ UNCHANGED sysVars

Completes == jtag_req /\ ack1
Completed == IF Completes /\ request.op = RD
             THEN [request EXCEPT !.data = dmi_din] ELSE request

Tck ==
    /\ JtagTick
    /\ jtag_req' = (jtag_req /\ ~ack1) /\ request' = Completed
    /\ UNCHANGED shiftr

\* Capture: the latch and the status go to the shift register.
Capture ==
    /\ JtagTick
    /\ jtag_req' = (jtag_req /\ ~ack1) /\ request' = Completed
    /\ shiftr' = Bits(IF jtag_bsy THEN BSY ELSE 0, 2)
                 \o Bits(request.data, DBITS) \o Bits(request.addr, ABITS)

\* The shift register after the bits of msg went in, and what came out.
ShiftedIn(msg) == SubSeq(shiftr \o msg, Len(msg) + 1, Len(msg) + MSGBITS)
ShiftedOut(msg) == SubSeq(shiftr \o msg, 1, Len(msg))

Shift(msg) ==
    /\ JtagTick
    /\ jtag_req' = (jtag_req /\ ~ack1) /\ request' = Completed
    /\ shiftr' = ShiftedIn(msg)

ShiftOp == Number(SubSeq(shiftr, 1, 2))

\* Update: a request is latched if the bridge is not busy.
Update ==
    /\ JtagTick
    /\ IF ShiftOp \in {RD, WR} /\ ~jtag_bsy
       THEN /\ request' = [op |-> ShiftOp,
                           data |-> Number(SubSeq(shiftr, 3, 2 + DBITS)),
                           addr |-> Number(SubSeq(shiftr, 3 + DBITS, MSGBITS))]
            /\ jtag_req' = TRUE
       ELSE jtag_req' = (jtag_req /\ ~ack1) /\ request' = Completed
    /\ shiftr' = IF ShiftOp \in {RD, WR}
                 THEN Bits(BSY, 2) \o SubSeq(shiftr, 3, MSGBITS) ELSE shiftr

-----------------------------------------------------------------------------
(* System clock domain.                                                    *)

IncBy == 2^((wb.ctrl \div 512) % 4)

AutoIncrement == (wb.addr + IncBy) % 2^DBITS

\* The debug master: a data access is one Wishbone cycle, of one or two clocks,
\* after which the address moves; the next one waits for the request to end.
WbClock ==
    LET starts == wb.state = "IDLE" /\ ToWb /\ request.addr = WB_DATA
        acked == wb.state = "WB_CYCLE" /\ ~wb.slow
        word == wb.addr \div 8
        writes(a) == ToWb /\ dmi_wr /\ request.addr = a
    IN  /\ \E late \in BOOLEAN : wb' =
             [state |-> CASE starts -> "WB_CYCLE"
                          [] acked -> "DMI_WAIT"
                          [] wb.state = "DMI_WAIT" /\ ~ToWb -> "IDLE"
                          [] OTHER -> wb.state,
              addr |-> IF wb.do_inc THEN AutoIncrement
                       ELSE IF writes(WB_ADDR) THEN request.data ELSE wb.addr,
              ctrl |-> IF ~wb.do_inc /\ writes(WB_CTRL)
                       THEN request.data % 2048 ELSE wb.ctrl,
              latch |-> IF acked /\ ~dmi_wr THEN mem[word] ELSE wb.latch,
              do_inc |-> acked /\ BitAt(wb.ctrl, 8) = 1,
              slow |-> starts /\ late]
        /\ mem' = IF acked /\ dmi_wr THEN [mem EXCEPT ![word] = request.data]
                  ELSE mem

\* core_debug: the register file answers at once or, its read port being busy,
\* a clock later; registers are written in the first clock of a request, the log
\* address moves after the last clock of a read of LOG_DATA, and log data is
\* there three clocks after the address.
CoreClock ==
    LET rising == ToCore /\ ~core.req_1
        writes(a) == rising /\ dmi_wr /\ request.addr = a
        ctrl(b) == writes(CORE_CTRL) /\ BitAt(request.data, b) = 1
        next == ~rising /\ ~core.rdlog /\ core.rdlog_1
        span == 4 * LOG_LENGTH
    IN  \E late \in BOOLEAN :
        /\ late => core.greq /\ ~core.gack /\ ~core.late
        /\ core' =
         [req_1 |-> ToCore,
          stopping |-> (core.stopping \/ ctrl(0)) /\ ~ctrl(4),
          stopped |-> core.stopping,
          terminated |-> core.terminated /\ ~(ctrl(1) \/ ctrl(3) \/ ctrl(4)),
          steps |-> IF ctrl(3) THEN core.steps + 1 ELSE core.steps,
          index |-> IF writes(GSPR_INDEX) THEN request.data % 256 ELSE core.index,
          greq |-> req1 /\ request.addr = GSPR_DATA,
          gack |-> core.greq /\ (core.gack \/ ~late),
          late |-> late,
          gdata |-> IF core.greq /\ ~core.gack /\ ~late THEN RegValue(core.index)
                    ELSE core.gdata,
          addr |-> CASE writes(LOG_ADDR) -> request.data % 2^LOGBITS
                     [] next -> core.addr - (core.addr % span)
                                + ((core.addr + 1) % span)
                     [] OTHER -> core.addr,
          fetch |-> CASE writes(LOG_ADDR) \/ next -> 3
                      [] core.fetch > 0 -> core.fetch - 1
                      [] OTHER -> 0,
          data |-> IF core.fetch = 1
                   THEN select_dword(log.ram[(core.addr \div 4) % LOG_LENGTH],
                                     core.addr % 4)
                   ELSE core.data,
          rdlog |-> ToCore /\ request.addr = LOG_DATA,
          rdlog_1 |-> core.rdlog,
          trigger |-> IF writes(LOG_TRIGGER) THEN request.data ELSE core.trigger,
          mtrigger |-> IF writes(LOG_MTRIGGER) THEN request.data
                       ELSE core.mtrigger,
          delay |-> core.delay, was_log |-> core.was_log, was_mem |-> core.was_mem]

SysClk ==
    /\ ~halted
    /\ req0' = jtag_req /\ req1' = req0
    /\ WbClock /\ CoreClock
    /\ halted' = (req1 /\ request.addr = SIM_QUIT /\ dmi_wr)
    /\ UNCHANGED <<log, dtmVars>>

log_wr_enable == /\ core.addr < LOG_STOP
                 /\ BitAt(core.trigger, 1) = 0 /\ BitAt(core.mtrigger, 1) = 0

\* The core logs a clock.
LogEntry ==
    /\ ~halted /\ log_wr_enable /\ log.n < NLOG
    /\ log' = [ram |-> [log.ram EXCEPT ![log.ptr] = LOG_LENGTH + 1 + log.n],
               ptr |-> (log.ptr + 1) % LOG_LENGTH,
               n |-> log.n + 1]
    /\ UNCHANGED <<dtmVars, req0, req1, wb, core, mem, halted>>

\* The trigger register with its bit 1, which stops the log, as given.
Fired(reg, was) == reg - 2 * BitAt(reg, 1) + (IF was THEN 2 ELSE 0)

\* A clock in which what an enabled trigger waits for happens (hit), or the delay
\* after the first of them is over.  The log goes on during log_trigger_delay, 255
\* clocks or a quarter of a short log, here any number from one on.  At its end
\* both triggers are marked as fired or not fired, whichever of them it was.
LogTrigger ==
    /\ ~halted
    /\ \E log_hit, mem_hit \in BOOLEAN, ends \in BOOLEAN :
         /\ log_hit => BitAt(core.trigger, 0) = 1
         /\ mem_hit => BitAt(core.mtrigger, 0) = 1
         /\ ends => core.delay
         /\ log_hit \/ mem_hit \/ ends
         /\ core' = [core EXCEPT
                !.delay = ~ends,
                !.was_log = log_hit \/ (@ /\ ~ends),
                !.was_mem = mem_hit \/ (@ /\ ~ends),
                !.trigger = IF ends THEN Fired(@, core.was_log) ELSE @,
                !.mtrigger = IF ends THEN Fired(@, core.was_mem) ELSE @]
    /\ UNCHANGED <<dtmVars, req0, req1, wb, log, mem, halted>>
=============================================================================
