------------------------------ MODULE MwDebug ------------------------------
(***************************************************************************)
(* The commands of scripts/mw_debug/mw_debug.c.  A command is given by the *)
(* DMI operation it makes next as a function of res, the answers to its    *)
(* operations so far (0 for a write): <<operation>>, or <<>> at its end.   *)
(***************************************************************************)
EXTENDS DebugRegs, SequencesExt

CONSTANT BYTE   \* number of values of a byte of a file

dmi_read(a) == [op |-> RD, addr |-> a, data |-> 0]
dmi_write(a, d) == [op |-> WR, addr |-> a, data |-> d]

\* The operations of ops, in order.
InOrder(ops, res) ==
    IF Len(res) < Len(ops) THEN <<ops[Len(res) + 1]>> ELSE <<>>

\* SEL bits, auto-increment by eight.
WB_CTRL_VALUE == 2047

core_stop(res) == InOrder(<<dmi_write(CORE_CTRL, 1)>>, res)
core_reset(res) == InOrder(<<dmi_write(CORE_CTRL, 2)>>, res)
icache_reset(res) == InOrder(<<dmi_write(CORE_CTRL, 4)>>, res)
core_start(res) == InOrder(<<dmi_write(CORE_CTRL, 16)>>, res)

core_status(res) ==
    InOrder(<<dmi_read(CORE_STAT), dmi_read(CORE_NIA), dmi_read(CORE_MSR)>>, res)

\* Only a stopped core is stepped.
core_step(res) ==
    IF Len(res) = 1 /\ BitAt(res[1], 1) = 0 THEN <<>>
    ELSE InOrder(<<dmi_read(CORE_STAT), dmi_write(CORE_CTRL, 8)>>, res)

\* The registers gpr_read shows: at most up to number 95.
gpr_count(reg, count) == IF reg + count > 96 THEN 96 - reg ELSE count

gpr_read(reg, count, res) ==
    LET first == reg % 128
        k == Len(res)
    IN  IF k = 2 * gpr_count(first, count) THEN <<>>
        ELSE IF k % 2 = 0 THEN <<dmi_write(GSPR_INDEX, first + k \div 2)>>
        ELSE <<dmi_read(GSPR_DATA)>>

\* Control and address first, then the data accesses, which auto-increment.
mem_access(a, ops, res) ==
    InOrder(<<dmi_write(WB_CTRL, WB_CTRL_VALUE), dmi_write(WB_ADDR, a)>> \o ops,
            res)

mem_read(a, count, res) ==
    mem_access(a, [i \in 1 .. count |-> dmi_read(WB_DATA)], res)

mem_write(a, d, res) == mem_access(a, <<dmi_write(WB_DATA, d)>>, res)

\* The words read(fd, &data, 8) gives for a file: the last one is padded with
\* zeros, and bytes are little-endian.
FileWords(file) ==
    LET byte(i) == IF i <= Len(file) THEN file[i] ELSE 0
        word(w) == FoldLeft(LAMBDA v, i : v * BYTE + byte(8 * w - i),
                            0, <<0, 1, 2, 3, 4, 5, 6, 7>>)
    IN  [w \in 1 .. (Len(file) + 7) \div 8 |-> word(w)]

load(file, a, res) ==
    LET words == FileWords(file)
    IN  mem_access(a, [i \in DOMAIN words |-> dmi_write(WB_DATA, words[i])], res)

\* A word is read, written and counted before the size is looked at.
save_count(size) == IF size = 0 THEN 1 ELSE (size + 7) \div 8

save(a, size, res) == mem_read(a, save_count(size), res)

-----------------------------------------------------------------------------
(* Log.  The upper half of LOG_ADDR is the write pointer, below a one that *)
(* marks the size of the log.                                              *)

log_start(res) == InOrder(<<dmi_write(LOG_ADDR, 0)>>, res)

log_stop(res) ==
    InOrder(<<dmi_write(LOG_ADDR, LOG_STOP), dmi_read(LOG_ADDR)>>, res)

\* The loop over lsize: the least power of two above waddr >> 1.
lsize(waddr) == CHOOSE n \in {2^i : i \in 0 .. LOGBITS} :
                   /\ waddr \div 2 < n
                   /\ \A m \in {2^i : i \in 0 .. LOGBITS} :
                         waddr \div 2 < m => n <= m

\* Mutant: the dump starts one entry after the write pointer.
write_ptr_next(waddr) == waddr + 1

\* waddr &= ~lsize
write_ptr(waddr) ==
    IF (waddr \div lsize(waddr)) % 2 = 1 THEN waddr - lsize(waddr) ELSE waddr

\* The log is stopped, read from the write pointer on, and its address put
\* back, with which a log that was running starts again.
log_dump(res) ==
    LET waddr == res[1] \div 2^LOGBITS
        stopped == BitAt(res[1], LOGBITS - 1) = 1
    IN  IF res = <<>> THEN <<dmi_read(LOG_ADDR)>>
        ELSE InOrder(<<dmi_read(LOG_ADDR)>>
                     \o (IF stopped THEN <<>> ELSE <<dmi_write(LOG_ADDR, LOG_STOP)>>)
                     \o <<dmi_write(LOG_ADDR, LOG_STOP + 4 * write_ptr(waddr))>>
                     \o [i \in 1 .. 4 * lsize(waddr) |-> dmi_read(LOG_DATA)]
                     \o <<dmi_write(LOG_ADDR, res[1])>>, res)

\* What log_dump writes to the file.
DumpedFile(res) ==
    LET waddr == res[1] \div 2^LOGBITS
        skip == IF BitAt(res[1], LOGBITS - 1) = 1 THEN 2 ELSE 3
    IN  SubSeq(res, skip + 1, skip + 4 * lsize(waddr))

\* ltrig and mtrig: reg is LOG_TRIGGER or LOG_MTRIGGER.  Bit 0 enables the
\* trigger, bit 1 says that it has fired.
trig_show(reg, res) == InOrder(<<dmi_read(reg)>>, res)
trig_off(reg, res) == InOrder(<<dmi_write(reg, 0)>>, res)
trig_set(reg, a, res) ==
    LET cleared == a - 2 * BitAt(a, 1)
    IN  InOrder(<<dmi_write(reg, cleared + 1 - BitAt(cleared, 0))>>, res)

-----------------------------------------------------------------------------
(* main(): the command of a record c, with its arguments.                  *)

Command(c, res) ==
    CASE c.name = "dmiread" -> InOrder(<<dmi_read(c.addr)>>, res)
      [] c.name = "dmiwrite" -> InOrder(<<dmi_write(c.addr, c.data)>>, res)
      [] c.name = "creset" -> core_reset(res)
      [] c.name = "icreset" -> icache_reset(res)
      [] c.name = "stop" -> core_stop(res)
      [] c.name = "start" -> core_start(res)
      [] c.name = "step" -> core_step(res)
      [] c.name = "quit" -> InOrder(<<dmi_write(SIM_QUIT, 0)>>, res)
      [] c.name = "status" -> <<>>
      [] c.name = "mr" -> mem_read(c.addr, c.count, res)
      [] c.name = "mw" -> mem_write(c.addr, c.data, res)
      [] c.name = "load" -> load(c.file, c.addr, res)
      [] c.name = "save" -> save(c.addr, c.size, res)
      [] c.name = "gpr" -> gpr_read(c.reg, c.count, res)
      [] c.name = "lstart" -> log_start(res)
      [] c.name = "lstop" -> log_stop(res)
      [] c.name = "ldump" -> log_dump(res)
      [] c.name = "ltrig" -> trig_show(LOG_TRIGGER, res)
      [] c.name = "ltrig off" -> trig_off(LOG_TRIGGER, res)
      [] c.name = "ltrig set" -> trig_set(LOG_TRIGGER, c.addr, res)
      [] c.name = "mtrig" -> trig_show(LOG_MTRIGGER, res)
      [] c.name = "mtrig off" -> trig_off(LOG_MTRIGGER, res)
      [] c.name = "mtrig set" -> trig_set(LOG_MTRIGGER, c.addr, res)
=============================================================================
