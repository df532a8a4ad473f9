------------------------------ MODULE SimJtag ------------------------------
(***************************************************************************)
(* mw_debug at work on the simulator: a client whose sim_command() sends a *)
(* message over a socket and waits for the answer, the functions of        *)
(* sim_jtag_socket_c.c at the other end, the process of sim_jtag.vhdl that *)
(* clocks each message through the JTAG chain, and the debug target.  A    *)
(* client may be killed at any point and another one started.              *)
(***************************************************************************)
EXTENDS DebugTarget, MwDebug, FiniteSets

CONSTANTS COMMANDS,      \* command lines
          INTERRUPTED,   \* those that are interrupted
          AGAIN,         \* those that are started after that
          NCLIENTS,      \* bound: clients started
          SHIFT_CLOCKS,  \* system clocks that pass in a shift, at least
          GARBAGE        \* what an uninitialised variable may hold

VARIABLES
    client,    \* number of the client that runs
    cpc,       \* connect, next, send, recv, done, failed
    argv,      \* commands still to run
    res,       \* answers the current command has had
    polling,   \* dmi_read or dmi_write is in its loop
    sent,      \* bits of the message in buf
    up, down,  \* per client: bytes on the socket, each way, <<>> if none
    open,      \* per client: its end of the socket
    fd, cfd,   \* listening socket, and the client accepted (0: none)
    jpc,       \* the process of sim_jtag.vhdl
    msg,       \* cmd and size, as the VHDL process has them
    rsp,       \* rsp
    clocks,    \* system clocks in this shift, up to SHIFT_CLOCKS
    start      \* history: the target when the current command began

clientVars == <<client, cpc, argv, res, polling, sent, start>>
netVars == <<up, down, open>>
simVars == <<fd, cfd, jpc, msg, rsp, clocks>>
vars == <<clientVars, netVars, simVars, targetVars>>

Status == [name |-> "status"]

Init ==
    /\ TargetInit
    /\ client = 1 /\ cpc = "connect" /\ res = <<>> /\ polling = FALSE
    /\ \E c \in COMMANDS : argv = <<c>>
    /\ sent = <<>>
    /\ up = [i \in 1 .. NCLIENTS |-> <<>>] /\ down = [i \in 1 .. NCLIENTS |-> <<>>]
    /\ open = [i \in 1 .. NCLIENTS |-> FALSE]
    /\ fd = -1 /\ cfd = 0 /\ jpc = "poll" /\ msg = <<>> /\ rsp = <<>> /\ clocks = 0
    /\ start = [mem |-> mem, log |-> log, core |-> core]

-----------------------------------------------------------------------------
(* Client.                                                                 *)

\* The next operation; after the commands main() always calls core_status().
Op == IF argv = <<>> THEN core_status(res) ELSE Command(Head(argv), res)

\* sim_init(): connect() is refused while nobody listens.
Connect ==
    /\ cpc = "connect"
    /\ IF fd = 1 /\ ~halted THEN cpc' = "next" /\ open' = [open EXCEPT ![client] = TRUE]
       ELSE cpc' = "failed" /\ UNCHANGED open
    /\ UNCHANGED <<client, argv, res, polling, sent, up, down, start, simVars,
                   targetVars>>

Snapshot == [mem |-> mem, log |-> log, core |-> core]

\* A command has made its last operation.
EndCommand ==
    /\ cpc = "next" /\ Op = <<>>
    /\ IF argv = <<>> THEN cpc' = "done" /\ open' = [open EXCEPT ![client] = FALSE]
                           /\ UNCHANGED <<argv, res, start>>
       ELSE /\ argv' = Tail(argv) /\ res' = <<>> /\ start' = Snapshot
            /\ UNCHANGED <<cpc, open>>
    /\ UNCHANGED <<client, polling, sent, up, down, simVars, targetVars>>

\* Mutant: the poll repeats the operation instead of sending a NOP.
PollOp_Repeat == Op[1].op

\* The operation that the loop of dmi_read and dmi_write polls with.
PollOp == NOP

\* add_bits() for the three fields; buf is a whole number of bytes.
Pad(b) == b \o [i \in 1 .. (8 - (Len(b) % 8)) % 8 |-> 0]
Message(op, data, addr) == Pad(Bits(op, 2) \o Bits(data, DBITS) \o Bits(addr, ABITS))

\* sim_command() writes its message.  A read passes data that has no value
\* yet.  Once the simulator is gone the message is lost, or SIGPIPE ends us.
Send ==
    /\ cpc = "next" /\ Op # <<>>
    /\ \E g \in GARBAGE :
         sent' = IF polling THEN Message(PollOp, g, 0)
                 ELSE Message(Op[1].op, IF Op[1].op = WR THEN Op[1].data ELSE g,
                              Op[1].addr)
    /\ \/ cpc' = "recv"
       \/ halted /\ cpc' = "failed"
    /\ up' = IF halted THEN up
             ELSE [up EXCEPT ![client] = [size |-> MSGBITS, bits |-> sent']]
    /\ UNCHANGED <<client, argv, res, polling, down, open, start, simVars, targetVars>>

\* read() overwrites as much of buf as it gets; its result is not looked at,
\* and at the end of the stream buf is still the request.
Buffer(reply) == reply \o SubSeq(sent, Len(reply) + 1, Len(sent))

\* Only the answers of the loop count.
Polls == polling

Receive ==
    /\ cpc = "recv"
    /\ down[client] # <<>> \/ halted
    /\ LET buf == Buffer(IF down[client] # <<>> THEN down[client].bits ELSE <<>>)
           rc == Number(SubSeq(buf, 1, 2))
           data == Number(SubSeq(buf, 3, 2 + DBITS))
       IN  IF Polls /\ rc = 0
           THEN /\ polling' = FALSE
                /\ res' = Append(res, IF Op[1].op = RD THEN data ELSE 0)
           ELSE polling' = TRUE /\ UNCHANGED res
    /\ cpc' = "next"
    /\ down' = [down EXCEPT ![client] = <<>>]
    /\ UNCHANGED <<client, argv, sent, up, open, start, simVars, targetVars>>

\* The user interrupts mw_debug and starts it again.
Restart ==
    /\ client < NCLIENTS /\ cpc \in {"next", "recv"}
    /\ argv # <<>> /\ Head(argv) \in INTERRUPTED
    /\ client' = client + 1 /\ cpc' = "connect"
    /\ \E c \in AGAIN : argv' = <<c>>
    /\ res' = <<>> /\ polling' = FALSE /\ sent' = <<>> /\ start' = Snapshot
    /\ open' = [open EXCEPT ![client] = FALSE]
    /\ UNCHANGED <<up, down, simVars, targetVars>>

ClientStep == Connect \/ EndCommand \/ Send \/ Receive

-----------------------------------------------------------------------------
(* sim_jtag_socket_c.c.                                                    *)

\* The oldest connection that has not been accepted.
Waiting == {i \in 1 .. client : i > cfd /\ (open[i] \/ up[i] # <<>>)}

\* A short message is truncated to the bytes there are.
MessageBits(m) ==
    SubSeq(m.bits, 1, IF Len(m.bits) < m.size THEN Len(m.bits) ELSE m.size)

\* One call of sim_jtag_read_msg(): the socket is opened, a client accepted
\* and a message read, as far as possible.
sim_jtag_read_msg ==
    /\ jpc = "poll" /\ ~halted
    /\ \E fd1 \in IF fd = -1 THEN {1, -2} ELSE {fd} :
       LET c == IF cfd # 0 \/ fd1 < 0 \/ Waiting = {} THEN cfd
                ELSE CHOOSE i \in Waiting : \A k \in Waiting : i <= k
           some == c # 0 /\ up[c] # <<>>
           eof == c # 0 /\ up[c] = <<>> /\ ~open[c]
       IN  /\ fd' = fd1
           /\ cfd' = IF eof THEN 0 ELSE c
           /\ up' = IF some THEN [up EXCEPT ![c] = <<>>] ELSE up
           /\ IF some THEN msg' = MessageBits(up[c]) /\ jpc' = "capture"
              ELSE UNCHANGED <<msg, jpc>>
    /\ UNCHANGED <<rsp, clocks, down, open, clientVars, targetVars>>

\* The bytes of an answer, of which there are (size + 7) / 8 with the header:
\* the last byte of the message is not sent.
AnswerBits(b) == SubSeq(Pad(b), 1, 8 * ((Len(b) + 7) \div 8 - 1))

sim_jtag_write_msg ==
    /\ jpc = "write" /\ ~halted
    /\ down' = IF open[cfd]
               THEN [down EXCEPT ![cfd] = [size |-> Len(rsp), bits |-> AnswerBits(rsp)]]
               ELSE down
    /\ jpc' = "dummy"
    /\ UNCHANGED <<fd, cfd, msg, rsp, clocks, up, open, clientVars, targetVars>>

-----------------------------------------------------------------------------
(* The process of sim_jtag.vhdl and the clocks.                            *)

JtagCapture ==
    /\ jpc = "capture" /\ ~halted
    /\ Capture
    /\ jpc' = "shift" /\ clocks' = 0
    /\ UNCHANGED <<fd, cfd, msg, rsp, clientVars, netVars>>

JtagShift ==
    /\ jpc = "shift" /\ clocks = SHIFT_CLOCKS /\ ~halted
    /\ Shift(msg)
    /\ rsp' = ShiftedOut(msg)
    /\ jpc' = "update" /\ clocks' = 0
    /\ UNCHANGED <<fd, cfd, msg, clientVars, netVars>>

JtagUpdate ==
    /\ jpc = "update" /\ ~halted
    /\ Update
    /\ jpc' = "write"
    /\ UNCHANGED <<fd, cfd, msg, rsp, clocks, clientVars, netVars>>

\* JTAG clocks that shift, or follow a command.
JtagClock ==
    /\ jpc \in {"shift", "dummy"} /\ ~halted
    /\ Tck
    /\ UNCHANGED <<clientVars, netVars, simVars>>

EndDummy ==
    /\ jpc = "dummy" /\ ~halted
    /\ jpc' = "poll" /\ msg' = <<>> /\ rsp' = <<>>
    /\ UNCHANGED <<fd, cfd, clocks, clientVars, netVars, targetVars>>

SystemClock ==
    /\ SysClk
    /\ clocks' = IF jpc = "shift" /\ clocks < SHIFT_CLOCKS THEN clocks + 1 ELSE clocks
    /\ UNCHANGED <<fd, cfd, jpc, msg, rsp, clientVars, netVars>>

CoreLogs ==
    /\ LogEntry \/ LogTrigger
    /\ UNCHANGED <<clientVars, netVars, simVars>>

SimStep == sim_jtag_read_msg \/ sim_jtag_write_msg \/ JtagCapture \/ JtagShift
           \/ JtagUpdate \/ EndDummy

Next == ClientStep \/ Restart \/ SimStep \/ JtagClock \/ SystemClock \/ CoreLogs

\* The simulator and the client run; nothing makes the core log.
Spec == /\ Init /\ [][Next]_vars
        /\ WF_vars(ClientStep) /\ WF_vars(SimStep) /\ WF_vars(SystemClock)

-----------------------------------------------------------------------------
\* The bridge ignores a request while it is busy, and the client cannot tell.
\* A client that waits for each operation as dmi_read() and dmi_write() do
\* never sends one then, and the answer that ends an operation, status 0, is
\* about that operation: the last request of the bridge is the one that was
\* asked for, and it is over.
OwnAnswer ==
    client = 1 =>
        /\ jpc = "update" /\ ShiftOp \in {RD, WR} => ~jtag_bsy
        /\ cpc = "recv" /\ polling /\ down[1] # <<>> =>
             \/ Number(SubSeq(down[1].bits, 1, 2)) = BSY
             \/ /\ ~jtag_req
                /\ request.op = Op[1].op /\ request.addr = Op[1].addr
                /\ Op[1].op = WR => request.data = Op[1].data
                /\ Number(SubSeq(down[1].bits, 3, 2 + DBITS)) = request.data

Word(a, i) == a \div 8 + i - 1

\* Oldest entry first, four doublewords each.
Chronological(l) ==
    [i \in 1 .. 4 * LOG_LENGTH |->
        select_dword(l.ram[(l.ptr + (i - 1) \div 4) % LOG_LENGTH], (i - 1) % 4)]

\* When a command of mw_debug ends it has done what it is for: load and mw
\* have changed exactly the words of the file, mr, save and gpr have seen the
\* memory and the registers, step has stepped the core once if it was stopped
\* and not at all if it ran, and ldump has written a log that was stopped,
\* oldest entry first, and left it stopped where it was.
CommandCorrect ==
    cpc = "next" /\ argv # <<>> /\ Op = <<>> /\ client = 1 /\ ~halted =>
        LET c == Head(argv) IN
        /\ mem = CASE c.name = "mw" ->
                       [start.mem EXCEPT ![Word(c.addr, 1)] = c.data]
                   [] c.name = "load" ->
                       LET n == (Len(c.file) + 7) \div 8 IN
                       [w \in DOMAIN mem |->
                          IF w - c.addr \div 8 \in 0 .. n - 1
                          THEN FileWords(c.file)[w - c.addr \div 8 + 1]
                          ELSE start.mem[w]]
                   [] OTHER -> start.mem
        /\ c.name \in {"mr", "save"} =>
             /\ c.name = "save" => 8 * (Len(res) - 2) >= c.size
             /\ c.name = "save" => 8 * (Len(res) - 3) < c.size \/ Len(res) = 3
             /\ \A i \in 1 .. Len(res) - 2 : res[i + 2] = mem[Word(c.addr, i)]
        /\ c.name = "gpr" =>
             /\ Len(res) = 2 * Cardinality((c.reg .. c.reg + c.count - 1) \cap (0 .. 95))
             /\ \A i \in 1 .. Len(res) \div 2 : res[2 * i] = RegValue(c.reg + i - 1)
        /\ core.steps - start.core.steps =
             IF c.name = "step" /\ start.core.stopped THEN 1 ELSE 0
        /\ c.name = "ldump" /\ start.core.addr >= LOG_STOP =>
             /\ DumpedFile(res) = Chronological(start.log)
             /\ log = start.log /\ core.addr = start.core.addr

\* mw_debug ends, whatever the relative speed of the clocks, even if another
\* one was interrupted in the middle of an operation before it.
Terminates == <>(cpc \in {"done", "failed"})
=============================================================================
