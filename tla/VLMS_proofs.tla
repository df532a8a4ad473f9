---------------------------- MODULE VLMS_proofs ----------------------------
(***************************************************************************)
(* The Verilated C++ implements the Verilog, for every word size and every *)
(* set of pins the test bench drives.                                      *)
(***************************************************************************)
EXTENDS VLMS, TLAPS

-----------------------------------------------------------------------------
(* Integer division.                                                       *)

\* A product of a positive integer is no smaller than that integer.
LEMMA MulGap ==
    ASSUME NEW n \in Int, NEW d \in Int, n > 0, d >= 1
    PROVE  n * d >= n
  BY SMT

\* What \div and % mean.
LEMMA DivMod ==
    ASSUME NEW a \in Int, NEW n \in Int, n > 0
    PROVE  /\ a \div n \in Int /\ a % n \in Int
           /\ a = n * (a \div n) + (a % n) /\ 0 <= a % n /\ a % n < n
  BY SMT

\* Quotient and remainder are unique.
LEMMA DivUnique ==
    ASSUME NEW n \in Int, n > 0, NEW q \in Int, NEW r \in Int, 0 <= r, r < n
    PROVE  (n * q + r) \div n = q /\ (n * q + r) % n = r
<1> DEFINE a == n * q + r
           p == a \div n
           s == a % n
<1>1. a \in Int
  BY SMT
<1>2. p \in Int /\ s \in Int /\ a = n * p + s /\ 0 <= s /\ s < n
  BY <1>1, DivMod
<1>3. n * (q - p) = s - r /\ n * (p - q) = r - s
  BY <1>2, SMT
<1>4. ~(q - p >= 1) /\ ~(p - q >= 1)
  BY <1>2, <1>3, MulGap
<1>5. p = q
  BY <1>2, <1>4
<1>6. s = r
  BY <1>2, <1>5, SMT
<1> QED
  BY <1>5, <1>6

\* A remainder may be taken before or after a sum.
LEMMA ModSum ==
    ASSUME NEW m \in Int, m > 0, NEW a \in Int, NEW b \in Int
    PROVE  (a + (b % m)) % m = (a + b) % m
<1> DEFINE c == a + (b % m)
           q == c \div m
           r == c % m
           qb == b \div m
<1>1. qb \in Int /\ (b % m) \in Int /\ b = m * qb + (b % m)
  BY DivMod
<1>2. q \in Int /\ r \in Int /\ c = m * q + r /\ 0 <= r /\ r < m
  BY <1>1, DivMod
<1>3. a + b = m * (q + qb) + r
  BY <1>1, <1>2, SMT
<1>4. (m * (q + qb) + r) % m = r
  <2> HIDE DEF q, r, qb, c
  <2>1. q + qb \in Int
    BY <1>1, <1>2
  <2> QED
    BY <1>2, <2>1, DivUnique
<1> QED
  BY <1>3, <1>4

\* The slice of a product does not depend on the width it is computed in.
LEMMA ShiftMask ==
    ASSUME NEW m \in Int, m > 0, NEW n \in Int, n > 0, NEW k \in Int,
           m = n * k, NEW p \in Int
    PROVE  ((p % (m * m)) \div n) % m = (p \div n) % m
<1> DEFINE q == p \div (m * m)
           r == p % (m * m)
           u == r \div n
           v == r % n
           c == u \div m
           d == u % m
<1>1. m * m \in Int /\ m * m > 0
  BY MulGap, SMT
<1>2. q \in Int /\ r \in Int /\ p = (m * m) * q + r
  BY <1>1, DivMod
<1>3. u \in Int /\ v \in Int /\ r = n * u + v /\ 0 <= v /\ v < n
  BY <1>2, DivMod
<1>4. (m * m) * q = n * (k * m * q) /\ k * m * q \in Int
  BY <1>2, SMT
<1>5. p = n * (k * m * q + u) + v
  BY <1>2, <1>3, <1>4, SMT
<1>6. c \in Int /\ d \in Int /\ u = m * c + d /\ 0 <= d /\ d < m
  BY <1>3, DivMod
<1> HIDE DEF q, r, u, v, c, d
<1>7. p \div n = k * m * q + u
  <2>1. k * m * q + u \in Int
    BY <1>3, <1>4
  <2> QED
    BY <1>3, <1>5, <2>1, DivUnique
<1>8. k * m * q + u = m * (k * q + c) + d
  BY <1>2, <1>3, <1>6, SMT
<1>9. k * q + c \in Int
  BY <1>2, <1>6
<1>10. (m * (k * q + c) + d) % m = d
  BY <1>6, <1>9, DivUnique
<1> QED
  BY <1>7, <1>8, <1>10 DEF u, r, d

-----------------------------------------------------------------------------
(* The generated arithmetic and that of the Verilog.                       *)

\* Sign extension gives an integer and the mask a word.
LEMMA WordOps ==
    ASSUME NEW v \in Int
    PROVE  Extends(v) \in Int /\ Mask(v) \in Word
<1>1. M \in Int /\ M > 0
  BY WordAssumption
<1>2. v % M \in Int /\ 0 <= v % M /\ v % M < M
  BY <1>1, DivMod
<1> QED
  BY <1>1, <1>2 DEF Extends, Mask, Word

\* A masked, logically shifted product is the slice the Verilog takes.
LEMMA MaskShifted ==
    ASSUME NEW p \in Int
    PROVE  Shifted(p) \in Int /\ Mask(Shifted(p)) = RTL!Slice(p)
<1>1. PICK k \in Int : M = N * k
  BY WordAssumption
<1>2. M \in Int /\ M > 0 /\ N \in Int /\ N > 0
  BY WordAssumption
<1>3. M * M \in Int /\ M * M > 0
  BY <1>2, MulGap, SMT
<1>4. p % (M * M) \in Int
  BY <1>3, DivMod
<1>5. (p % (M * M)) \div N \in Int
  BY <1>2, <1>4, DivMod
<1>6. ((p % (M * M)) \div N) % M = (p \div N) % M
  BY <1>1, <1>2, ShiftMask
<1> QED
  BY <1>5, <1>6 DEF Shifted, Mask, RTL!Slice

\* Sign extension is $signed.
LEMMA ExtendsIsSigned == ASSUME NEW v PROVE Extends(v) = RTL!Signed(v)
  BY DEF Extends, RTL!Signed

\* The stored output is the Verilog's y_out.
LEMMA SameOutput ==
    ASSUME NEW w \in [Taps -> Int], NEW t \in [Taps -> Int]
    PROVE  YOut(w, t) = RTL!Output(w, t)
<1> DEFINE e(i) == Extends(w[i]) * Extends(t[i])
<1>1. \A i \in Taps : Extends(w[i]) \in Int /\ Extends(t[i]) \in Int
  BY WordOps
<1>2. \A i \in Taps : e(i) \in Int
  BY <1>1, SMT
<1>3. 0 \in Taps /\ 1 \in Taps /\ 2 \in Taps /\ 3 \in Taps
  BY DEF Taps
<1>4. Sum(w, t) = e(0) + (e(1) + (e(2) + e(3)))
  BY DEF Sum
<1>5. RTL!Dot(w, t) = e(0) + e(1) + e(2) + e(3)
  BY ExtendsIsSigned DEF RTL!Dot
<1> HIDE DEF e
<1>6. Sum(w, t) = RTL!Dot(w, t) /\ Sum(w, t) \in Int
  BY <1>2, <1>3, <1>4, <1>5
<1> QED
  BY <1>6, MaskShifted DEF YOut, RTL!Output

\* The stored new weights are the Verilog's wn_u0 .. wn_u3, and words.
LEMMA SameUpdate ==
    ASSUME NEW w \in [Taps -> Int], NEW t \in [Taps -> Int], NEW e \in Int
    PROVE  Wnu(w, t, e) = RTL!Updated(w, t, e) /\ Wnu(w, t, e) \in [Taps -> Word]
<1> DEFINE p(i) == Extends(e) * Extends(t[i])
           g == N \div 2
           m(i) == g * Extends(Mask(Shifted(p(i))))
<1>1. g \in Int /\ M \in Int /\ M > 0
  <2>1. N \in Int /\ 2 \in Int /\ 2 > 0 /\ M \in Int /\ M > 0
    BY WordAssumption
  <2> QED
    BY <2>1, DivMod
<1>2. ASSUME NEW i \in Taps
      PROVE  /\ Mask(w[i] + Shifted(m(i))) = (w[i] + RTL!Slice(m(i))) % M
             /\ Mask(w[i] + Shifted(m(i))) \in Word
             /\ Mask(Shifted(p(i))) = RTL!Slice(p(i))
  <2>1. Extends(e) \in Int /\ Extends(t[i]) \in Int
    BY WordOps
  <2>2. p(i) \in Int
    BY <2>1, SMT
  <2> HIDE DEF p
  <2>3. Mask(Shifted(p(i))) = RTL!Slice(p(i)) /\ Shifted(p(i)) \in Int
    BY <2>2, MaskShifted
  <2>4. Mask(Shifted(p(i))) \in Int
    BY <2>3, <1>1, WordOps DEF Word
  <2>5. Extends(Mask(Shifted(p(i)))) \in Int
    BY <2>4, WordOps
  <2>6. m(i) \in Int
    BY <2>5, <1>1, SMT
  <2> HIDE DEF m
  <2>7. Shifted(m(i)) \in Int /\ Mask(Shifted(m(i))) = RTL!Slice(m(i))
    BY <2>6, MaskShifted
  <2>8. w[i] \in Int /\ w[i] + Shifted(m(i)) \in Int
    BY <2>7
  <2>9. (w[i] + (Shifted(m(i)) % M)) % M = (w[i] + Shifted(m(i))) % M
    BY <2>7, <2>8, <1>1, ModSum
  <2>10. Mask(w[i] + Shifted(m(i))) = (w[i] + RTL!Slice(m(i))) % M
    BY <2>7, <2>9 DEF Mask
  <2>11. Mask(w[i] + Shifted(m(i))) \in Word
    BY <2>8, WordOps
  <2> QED
    BY <2>3, <2>10, <2>11
<1>3. Wnu(w, t, e) = [i \in Taps |-> Mask(w[i] + Shifted(m(i)))]
  BY DEF Wnu
<1>4. RTL!Updated(w, t, e)
        = [i \in Taps |-> (w[i] + RTL!Slice(g * Extends(RTL!Slice(p(i))))) % M]
  BY ExtendsIsSigned DEF RTL!Updated, RTL!Taps, Taps, RTL!gamma
<1>5. ASSUME NEW i \in Taps
      PROVE  m(i) = g * Extends(RTL!Slice(p(i)))
  BY <1>2
<1> HIDE DEF m, p, g
<1> QED
  BY <1>2, <1>3, <1>4, <1>5

-----------------------------------------------------------------------------
(* The scheduler's invariant.                                              *)

\* The constructor's random values satisfy the invariant.
LEMMA InitInvariant == Init => SchedulerInvariant
<1> SUFFICES ASSUME Init PROVE SchedulerInvariant
  OBVIOUS
<1>1. PICK v \in POWERUP : /\ x = v.x /\ wn = v.wn /\ err_reg = v.err_reg
                           /\ x_in_reg = v.x_in_reg /\ d_in_reg = v.d_in_reg
  BY DEF Init
<1>2. v \in PowerUp
  BY PinsAssumption
<1>3. /\ x \in [Taps -> Word] /\ wn \in [Taps -> Word] /\ err_reg \in Word
      /\ x_in_reg \in Word /\ d_in_reg \in Word
  BY <1>1, <1>2 DEF PowerUp
<1>4. pin \in [Edges -> Bit] /\ bus \in Bus
  BY PinsAssumption DEF Init, Pins
<1> QED
  BY <1>3, <1>4 DEF Init, SchedulerInvariant

\* A run of nba_sequent leaves words in the registers and the outputs
\* computed from them.
LEMMA SequentTypes ==
    ASSUME SchedulerInvariant, didInit, NbaSequent
    PROVE  /\ x' \in [Taps -> Word] /\ wn' \in [Taps -> Word] /\ err_reg' \in Word
           /\ x_in_reg' \in Word /\ d_in_reg' \in Word
           /\ y_out' = YOut(wn', x') /\ wn_u' = Wnu(wn', x', err_reg')
<1>1. 0 \in Word /\ Word \subseteq Int /\ M \in Int /\ M > 0
  BY WordAssumption DEF Word
<1>2. y_out' = YOut(wn', x') /\ wn_u' = Wnu(wn', x', err_reg')
  BY DEF NbaSequent, Combinational
<1>3. CASE pin["Rst"] = 1
  BY <1>1, <1>2, <1>3 DEF NbaSequent, NbaReset, Zero
<1>4. CASE pin["Rst"] # 1
  <2>1. NbaFilter /\ NbaBus(bus)
    BY <1>4 DEF NbaSequent
  <2>2. x_in_reg' \in Word /\ d_in_reg' \in Word
    <3>1. bus.dat \in Word
      BY PinsAssumption DEF SchedulerInvariant, Bus
    <3> QED
      BY <2>1, <3>1 DEF NbaBus, SchedulerInvariant
  <2>3. x' \in [Taps -> Word]
    BY <2>1 DEF NbaFilter, SchedulerInvariant, Taps
  <2>4. wn \in [Taps -> Int] /\ x \in [Taps -> Int] /\ err_reg \in Int /\ d_in_reg \in Int
    BY <1>1 DEF SchedulerInvariant
  <2>5. wn' \in [Taps -> Word]
    BY <2>1, <2>4, SameUpdate DEF NbaFilter, SchedulerInvariant
  <2>6. y_out \in Int
    <3>1. Sum(wn, x) \in Int
      <4>1. \A i \in Taps : Extends(wn[i]) \in Int /\ Extends(x[i]) \in Int
        BY <2>4, WordOps
      <4>2. 0 \in Taps /\ 1 \in Taps /\ 2 \in Taps /\ 3 \in Taps
        BY DEF Taps
      <4>3. \A i \in Taps : Extends(wn[i]) * Extends(x[i]) \in Int
        BY <4>1, SMT
      <4> QED
        BY <4>2, <4>3 DEF Sum
    <3>2. Shifted(Sum(wn, x)) \in Int
      BY <3>1, MaskShifted
    <3> QED
      BY <3>2, <1>1, WordOps DEF SchedulerInvariant, YOut
  <2>7. err_reg' \in Word
    <3>1. d_in_reg - y_out \in Int
      BY <2>4, <2>6
    <3> QED
      BY <2>1, <3>1, <1>1, WordOps DEF NbaFilter
  <2> QED
    BY <2>2, <2>3, <2>5, <2>7, <1>2
<1> QED
  BY <1>3, <1>4

\* Every step of the test bench and of eval() keeps the invariant.
LEMMA NextInvariant == SchedulerInvariant /\ [Next]_vars => SchedulerInvariant'
<1> SUFFICES ASSUME SchedulerInvariant, [Next]_vars PROVE SchedulerInvariant'
  OBVIOUS
<1>1. ASSUME NEW p \in PINS, Drive(p) PROVE SchedulerInvariant'
  <2>1. p.pin \in [Edges -> Bit] /\ p.bus \in Bus
    BY PinsAssumption DEF Pins
  <2> QED
    BY <1>1, <2>1 DEF Drive, SchedulerInvariant, regs, comb
<1>2. CASE FirstEval
  <2>1. UNCHANGED <<x, wn, err_reg, x_in_reg, d_in_reg>>
    BY <1>2 DEF FirstEval, regs
  <2>2. nbaTriggered = {}
    BY <1>2 DEF FirstEval, SchedulerInvariant
  <2> QED
    BY <1>2, <2>1, <2>2 DEF FirstEval, SchedulerInvariant, Combinational
<1>3. CASE EvalPhaseAct
  <2>1. UNCHANGED <<pin, bus, x, wn, err_reg, x_in_reg, d_in_reg, y_out, wn_u, didInit>>
    BY <1>3 DEF EvalPhaseAct, regs, comb
  <2>2. prev' = pin /\ nbaTriggered' = nbaTriggered \cup Triggers
        /\ pc' \in {"act", "nba"} /\ didInit
    BY <1>3 DEF EvalPhaseAct, SchedulerInvariant
  <2>3. \A s \in nbaTriggered' : s \in Edges /\ pin[s] = 1
    BY <2>2 DEF SchedulerInvariant, Triggers
  <2> QED
    BY <2>1, <2>2, <2>3 DEF SchedulerInvariant
<1>4. CASE EvalPhaseNba
  <2>1. didInit /\ nbaTriggered' = {} /\ pc' \in {"act", "idle"}
        /\ UNCHANGED <<pin, bus, prev, didInit>>
    BY <1>4 DEF EvalPhaseNba, SchedulerInvariant
  <2>2. CASE nbaTriggered # {}
    <3>1. NbaSequent
      BY <1>4, <2>2 DEF EvalPhaseNba
    <3> QED
      BY <2>1, <3>1, SequentTypes DEF SchedulerInvariant
  <2>3. CASE nbaTriggered = {}
    <3>1. UNCHANGED <<x, wn, err_reg, x_in_reg, d_in_reg, y_out, wn_u>>
      BY <1>4, <2>3 DEF EvalPhaseNba, regs, comb
    <3> QED
      BY <2>1, <3>1 DEF SchedulerInvariant
  <2> QED
    BY <2>2, <2>3
<1>5. CASE UNCHANGED vars
  BY <1>5 DEF SchedulerInvariant, vars, regs, comb, sched
<1> QED
  BY <1>1, <1>2, <1>3, <1>4, <1>5 DEF Next

\* In every reachable state of the generated model the scheduler's invariant
\* holds: eval()'s phases, the pending edges and the stored outputs agree.
THEOREM SchedulerCorrect == Spec => []SchedulerInvariant
<1>1. Init /\ [][Next]_vars => []SchedulerInvariant
  BY InitInvariant, NextInvariant, PTL
<1> QED
  BY <1>1, PTL DEF Spec

-----------------------------------------------------------------------------
(* The refinement.                                                         *)

\* The initial states are initial states of the Verilog.
LEMMA InitImplements == Init => RTL!Init
<1> SUFFICES ASSUME Init PROVE RTL!Init
  OBVIOUS
<1>1. PICK v \in POWERUP :
         /\ x = v.x /\ wn = v.wn /\ err_reg = v.err_reg
         /\ x_in_reg = v.x_in_reg /\ d_in_reg = v.d_in_reg
         /\ mode_train_reg = v.mode_train_reg
         /\ wb_dat_o = v.wb_dat_o /\ wb_ack_o = v.wb_ack_o /\ irq_o = v.irq_o
  BY DEF Init
<1>2. v \in PowerUp
  BY PinsAssumption
<1>3. SeenPin("Clk") = 2 /\ SeenPin("Rst") = 2
  BY DEF Init, SeenPin
<1> QED
  BY <1>1, <1>2, <1>3
     DEF PowerUp, RTL!Init, RTL!Unknown, RTL!Taps, RTL!Word, RTL!Bit, Taps, Word, Bit

\* A step that leaves the registers alone and shows no rising pin is a step
\* of the Verilog.
LEMMA QuietStep ==
    ASSUME SchedulerInvariant, UNCHANGED regs,
           NEW c \in Bit, NEW r \in Bit,
           SeenPin("Clk")' = c, SeenPin("Rst")' = r,
           ~RTL!Rises(SeenPin("Clk"), c), ~RTL!Rises(SeenPin("Rst"), r)
    PROVE  RTL!Next
<1>1. bus \in RTL!Bus
  BY DEF SchedulerInvariant, Bus, RTL!Bus, Bit, RTL!Bit
<1>2. RTL!Step(c, r, bus)
  BY DEF RTL!Step, RTL!lmsVars, RTL!busVars, regs
<1>3. c \in RTL!Bit /\ r \in RTL!Bit
  BY DEF Bit, RTL!Bit
<1> QED
  BY <1>1, <1>2, <1>3 DEF RTL!Next

\* A run of nba_sequent for a pending edge is the Verilog's clock edge.
LEMMA EdgeStep ==
    ASSUME SchedulerInvariant, EvalPhaseNba, nbaTriggered # {}
    PROVE  RTL!Next
<1>1. /\ NbaSequent /\ didInit /\ didInit' /\ nbaTriggered' = {}
      /\ prev = pin /\ UNCHANGED <<pin, bus, prev>>
  BY DEF EvalPhaseNba, SchedulerInvariant
<1> DEFINE c == pin["Clk"]
           r == pin["Rst"]
<1>2. c \in RTL!Bit /\ r \in RTL!Bit
  BY DEF SchedulerInvariant, Edges, Bit, RTL!Bit
<1>3. SeenPin("Clk")' = c /\ SeenPin("Rst")' = r
  BY <1>1 DEF SeenPin
<1>4. RTL!Rises(SeenPin("Clk"), c) \/ RTL!Rises(SeenPin("Rst"), r)
  <2>1. PICK s \in nbaTriggered : s \in Edges /\ pin[s] = 1
    BY DEF SchedulerInvariant
  <2>2. SeenPin(s) = 0
    BY <1>1, <2>1 DEF SeenPin
  <2>3. RTL!Rises(SeenPin(s), pin[s])
    BY <2>1, <2>2 DEF RTL!Rises
  <2> QED
    BY <2>1, <2>3 DEF Edges
<1>5. bus \in RTL!Bus
  BY DEF SchedulerInvariant, Bus, RTL!Bus, Bit, RTL!Bit
<1>6. RTL!DelayLine /\ RTL!ErrorRegister /\ RTL!Weights /\ RTL!Wishbone(bus)
  <2>1. CASE r = 1
    <3>1. NbaReset
      BY <1>1, <2>1 DEF NbaSequent
    <3>2. RTL!DelayLine /\ RTL!ErrorRegister /\ RTL!Weights
      BY <1>3, <2>1, <3>1
         DEF NbaReset, Zero, Taps, RTL!DelayLine, RTL!ErrorRegister, RTL!Weights, RTL!Taps
    <3>3. RTL!Wishbone(bus)
      BY <1>3, <2>1, <3>1 DEF NbaReset, RTL!Wishbone, RTL!WishboneReset
    <3> QED
      BY <3>2, <3>3
  <2>2. CASE r = 0
    <3>1. NbaFilter /\ NbaBus(bus)
      BY <1>1, <2>2 DEF NbaSequent
    <3>2. wn \in [Taps -> Int] /\ x \in [Taps -> Int] /\ err_reg \in Int
      BY WordAssumption DEF SchedulerInvariant, Word
    <3>3. y_out = RTL!Output(wn, x) /\ wn_u = RTL!Updated(wn, x, err_reg)
      BY <1>1, <3>2, SameOutput, SameUpdate DEF SchedulerInvariant
    <3>4. RTL!DelayLine
      BY <1>3, <2>2, <3>1 DEF NbaFilter, RTL!DelayLine, Taps, RTL!Taps
    <3>5. RTL!ErrorRegister
      BY <1>3, <2>2, <3>1, <3>3 DEF NbaFilter, Mask, RTL!ErrorRegister
    <3>6. RTL!Weights
      BY <1>3, <2>2, <3>1, <3>3 DEF NbaFilter, RTL!Weights
    <3>7. ReadData(bus.adr, y_out, err_reg, wn)
            = RTL!ReadMux(bus.adr, RTL!Output(wn, x), err_reg, wn)
      BY <3>3 DEF ReadData, RTL!ReadMux
    <3>8. RTL!Wishbone(bus)
      BY <1>3, <2>2, <3>1, <3>7
         DEF NbaBus, RTL!Wishbone, RTL!WishboneCycle, RTL!Accepted
    <3> QED
      BY <3>4, <3>5, <3>6, <3>8
  <2> QED
    BY <1>2, <2>1, <2>2 DEF RTL!Bit
<1> HIDE DEF c, r
<1>7. RTL!Step(c, r, bus)
  BY <1>3, <1>4, <1>6 DEF RTL!Step
<1> QED
  BY <1>2, <1>5, <1>7 DEF RTL!Next

\* Every step maps to a step of the Verilog or to a stuttering step, if no
\* pin is high at the first call.
LEMMA NextImplements ==
    ASSUME StartsLow
    PROVE  SchedulerInvariant /\ SchedulerInvariant' /\ [Next]_vars
             => [RTL!Next]_(RTL!vars)
<1> SUFFICES ASSUME SchedulerInvariant, SchedulerInvariant', [Next]_vars
             PROVE  RTL!Next \/ UNCHANGED RTL!vars
  OBVIOUS
<1> USE DEF RTL!vars, RTL!lmsVars, RTL!busVars
<1>1. ASSUME NEW p \in PINS, Drive(p) PROVE UNCHANGED RTL!vars
  BY <1>1 DEF Drive, SeenPin, regs
<1>2. CASE FirstEval
  <2>1. ~didInit /\ didInit' /\ nbaTriggered' = {} /\ prev' = pin /\ UNCHANGED regs
    BY <1>2 DEF FirstEval, SchedulerInvariant
  <2>2. SeenPin("Clk")' = pin["Clk"] /\ SeenPin("Rst")' = pin["Rst"]
    BY <2>1 DEF SeenPin
  <2>3. pin["Clk"] = 0 /\ pin["Rst"] = 0
    BY <1>2 DEF FirstEval, SchedulerInvariant, StartsLow
  <2>4. ~RTL!Rises(SeenPin("Clk"), 0) /\ ~RTL!Rises(SeenPin("Rst"), 0) /\ 0 \in Bit
    BY DEF RTL!Rises, Bit
  <2> QED
    BY <2>1, <2>2, <2>3, <2>4, QuietStep
<1>3. CASE EvalPhaseAct
  <2>1. didInit /\ didInit' /\ prev' = pin /\ UNCHANGED regs
        /\ nbaTriggered' = nbaTriggered \cup Triggers
    BY <1>3 DEF EvalPhaseAct, SchedulerInvariant
  <2> DEFINE seen(s) == IF s \in nbaTriggered \cup Triggers THEN 0 ELSE pin[s]
  <2>2. SeenPin("Clk")' = seen("Clk") /\ SeenPin("Rst")' = seen("Rst")
    BY <2>1 DEF SeenPin
  <2>3. \A s \in Edges : seen(s) \in Bit /\ ~RTL!Rises(SeenPin(s), seen(s))
    BY <2>1 DEF SeenPin, SchedulerInvariant, Triggers, Bit, RTL!Rises
  <2>4. "Clk" \in Edges /\ "Rst" \in Edges
    BY DEF Edges
  <2> HIDE DEF seen
  <2> QED
    BY <2>1, <2>2, <2>3, <2>4, QuietStep
<1>4. CASE EvalPhaseNba
  <2>1. CASE nbaTriggered = {}
    BY <1>4, <2>1 DEF EvalPhaseNba, SeenPin, regs
  <2> QED
    BY <1>4, <2>1, EdgeStep
<1>5. CASE UNCHANGED vars
  BY <1>5 DEF vars, regs, sched, SeenPin
<1> QED
  BY <1>1, <1>2, <1>3, <1>4, <1>5 DEF Next

\* The C++ that Verilator generated implements the Verilog of the peripheral,
\* for every word size, provided Clk and Rst are low at the first call: from
\* then on eval_step() moves the registers exactly as the nonblocking
\* assignments of wb_lms.v and LMS.v do at a clock or reset edge.
THEOREM GeneratedModelImplementsRTL == ASSUME StartsLow PROVE Spec => ImplementsRTL
<1>1. Init /\ [][Next]_vars => RTL!Init /\ [][RTL!Next]_(RTL!vars)
  <2>1. Init /\ [][Next]_vars => []SchedulerInvariant
    BY InitInvariant, NextInvariant, PTL
  <2> QED
    BY <2>1, InitImplements, NextImplements, PTL
<1> QED
  BY <1>1, PTL DEF Spec, ImplementsRTL, RTL!Spec
=============================================================================
