---------------------- MODULE InterruptControllerProofs ----------------------
(***************************************************************************)
(* Theorems about InterruptController for any number of controllers,       *)
(* devices and lines: the unlocked accesses to the mask lose lines (see    *)
(* the run MCClearsOnlyCurrent), but they never invent one, and the CPU    *)
(* is told a number that a device raised, line 0 or the spurious line.     *)
(***************************************************************************)
EXTENDS InterruptController, TLAPS

\* Line 0 exists, and so does every line a device is on.
LEMMA LineZero == 0 \in Lines /\ \A d \in Devices : DevicePic[d] \in Pics /\ DeviceLine[d] \in Lines
  BY PicAssumption DEF Lines

LEMMA InitIInv == Init => IInv
<1> SUFFICES ASSUME Init PROVE IInv
  OBVIOUS
<1>1. TypeOK
  <2>1. /\ raised \in [Pics -> SUBSET Lines]
        /\ loaded \in [Threads -> SUBSET Lines]
        /\ was_raised \in [Pics -> SUBSET Lines]
    BY DEF Init, Threads
  <2>2. /\ current \in [Pics -> LineNumbers]
        /\ offset \in [Pics -> Nat]
        /\ scan \in [Pics -> 0 .. LineCount]
    BY PicAssumption DEF Init, LineNumbers, SPURIOUS, OFFSET
  <2>3. /\ loop \in [Pics -> {"top", "load", "store", "scan"}]
        /\ device \in [Devices -> {"idle", "store", "current"}]
        /\ cpu \in {"cycle", "number", "halted"}
    BY DEF Init
  <2>4. in_irq \in BOOLEAN /\ in_exception \in BOOLEAN
    BY DEF Init
  <2>5. vector \in Seq(Nat) /\ commands \in [Pics -> Seq({"remap"})]
    BY DEF Init
  <2>6. raises \in 0 .. MaxRaises
    BY PicAssumption DEF Init
  <2> QED
    BY <2>1, <2>2, <2>3, <2>4, <2>5, <2>6 DEF TypeOK
<1>2. NoPhantomLine /\ LoadedWereRaised
  BY DEF Init, NoPhantomLine, LoadedWereRaised
<1>3. CurrentIsReportable
  BY DEF Init, CurrentIsReportable, Reportable
<1>4. NumbersAreReportable /\ NotNested /\ AsksOutsideIrq
  BY DEF Init, NumbersAreReportable, NotNested, AsksOutsideIrq
<1> QED
  BY <1>1, <1>2, <1>3, <1>4 DEF IInv

-------------------------------------------------------------------------------
\* A step of a worker changes its own controller only; it stores nothing but a
\* part of the mask it loaded and finds nothing but a line of the mask.
LEMMA WorkerStep ==
  ASSUME IInv, NEW p \in Pics, Worker(p)
  PROVE  IInv'
<1>0. UNCHANGED <<device, was_raised, raises, cpu, in_irq, in_exception, vector, commands, offset>>
  BY DEF Worker, WorkerTop, EoiLoad, EoiStore, EoiScan, EoiNone, cpuvars
<1>1. NumbersAreReportable' /\ NotNested' /\ AsksOutsideIrq'
  BY <1>0 DEF IInv, NumbersAreReportable, NotNested, Reportable, AsksOutsideIrq
<1>2. TypeOK'
  <2>1. raised' \in [Pics -> SUBSET Lines] /\ loaded' \in [Threads -> SUBSET Lines]
    <3>1. raised[p] \in SUBSET Lines /\ loaded[p] \in SUBSET Lines
      BY DEF IInv, TypeOK, Threads
    <3>2. raised[p] \ {current[p]} \in SUBSET Lines
      BY <3>1
    <3>3. \A S \in SUBSET Lines : /\ [raised EXCEPT ![p] = S] \in [Pics -> SUBSET Lines]
                                  /\ [loaded EXCEPT ![p] = S] \in [Threads -> SUBSET Lines]
      BY DEF IInv, TypeOK, Threads
    <3>4. \/ raised' = raised
          \/ raised' = [raised EXCEPT ![p] = loaded[p]]
      BY DEF Worker, WorkerTop, EoiLoad, EoiStore, EoiScan, EoiNone
    <3>5. \/ loaded' = loaded
          \/ loaded' = [loaded EXCEPT ![p] = raised[p] \ {current[p]}]
      BY DEF Worker, WorkerTop, EoiLoad, EoiStore, EoiScan, EoiNone
    <3>6. raised' \in [Pics -> SUBSET Lines]
      BY <3>1, <3>3, <3>4 DEF IInv, TypeOK
    <3>7. loaded' \in [Threads -> SUBSET Lines]
      <4>1. loaded \in [Threads -> SUBSET Lines]
        BY DEF IInv, TypeOK
      <4>2. [loaded EXCEPT ![p] = raised[p] \ {current[p]}] \in [Threads -> SUBSET Lines]
        BY <3>2, <3>3
      <4> QED
        BY <4>1, <4>2, <3>5
    <3> QED
      BY <3>6, <3>7
  <2>2. current' \in [Pics -> LineNumbers]
    <3>1. current' = current \/ \E n \in LineNumbers : current' = [current EXCEPT ![p] = n]
      <4>1. scan[p] \in Nat /\ 0 \in LineNumbers /\ (scan[p] < LineCount => scan[p] \in LineNumbers)
        BY LineZero, PicAssumption DEF IInv, TypeOK, Lines, LineNumbers
      <4> QED
        BY <4>1 DEF Worker, WorkerTop, EoiLoad, EoiStore, EoiScan, EoiNone
    <3> QED
      BY <3>1 DEF IInv, TypeOK
  <2>3. scan' \in [Pics -> 0 .. LineCount]
    <3>1. scan' = scan \/ \E n \in 0 .. LineCount : scan' = [scan EXCEPT ![p] = n]
      <4>1. scan[p] \in 0 .. LineCount /\ 0 \in 0 .. LineCount
        BY PicAssumption DEF IInv, TypeOK
      <4>2. scan[p] < LineCount => scan[p] + 1 \in 0 .. LineCount
        BY <4>1, PicAssumption
      <4> QED
        BY <4>1, <4>2 DEF Worker, WorkerTop, EoiLoad, EoiStore, EoiScan, EoiNone
    <3> QED
      BY <3>1 DEF IInv, TypeOK
  <2>4. loop' \in [Pics -> {"top", "load", "store", "scan"}]
    BY DEF IInv, TypeOK, Worker, WorkerTop, EoiLoad, EoiStore, EoiScan, EoiNone
  <2> QED
    BY <1>0, <2>1, <2>2, <2>3, <2>4 DEF IInv, TypeOK
<1>3. NoPhantomLine'
  BY <1>0 DEF IInv, TypeOK, NoPhantomLine, LoadedWereRaised,
              Worker, WorkerTop, EoiLoad, EoiStore, EoiScan, EoiNone
<1>4. LoadedWereRaised'
  <2>1. ASSUME NEW q \in Pics PROVE loaded'[q] \subseteq was_raised'[q]
    <3>1. loaded[q] \subseteq was_raised[q] /\ raised[q] \subseteq was_raised[q]
      BY DEF IInv, NoPhantomLine, LoadedWereRaised
    <3>2. q \in DOMAIN loaded
      BY DEF IInv, TypeOK, Threads
    <3>3. loaded'[q] = loaded[q] \/ loaded'[q] = raised[q] \ {current[q]}
      BY <3>2 DEF Worker, WorkerTop, EoiLoad, EoiStore, EoiScan, EoiNone
    <3> QED
      BY <1>0, <3>1, <3>3
  <2>2. ASSUME NEW d \in Devices PROVE loaded'[d] = loaded[d]
    BY PicAssumption DEF IInv, TypeOK, Threads,
                Worker, WorkerTop, EoiLoad, EoiStore, EoiScan, EoiNone
  <2> QED
    BY <1>0, <2>1, <2>2 DEF IInv, LoadedWereRaised
<1>5. CurrentIsReportable'
  BY <1>0 DEF IInv, TypeOK, NoPhantomLine, CurrentIsReportable, Reportable,
              Worker, WorkerTop, EoiLoad, EoiStore, EoiScan, EoiNone
<1> QED
  BY <1>1, <1>2, <1>3, <1>4, <1>5 DEF IInv

\* A device adds its own line to the mask and makes the current line 0.
LEMMA DeviceStep ==
  ASSUME IInv, NEW d \in Devices, Raise(d)
  PROVE  IInv'
<1>0. UNCHANGED <<loop, scan, cpu, in_irq, in_exception, vector, commands, offset>>
  BY DEF Raise, RaiseLoad, RaiseStore, RaiseCurrent, cpuvars
<1>1. \A p \in Pics : was_raised[p] \subseteq was_raised'[p]
  BY DEF IInv, TypeOK, Raise, RaiseLoad, RaiseStore, RaiseCurrent
<1>2. NumbersAreReportable' /\ NotNested' /\ AsksOutsideIrq'
  <2>1. Reportable(CpuPic) \subseteq Reportable(CpuPic)'
    BY <1>1, PicAssumption DEF Reportable
  <2> QED
    BY <1>0, <2>1 DEF IInv, NumbersAreReportable, NotNested, AsksOutsideIrq
<1>3. TypeOK'
  <2>1. raised' \in [Pics -> SUBSET Lines]
    BY LineZero, PicAssumption DEF IInv, TypeOK, Threads, Raise, RaiseLoad, RaiseStore, RaiseCurrent
  <2>2. loaded' \in [Threads -> SUBSET Lines] /\ was_raised' \in [Pics -> SUBSET Lines]
    <3>1. /\ raised[DevicePic[d]] \cup {DeviceLine[d]} \in SUBSET Lines
          /\ was_raised[DevicePic[d]] \cup {DeviceLine[d]} \in SUBSET Lines
      BY LineZero DEF IInv, TypeOK
    <3>2. \/ loaded' = loaded
          \/ loaded' = [loaded EXCEPT ![d] = raised[DevicePic[d]] \cup {DeviceLine[d]}]
      BY DEF Raise, RaiseLoad, RaiseStore, RaiseCurrent
    <3>3. \/ was_raised' = was_raised
          \/ was_raised' = [was_raised EXCEPT ![DevicePic[d]] = @ \cup {DeviceLine[d]}]
      BY DEF Raise, RaiseLoad, RaiseStore, RaiseCurrent
    <3>4. loaded' \in [Threads -> SUBSET Lines]
      BY <3>1, <3>2 DEF IInv, TypeOK, Threads
    <3>5. was_raised' \in [Pics -> SUBSET Lines]
      BY <3>1, <3>3 DEF IInv, TypeOK
    <3> QED
      BY <3>4, <3>5
  <2>3. current' \in [Pics -> LineNumbers]
    BY LineZero DEF IInv, TypeOK, LineNumbers, Raise, RaiseLoad, RaiseStore, RaiseCurrent
  <2>4. device' \in [Devices -> {"idle", "store", "current"}]
    BY DEF IInv, TypeOK, Raise, RaiseLoad, RaiseStore, RaiseCurrent
  <2>5. raises' \in 0 .. MaxRaises
    BY PicAssumption DEF IInv, TypeOK, Raise, RaiseLoad, RaiseStore, RaiseCurrent
  <2> QED
    BY <1>0, <2>1, <2>2, <2>3, <2>4, <2>5 DEF IInv, TypeOK
<1>4. NoPhantomLine'
  BY <1>1, LineZero DEF IInv, TypeOK, NoPhantomLine, LoadedWereRaised,
              Raise, RaiseLoad, RaiseStore, RaiseCurrent
<1>5. LoadedWereRaised'
  <2>1. ASSUME NEW p \in Pics PROVE loaded'[p] = loaded[p]
    BY PicAssumption DEF IInv, TypeOK, Threads, Raise, RaiseLoad, RaiseStore, RaiseCurrent
  <2>2. ASSUME NEW e \in Devices PROVE loaded'[e] \subseteq was_raised'[DevicePic[e]]
    <3>1. loaded[e] \subseteq was_raised[DevicePic[e]] /\ DevicePic[e] \in Pics
      BY LineZero DEF IInv, LoadedWereRaised
    <3>2. CASE RaiseLoad(d) /\ e = d
      <4>1. loaded'[e] = raised[DevicePic[e]] \cup {DeviceLine[e]}
        BY <3>2 DEF RaiseLoad, IInv, TypeOK, Threads
      <4>2. was_raised'[DevicePic[e]] = was_raised[DevicePic[e]] \cup {DeviceLine[e]}
        BY <3>1, <3>2 DEF RaiseLoad, IInv, TypeOK
      <4>3. raised[DevicePic[e]] \subseteq was_raised[DevicePic[e]]
        BY <3>1 DEF IInv, NoPhantomLine
      <4> QED
        BY <4>1, <4>2, <4>3
    <3>3. CASE ~(RaiseLoad(d) /\ e = d)
      <4>1. loaded'[e] = loaded[e]
        BY <3>3 DEF Raise, RaiseLoad, RaiseStore, RaiseCurrent, IInv, TypeOK, Threads
      <4> QED
        BY <1>1, <3>1, <4>1
    <3> QED
      BY <3>2, <3>3
  <2> QED
    BY <1>1, <2>1, <2>2 DEF IInv, LoadedWereRaised
<1>6. CurrentIsReportable'
  BY <1>0, <1>1 DEF IInv, TypeOK, CurrentIsReportable, Reportable, Raise, RaiseLoad, RaiseStore, RaiseCurrent
<1> QED
  BY <1>2, <1>3, <1>4, <1>5, <1>6 DEF IInv

\* The CPU dispatches the current line and only when it serves no IRQ.
LEMMA CpuStep == IInv /\ (Cpu \/ RaiseException \/ Halt) => IInv'
<1> SUFFICES ASSUME IInv, Cpu \/ RaiseException \/ Halt PROVE IInv'
  OBVIOUS
<1>0. UNCHANGED <<picvars, commands>>
  BY DEF Cpu, SeeIrq, Dispatch, RaiseException, Halt
<1>1. NoPhantomLine' /\ LoadedWereRaised' /\ CurrentIsReportable'
  BY <1>0 DEF IInv, picvars, NoPhantomLine, LoadedWereRaised, CurrentIsReportable, Reportable
<1>2. CASE UNCHANGED <<in_irq, vector>>
  <2>1. cpu' \in {"cycle", "number", "halted"} /\ in_exception' \in BOOLEAN
    BY DEF IInv, TypeOK, Cpu, SeeIrq, Dispatch, RaiseException, Halt
  <2>2. TypeOK'
    BY <1>0, <1>2, <2>1 DEF IInv, TypeOK, picvars
  <2>3. NumbersAreReportable' /\ NotNested'
    BY <1>0, <1>2 DEF IInv, picvars, NumbersAreReportable, NotNested, Reportable
  <2>4. AsksOutsideIrq'
    BY <1>2 DEF IInv, AsksOutsideIrq, Cpu, SeeIrq, Dispatch, RaiseException, Halt
  <2> QED
    BY <1>1, <2>2, <2>3, <2>4 DEF IInv
<1>3. CASE Dispatch /\ in_irq' = TRUE /\ vector' = Append(vector, Number)
  <2>1. /\ current[CpuPic] \in LineNumbers
        /\ current[CpuPic] \in Reportable(CpuPic)
        /\ offset[CpuPic] = OFFSET
        /\ UNCHANGED was_raised
    BY <1>0, PicAssumption DEF IInv, TypeOK, CurrentIsReportable, picvars
  <2>2. LineNumbers \subseteq Nat
    BY PicAssumption DEF LineNumbers, Lines, SPURIOUS
  <2>3. Number \in Nat /\ Number - OFFSET = current[CpuPic]
    <3>1. current[CpuPic] \in Nat /\ offset[CpuPic] = 8 /\ OFFSET = 8
      BY <2>1, <2>2 DEF OFFSET
    <3>2. \A n \in Nat : n + 8 \in Nat /\ (n + 8) - 8 = n
      OBVIOUS
    <3> QED
      BY <3>1, <3>2 DEF Number
  <2>4. vector = <<>> /\ ~in_irq /\ vector \in Seq(Nat)
    BY <1>3 DEF IInv, TypeOK, NotNested, AsksOutsideIrq, Dispatch
  <2>5. vector' = <<Number>>
    BY <1>3, <2>3, <2>4
  <2>6. vector' \in Seq(Nat) /\ NotNested'
    BY <1>3, <2>3, <2>5 DEF NotNested
  <2>7. NumbersAreReportable'
    BY <2>1, <2>3, <2>5 DEF NumbersAreReportable, Reportable
  <2>8. cpu' = "cycle" /\ in_irq' \in BOOLEAN /\ in_exception' \in BOOLEAN
    BY <1>3 DEF Dispatch, IInv, TypeOK
  <2>9. TypeOK'
    BY <1>0, <2>6, <2>8 DEF IInv, TypeOK, picvars
  <2> QED
    BY <1>1, <2>6, <2>7, <2>8, <2>9 DEF IInv, AsksOutsideIrq
<1> QED
  BY <1>2, <1>3 DEF Cpu, SeeIrq, Dispatch, RaiseException, Halt

\* The program sends a command to a controller.
LEMMA CommandStep ==
  ASSUME IInv, NEW p \in Pics, SendRemap(p)
  PROVE  IInv'
<1>1. commands' \in [Pics -> Seq({"remap"})]
  <2>1. Append(commands[p], "remap") \in Seq({"remap"})
    BY DEF IInv, TypeOK
  <2> QED
    BY <2>1 DEF IInv, TypeOK, SendRemap
<1>2. UNCHANGED <<picvars, cpuvars>>
  BY DEF SendRemap
<1> QED
  BY <1>1, <1>2 DEF IInv, TypeOK, picvars, cpuvars, NoPhantomLine, LoadedWereRaised,
     CurrentIsReportable, NumbersAreReportable, Reportable, AsksOutsideIrq, NotNested

LEMMA NextIInv == IInv /\ [Next]_vars => IInv'
<1>1. IInv /\ UNCHANGED vars => IInv'
  BY DEF vars, picvars, cpuvars, IInv, TypeOK, NoPhantomLine, LoadedWereRaised,
     CurrentIsReportable, NumbersAreReportable, Reportable, AsksOutsideIrq, NotNested
<1> QED
  BY <1>1, WorkerStep, DeviceStep, CpuStep, CommandStep DEF Next

-------------------------------------------------------------------------------
\* The invariant holds in every reachable state.
THEOREM Invariance == Spec => []IInv
  BY InitIInv, NextIInv, PTL DEF Spec

\* Every variable keeps its type.
THEOREM TypeCorrect == Spec => []TypeOK
<1>1. IInv => TypeOK
  BY DEF IInv
<1> QED
  BY <1>1, Invariance, PTL

\* Although the mask is read and written without a lock, no line comes up that
\* no device raised.
THEOREM NoLineInvented == Spec => []NoPhantomLine
<1>1. IInv => NoPhantomLine
  BY DEF IInv
<1> QED
  BY <1>1, Invariance, PTL

\* Every number the CPU dispatches is that of a line a device raised, of line 0
\* or of the spurious line.
THEOREM ReportableNumbers == Spec => []NumbersAreReportable
<1>1. IInv => NumbersAreReportable
  BY DEF IInv
<1> QED
  BY <1>1, Invariance, PTL

\* The CPU takes no IRQ while it serves one.
THEOREM OneIrqAtATime == Spec => []NotNested
<1>1. IInv => NotNested
  BY DEF IInv
<1> QED
  BY <1>1, Invariance, PTL
===============================================================================
