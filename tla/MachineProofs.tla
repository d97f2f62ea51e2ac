----------------------------- MODULE MachineProofs -----------------------------
(***************************************************************************)
(* The machine as a whole, closed window and destroyed objects included,   *)
(* does to the power management what PowerManagement allows: MachineSpec   *)
(* implements Spec with the same variables, so what is proved of the       *)
(* handshake between button, reboots and CPU thread holds of the machine.  *)
(* Then the life of the objects: which of them is alive, and that the      *)
(* memory outlives its readers; and the buses: an access reaches the       *)
(* device that was given the number.                                       *)
(***************************************************************************)
EXTENDS Machine, FiniteSetTheorems, SequenceTheorems, WellFoundedInduction, TLAPS

-------------------------------------------------------------------------------
(* The handshake on m_ready, for every bound on the number of commands.      *)

LEMMA InitIInv == Init => IInv
<1> SUFFICES ASSUME Init PROVE IInv
  OBVIOUS
<1>1. TypeOK
  <2>1. ready \in BOOLEAN /\ halted \in BOOLEAN /\ led \in BOOLEAN /\ owed \in BOOLEAN
    BY DEF Init
  <2>2. queue \in Seq({"reboot", "shutdown"}) /\ boots \in Nat /\ starts \in Nat
    BY DEF Init
  <2>3. sent \in 0 .. MaxCommands
    BY PowerAssumption DEF Init
  <2>4. /\ main \in {"create", "button", "display"}
        /\ cpu \in {"sleep", "spin", "seen", "wake", "run"}
        /\ pmi \in {"idle", "reboot", "signal"}
    BY DEF Init
  <2> QED
    BY <2>1, <2>2, <2>3, <2>4 DEF TypeOK
<1>2. StartsAreSignalled /\ SignalKept /\ OffUntilPowered
  BY DEF Init, StartsAreSignalled, SignalKept, OffUntilPowered
<1> QED
  BY <1>1, <1>2 DEF IInv

\* The thread of main() gives the first signal.
LEMMA MainStep == IInv /\ Main => IInv'
<1>1. ASSUME IInv, PressButton PROVE IInv'
  BY <1>1 DEF PressButton, IInv, TypeOK, StartsAreSignalled, SignalKept, OffUntilPowered
<1>2. ASSUME IInv, ButtonBoots PROVE IInv'
  BY <1>2 DEF ButtonBoots, PmiBoot, IInv, TypeOK, StartsAreSignalled, SignalKept, OffUntilPowered
<1> QED
  BY <1>1, <1>2 DEF Main

\* The CPU thread takes a signal in two accesses; a signal in between is covered
\* by the start that follows.
LEMMA CpuStep == IInv /\ (Cpu \/ Program) => IInv'
<1> USE PowerAssumption DEF IInv, TypeOK, StartsAreSignalled, SignalKept, OffUntilPowered
<1>1. ASSUME IInv, EndSleep PROVE IInv'
  BY <1>1 DEF EndSleep
<1>2. ASSUME IInv, SeeReady PROVE IInv'
  BY <1>2 DEF SeeReady
<1>3. ASSUME IInv, TakeReady PROVE IInv'
  <2>1. ready' \in BOOLEAN /\ halted' \in BOOLEAN /\ led' \in BOOLEAN /\ owed' \in BOOLEAN
    BY <1>3, Zenon DEF TakeReady
  <2>2. starts' \in Nat /\ UNCHANGED <<main, pmi, queue, sent, boots>> /\ cpu' = "wake"
    BY <1>3 DEF TakeReady
  <2>3. TypeOK'
    BY <1>3, <2>1, <2>2
  <2>4. StartsAreSignalled' /\ SignalKept' /\ OffUntilPowered'
    BY <1>3 DEF TakeReady
  <2> QED
    BY <2>3, <2>4
<1>4. ASSUME IInv, Wake PROVE IInv'
  BY <1>4 DEF Wake
<1>5. ASSUME IInv, LeaveLoop PROVE IInv'
  BY <1>5 DEF LeaveLoop
<1>6. ASSUME IInv, Halt PROVE IInv'
  BY <1>6 DEF Halt
<1>7. ASSUME IInv, NEW c \in {"reboot", "shutdown"}, SendCommand(c) PROVE IInv'
  BY <1>7 DEF SendCommand
<1> QED
  BY <1>1, <1>2, <1>3, <1>4, <1>5, <1>6, <1>7 DEF Cpu, Program

\* A reboot takes m_ready down and up again; in between it owes the signal.
LEMMA PmiStep == IInv /\ Pmi => IInv'
<1> USE DEF IInv, TypeOK, StartsAreSignalled, SignalKept, OffUntilPowered
<1>1. ASSUME IInv, BeginReboot PROVE IInv'
  BY <1>1 DEF BeginReboot
<1>2. ASSUME IInv, RebootSignal PROVE IInv'
  BY <1>2 DEF RebootSignal
<1>3. ASSUME IInv, RebootBoots PROVE IInv'
  <2>1. TypeOK'
    BY <1>3 DEF RebootBoots, PmiBoot
  <2>2. StartsAreSignalled' /\ SignalKept' /\ OffUntilPowered'
    BY <1>3 DEF RebootBoots, PmiBoot
  <2> QED
    BY <2>1, <2>2
<1>4. ASSUME IInv, Shutdown PROVE IInv'
  <2>1. ready' \in BOOLEAN /\ halted' \in BOOLEAN /\ led' \in BOOLEAN /\ owed' \in BOOLEAN
    BY <1>4, Zenon DEF Shutdown
  <2>2. queue' \in Seq({"reboot", "shutdown"})
    BY <1>4 DEF Shutdown
  <2>3. UNCHANGED <<main, cpu, pmi, sent, boots, starts>>
    BY <1>4 DEF Shutdown
  <2>4. TypeOK'
    BY <1>4, <2>1, <2>2, <2>3
  <2>5. StartsAreSignalled' /\ SignalKept' /\ OffUntilPowered'
    BY <1>4 DEF Shutdown
  <2> QED
    BY <2>4, <2>5
<1> QED
  BY <1>1, <1>2, <1>3, <1>4 DEF Pmi

LEMMA NextIInv == IInv /\ [Next]_vars => IInv'
<1>1. IInv /\ UNCHANGED vars => IInv'
  BY DEF vars, IInv, TypeOK, StartsAreSignalled, SignalKept, OffUntilPowered
<1> QED
  BY <1>1, MainStep, CpuStep, PmiStep DEF Next

-------------------------------------------------------------------------------
\* The invariant holds in every reachable state.
THEOREM Invariance == Spec => []IInv
  BY InitIInv, NextIInv, PTL DEF Spec

\* Every variable keeps its type.
THEOREM TypeCorrect == Spec => []TypeOK
<1>1. IInv => TypeOK
  BY DEF IInv
<1> QED
  BY <1>1, Invariance, PTL

\* The CPU is never started without a signal of its own.
THEOREM NoSpuriousStart == Spec => []StartsAreSignalled
<1>1. IInv => StartsAreSignalled
  BY DEF IInv
<1> QED
  BY <1>1, Invariance, PTL

\* No interleaving of power button, reboots and CPU thread loses a signal.
THEOREM NoLostSignal == Spec => []SignalKept
<1>1. IInv => SignalKept
  BY DEF IInv
<1> QED
  BY <1>1, Invariance, PTL
-------------------------------------------------------------------------------
(* The machine implements the power management.                              *)

\* What main() does besides pressing the button leaves power management alone.
LEMMA MainThreadStep == MainThread \/ CloseWindow => [Next]_vars
<1>1. Button => Next
  BY DEF Button, Next
<1>2. Assemble \/ ImageMissing \/ PowerOn \/ CloseWindow => UNCHANGED vars
  BY DEF Assemble, ImageMissing, PowerOn, CloseWindow
<1>3. ReleasePointer \/ DestroyDevice \/ Join => UNCHANGED vars
  BY DEF ReleasePointer, DestroyDevice, Join
<1> QED
  BY <1>1, <1>2, <1>3 DEF MainThread

\* The CPU thread takes a step of Cpu, or the program one of Program; a command
\* for another device is none for the PMI controller.
LEMMA ProcessorStep ==
  CpuThread \/ CpuEnds \/ ProgramHalts \/ (\E id \in Numbers : Output(id)) => [Next]_vars
<1>1. CpuThread => Next
  BY DEF CpuThread, Next, Cpu
<1>2. CpuEnds => UNCHANGED vars
  BY DEF CpuEnds, Ends
<1>3. ProgramHalts => Next
  BY DEF ProgramHalts, Next, Program
<1>4. ASSUME NEW id \in Numbers, Output(id) PROVE [Next]_vars
  <2>1. CASE \E c \in {"reboot", "shutdown"} : SendCommand(c)
    BY <2>1 DEF Next, Program
  <2>2. CASE UNCHANGED vars
    BY <2>2
  <2> QED
    BY <1>4, <2>1, <2>2 DEF Output
<1> QED
  BY <1>1, <1>2, <1>3, <1>4

\* The workers: only the PMI controller's has to do with power management.
LEMMA WorkerStep ==
  PmiWorker \/ (\E o \in Looping \ {"cpu"} : Workers(o)) \/ UseDestroyed => [Next]_vars
<1>1. PmiWorker => Next
  BY DEF PmiWorker, Next
<1>2. ASSUME NEW o \in Looping \ {"cpu"}, Workers(o) PROVE UNCHANGED vars
  BY <1>2 DEF Workers, FinishCommand, WorkerEnds, Ends
<1>3. UseDestroyed => UNCHANGED vars
  BY DEF UseDestroyed
<1> QED
  BY <1>1, <1>2, <1>3

-------------------------------------------------------------------------------
\* The machine implements the power management: what assembly, buses, the
\* other devices and the destruction do are stuttering steps of it.
THEOREM MachineIsManaged == MachineSpec => Spec
<1>1. MachineInit => Init
  BY DEF MachineInit
<1>2. [MachineNext]_machinevars => [Next]_vars
  <2>1. UNCHANGED machinevars => UNCHANGED vars
    BY DEF machinevars
  <2> QED
    BY <2>1, MainThreadStep, ProcessorStep, WorkerStep DEF MachineNext
<1> QED
  BY <1>1, <1>2, PTL DEF MachineSpec, Spec

\* The CPU of the machine is never started without a signal of its own.
THEOREM MachineStartsAreSignalled == MachineSpec => []StartsAreSignalled
  BY MachineIsManaged, NoSpuriousStart, PTL

\* No signal is lost in the machine, not even while it is destroyed.
THEOREM MachineKeepsSignal == MachineSpec => []SignalKept
  BY MachineIsManaged, NoLostSignal, PTL

-------------------------------------------------------------------------------
(* The life of the objects. What main() and the others hold determines what  *)
(* is alive: while nothing is destroyed, exactly the entries of the table up *)
(* to the point main() has reached.                                          *)

\* What is held when main() is at entry n.
Entries(n) == {Assembly[i] : i \in {k \in 1 .. n - 1 : Assembly[k].do # "open"}}

TheMemory == Make("main", "memory")
Readers == {"cpu", "gfx"}
Referenced(o) == \E h \in held : h.object = o
Running(o) == worker[o] \notin {"none", "ended"}

\* Holders are alive, and so are objects with a running thread that reads the
\* memory; main() gives up the memory when it holds nothing else, and then
\* nothing is held at all.
LifeInv ==
  /\ at \in 1 .. 37
  /\ Readers \subseteq DOMAIN worker
  /\ stack \in Seq({Assembly[i].object : i \in DOMAIN Assembly})
  /\ ~closing => stack = <<>> /\ flagged = {} /\ gone = {} /\ held = Entries(at)
  /\ held \subseteq ToSet(Assembly)
  /\ \A h \in held : h.to = "main" \/ Referenced(h.to) \/ h.to \in ToSet(stack)
  /\ \A h \in held : h.to \notin flagged
  /\ \A o \in Readers : Running(o) => Referenced(o) \/ o \in ToSet(stack)
  /\ closing /\ TheMemory \notin held => held = {} /\ \A o \in Readers : ~Running(o)
  /\ Dead("memory") => closing /\ TheMemory \notin held

\* The table of assembly as a sequence.
LEMMA Table == /\ MakeOthers \in Seq(ToSet(MakeOthers)) /\ Len(MakeOthers) = 35
<1>1. Len(MakeOthers) = 35 /\ DOMAIN MakeOthers = 1 .. 35
  BY DEF MakeOthers
<1>2. MakeOthers = [i \in 1 .. 35 |-> MakeOthers[i]]
  BY DEF MakeOthers
<1>3. \A i \in 1 .. 35 : MakeOthers[i] \in ToSet(MakeOthers)
  BY <1>1 DEF ToSet
<1> HIDE DEF MakeOthers
<1> QED
  BY <1>1, <1>2, <1>3, IsASeq

\* One element in front of a sequence.
LEMMA FirstAndRest ==
  ASSUME NEW S, NEW s \in Seq(S), NEW t \in Seq(S), Len(s) = 1
  PROVE  /\ s \o t \in Seq(S) /\ Len(s \o t) = Len(t) + 1
         /\ (s \o t)[1] = s[1]
         /\ \A i \in 1 .. Len(t) : (s \o t)[i + 1] = t[i]
<1>1. /\ s \o t \in Seq(S) /\ Len(s \o t) = Len(s) + Len(t)
      /\ \A i \in 1 .. Len(s) + Len(t) : (s \o t)[i] = IF i <= Len(s) THEN s[i] ELSE t[i - Len(s)]
  BY ConcatProperties
<1>3. (s \o t)[1] = s[1]
  BY <1>1
<1>4. ASSUME NEW i \in 1 .. Len(t) PROVE (s \o t)[i + 1] = t[i]
  <2>1. i + 1 \in 1 .. Len(s) + Len(t) /\ ~(i + 1 <= Len(s)) /\ (i + 1) - Len(s) = i
    OBVIOUS
  <2> QED
    BY <1>1, <2>1
<1> QED
  BY <1>1, <1>3, <1>4

\* The memory is made first; the rest follows.
LEMMA AssemblyTable ==
  /\ Len(Assembly) = 36 /\ DOMAIN Assembly = 1 .. 36
  /\ Assembly[1] = TheMemory
  /\ \A i \in 1 .. 35 : Assembly[i + 1] = MakeOthers[i]
<1> DEFINE S == ToSet(MakeOthers) \cup {TheMemory}
<1>1. MakeOthers \in Seq(S) /\ Len(MakeOthers) = 35
  BY Table, SeqMonotonic
<1>2. MakeMemory \in Seq(S) /\ Len(MakeMemory) = 1 /\ MakeMemory[1] = TheMemory
  BY DEF MakeMemory, TheMemory
<1> HIDE DEF S
<1>3. /\ Assembly \in Seq(S) /\ Len(Assembly) = Len(MakeOthers) + 1
      /\ Assembly[1] = MakeMemory[1]
      /\ \A i \in 1 .. Len(MakeOthers) : Assembly[i + 1] = MakeOthers[i]
  <2>1. Assembly = MakeMemory \o MakeOthers
    BY DEF Assembly
  <2>2. Len(MakeMemory) = 1 /\ MakeMemory \in Seq(S) /\ MakeOthers \in Seq(S)
    BY <1>1, <1>2
  <2>3. /\ MakeMemory \o MakeOthers \in Seq(S) /\ Len(MakeMemory \o MakeOthers) = Len(MakeOthers) + 1
        /\ (MakeMemory \o MakeOthers)[1] = MakeMemory[1]
        /\ \A i \in 1 .. Len(MakeOthers) : (MakeMemory \o MakeOthers)[i + 1] = MakeOthers[i]
    BY <2>2, FirstAndRest
  <2> QED
    BY <2>1, <2>3
<1> QED
  BY <1>1, <1>2, <1>3

\* What the table says of each entry but the first.
LEMMA Wiring ==
  \A i \in 1 .. 35 :
    LET e == MakeOthers[i]
    IN  /\ e # TheMemory
        /\ e.do \in {"make", "give", "open"}
        /\ e.to \in {"main", "cpu", "cpu_io_bus", "legacy_io_bus", "fast_io_bus", "dma", "fast_pic", "legacy_pic", "pmi"}
        /\ e.object # "main"
        /\ e.do = "give" => e.as # "local"
        /\ e.do # "give" => e.as = "local"
  BY DEF MakeOthers, Make, Give, Open, TheMemory

\* What is given something was made by main() before.
LEMMA Holders ==
  \A i \in 1 .. 35 :
    LET e == MakeOthers[i]
    IN  e.to # "main" => \E j \in 1 .. i - 1 : MakeOthers[j] = Make("main", e.to)
  BY DEF MakeOthers, Make, Give, Open

\* No place is given twice.
LEMMA Distinct ==
  \A i, j \in 1 .. 35 : MakeOthers[i].do = "give" /\ MakeOthers[j].to = MakeOthers[i].to /\ MakeOthers[j].as = MakeOthers[i].as
     => i = j
  BY DEF MakeOthers, Make, Give, Open

\* A set of natural numbers has a least element.
LEMMA LeastNatural ==
  ASSUME NEW T \in SUBSET Nat, T # {}
  PROVE  \E m \in T : \A n \in T : m <= n
<1>1. PICK k \in T : TRUE
  OBVIOUS
<1> DEFINE F == {0 .. m : m \in {n \in T : n <= k}}
<1>2. F \subseteq SUBSET (0 .. k) /\ F # {}
  BY <1>1
<1>3. IsWellFoundedOn(StrictSubsetOrdering(0 .. k), SUBSET (0 .. k))
  <2>1. IsFiniteSet(0 .. k)
    BY <1>1, FS_Interval
  <2>2. FiniteSubsetsOf(0 .. k) = SUBSET (0 .. k)
    BY <2>1, FS_Subset DEF FiniteSubsetsOf
  <2> QED
    BY <2>2, FS_StrictSubsetOrderingWellFounded
<1> HIDE DEF F
<1>4. PICK x \in F : \A y \in F : ~(<<y, x>> \in StrictSubsetOrdering(0 .. k))
  BY <1>2, <1>3, WFMin
<1>5. PICK m \in T : m <= k /\ x = 0 .. m
  BY <1>4 DEF F
<1>6. ASSUME NEW n \in T, n < m PROVE FALSE
  <2>1. 0 .. n \in F /\ 0 .. n \in SUBSET (0 .. k) /\ 0 .. m \in SUBSET (0 .. k)
    BY <1>1, <1>5, <1>6 DEF F
  <2>2. 0 .. n \subseteq 0 .. m /\ m \notin 0 .. n /\ m \in 0 .. m
    BY <1>6
  <2>3. <<0 .. n, x>> \in StrictSubsetOrdering(0 .. k)
    BY <1>5, <2>1, <2>2 DEF StrictSubsetOrdering
  <2> QED
    BY <1>4, <2>1, <2>3
<1> QED
  BY <1>6

\* The same of what stands at each place of the whole assembly.
LEMMA Entry ==
  ASSUME NEW i \in DOMAIN Assembly
  PROVE  /\ i \in 1 .. 36
         /\ Assembly[i].object # "main"
         /\ Assembly[i] = TheMemory <=> i = 1
         /\ Assembly[i].to = "main" \/ \E j \in 1 .. i - 1 : Assembly[j] = Make("main", Assembly[i].to)
<1>1. i = 1 \/ (i - 1 \in 1 .. 35 /\ Assembly[i] = MakeOthers[i - 1])
  <2>1. i # 1 => i - 1 \in 1 .. 35 /\ (i - 1) + 1 = i
    BY AssemblyTable
  <2> QED
    BY <2>1, AssemblyTable
<1>2. TheMemory.object = "memory" /\ TheMemory.to = "main"
  BY DEF TheMemory, Make
<1>3. CASE i = 1
  BY <1>2, <1>3, AssemblyTable
<1>4. CASE i - 1 \in 1 .. 35 /\ Assembly[i] = MakeOthers[i - 1]
  <2>1. ASSUME NEW j \in 1 .. (i - 1) - 1, MakeOthers[j] = Make("main", Assembly[i].to)
        PROVE  \E k \in 1 .. i - 1 : Assembly[k] = Make("main", Assembly[i].to)
    <3>1. j \in 1 .. 35 /\ j + 1 \in 1 .. i - 1
      BY <1>4
    <3> QED
      BY <2>1, <3>1, AssemblyTable
  <2>2. i \in 1 .. 36 /\ i # 1
    BY <1>4, AssemblyTable
  <2>3. Assembly[i].object # "main" /\ Assembly[i] # TheMemory
    BY <1>4, Wiring
  <2>4. Assembly[i].to = "main" \/ \E j \in 1 .. (i - 1) - 1 : MakeOthers[j] = Make("main", Assembly[i].to)
    BY <1>4, Holders
  <2> QED
    BY <2>1, <2>2, <2>3, <2>4
<1> QED
  BY <1>1, <1>3, <1>4

\* The holders of an object, in an order in which each is held by those
\* before it alone.
LEMMA HeldBy ==
  ASSUME NEW h \in ToSet(Assembly), h # TheMemory
  PROVE  /\ h.to \in {"main", "cpu", "cpu_io_bus", "legacy_io_bus", "fast_io_bus", "dma", "fast_pic", "legacy_pic", "pmi"}
         /\ h.object = "cpu_io_bus" => h.to = "main"
         /\ h.object \in {"legacy_io_bus", "fast_io_bus", "dma"} => h.to \in {"main", "cpu_io_bus"}
         /\ h.object = "fast_pic" => h.to \in {"main", "cpu_io_bus", "fast_io_bus"}
         /\ h.object = "legacy_pic" => h.to \in {"main", "fast_pic", "legacy_io_bus"}
         /\ h.object = "pmi" => h.to \in {"main", "legacy_pic", "legacy_io_bus"}
         /\ h.object = "cpu" => h.to \in {"main", "cpu_io_bus", "pmi"}
<1>1. PICK i \in 1 .. 35 : h = MakeOthers[i]
  <2>1. PICK k \in 1 .. 36 : h = Assembly[k]
    BY AssemblyTable DEF ToSet
  <2>2. k - 1 \in 1 .. 35 /\ (k - 1) + 1 = k
    BY <2>1, AssemblyTable
  <2> QED
    BY <2>1, <2>2, AssemblyTable
<1>2. \A k \in 1 .. 35 :
        LET e == MakeOthers[k]
        IN /\ e.object = "cpu_io_bus" => e.to = "main"
           /\ e.object \in {"legacy_io_bus", "fast_io_bus", "dma"} => e.to \in {"main", "cpu_io_bus"}
           /\ e.object = "fast_pic" => e.to \in {"main", "cpu_io_bus", "fast_io_bus"}
           /\ e.object = "legacy_pic" => e.to \in {"main", "fast_pic", "legacy_io_bus"}
           /\ e.object = "pmi" => e.to \in {"main", "legacy_pic", "legacy_io_bus"}
           /\ e.object = "cpu" => e.to \in {"main", "cpu_io_bus", "pmi"}
  BY DEF MakeOthers, Make, Give, Open
<1> QED
  BY <1>1, <1>2, Wiring

\* main() holds the memory longest.
LEMMA MemoryRanksLast ==
  ASSUME NEW h \in ToSet(Assembly), h.to = "main", Rank[TheMemory] <= Rank[h]
  PROVE  h = TheMemory
<1> DEFINE place(e) == CHOOSE i \in DOMAIN Assembly : Assembly[i] = e
<1>1. \A e \in ToSet(Assembly) : place(e) \in DOMAIN Assembly /\ Assembly[place(e)] = e
  BY DEF ToSet
<1>2. TheMemory \in ToSet(Assembly) /\ TheMemory.to = "main"
  BY AssemblyTable DEF ToSet, TheMemory, Make
<1>3. \A e \in ToSet(Assembly) : e.to = "main" => Rank[e] = -place(e)
  BY DEF Rank
<1> HIDE DEF place
<1>4. place(TheMemory) = 1
  BY <1>1, <1>2, Entry
<1>5. place(h) \in 1 .. 36 /\ -1 <= -place(h)
  BY <1>1, <1>2, <1>3, <1>4, Entry
<1>6. place(h) = 1
  BY <1>5
<1> QED
  BY <1>1, <1>6, AssemblyTable

\* Of the pointers of a holder one may go next, as long as there is one.
LEMMA SomePointerNext ==
  ASSUME NEW o, held \subseteq ToSet(Assembly), Pointers(o) = {}
  PROVE  \A h \in held : h.to # o
<1> SUFFICES ASSUME NEW h \in held, h.to = o PROVE FALSE
  OBVIOUS
<1>1. \A e \in ToSet(Assembly) : Rank[e] \in Int /\ Rank[e] + 36 \in Nat
  <2> SUFFICES ASSUME NEW e \in ToSet(Assembly) PROVE Rank[e] \in Int /\ Rank[e] + 36 \in Nat
    OBVIOUS
  <2>1. CASE e.to = "main"
    <3> DEFINE place == CHOOSE i \in DOMAIN Assembly : Assembly[i] = e
    <3>1. place \in DOMAIN Assembly
      BY DEF ToSet
    <3>2. Rank[e] = -place
      BY <2>1 DEF Rank
    <3> HIDE DEF place
    <3>3. place \in 1 .. 36
      BY <3>1, Entry
    <3> QED
      BY <3>2, <3>3
  <2>2. CASE e.to # "main"
    <3>1. Rank[e] \in 0 .. 5
      BY <2>2 DEF Rank, MemberRank
    <3> QED
      BY <3>1
  <2> QED
    BY <2>1, <2>2
<1> DEFINE T == {Rank[g] + 36 : g \in {f \in held : f.to = o}}
<1>2. T \in SUBSET Nat /\ T # {}
  BY <1>1
<1>3. PICK m \in T : \A n \in T : m <= n
  BY <1>2, LeastNatural
<1>4. PICK g \in held : g.to = o /\ m = Rank[g] + 36
  BY <1>3
<1>5. ASSUME NEW f \in held, f.to = o PROVE Rank[g] <= Rank[f]
  <2>2. Rank[f] \in Int /\ Rank[g] \in Int
    BY <1>1, <1>4, <1>5
  <2>3. Rank[g] + 36 <= Rank[f] + 36
    BY <1>3, <1>4, <1>5
  <2> QED
    BY <2>2, <2>3
<1>6. g \in Pointers(o)
  BY <1>4, <1>5 DEF Pointers
<1> QED
  BY <1>6

\* Who holds something while nothing is destroyed was made by main().
LEMMA HoldersAreHeld ==
  ASSUME NEW n \in 1 .. 37, NEW h \in Entries(n)
  PROVE  h.to = "main" \/ Make("main", h.to) \in Entries(n)
<1>1. PICK i \in 1 .. n - 1 : h = Assembly[i]
  BY DEF Entries
<1>2. i \in DOMAIN Assembly
  BY AssemblyTable
<1>3. ASSUME NEW j \in 1 .. i - 1, Assembly[j] = Make("main", h.to)
      PROVE  Make("main", h.to) \in Entries(n)
  <2>1. Assembly[j].do # "open"
    BY <1>3 DEF Make
  <2>2. j \in 1 .. n - 1
    BY <1>1
  <2> QED
    BY <1>3, <2>1, <2>2 DEF Entries
<1> QED
  BY <1>1, <1>2, <1>3, Entry

\* Nothing is held but what assembly made or gave.
LEMMA EntriesAreOfAssembly == \A n \in 1 .. 37 : Entries(n) \subseteq ToSet(Assembly)
  BY AssemblyTable DEF Entries, ToSet

\* main() has made the readers before it starts the first thread.
LEMMA ReadersAreMade == \A o \in Readers : \E h \in Entries(37) : h.object = o
<1>1. /\ MakeOthers[1] = Make("main", "cpu") /\ MakeOthers[18] = Make("main", "gfx")
  BY DEF MakeOthers
<1>2. 1 \in 1 .. 35 /\ 18 \in 1 .. 35 /\ 1 + 1 = 2 /\ 18 + 1 = 19
  OBVIOUS
<1>3. Assembly[2] = Make("main", "cpu") /\ Assembly[19] = Make("main", "gfx")
  BY <1>1, <1>2, AssemblyTable
<1>4. Make("main", "cpu") \in Entries(37) /\ Make("main", "gfx") \in Entries(37)
  BY <1>3 DEF Entries, Make
<1> QED
  BY <1>4 DEF Readers, Make

\* No reader's thread starts in the step.
NoneStarts == DOMAIN worker' = DOMAIN worker /\ \A o \in Readers : Running(o)' => Running(o)

\* A step that starts no thread and touches no object.
LEMMA WorkersChange ==
  /\ LifeInv
  /\ UNCHANGED <<at, held, closing, stack, flagged, gone>>
  /\ NoneStarts
  => LifeInv'
<1>1. UNCHANGED <<at, held, closing, stack, flagged, gone>> =>
        UNCHANGED <<Dead("memory"), Entries(at), Referenced("cpu"), Referenced("gfx")>>
  BY DEF Dead, Entries, Referenced
<1> QED
  BY <1>1 DEF LifeInv, Readers, Referenced, NoneStarts

\* main() is at an entry of the table or behind its end.
LEMMA Positions == at \in 1 .. 37 => IF Assembled THEN at = 37 ELSE at \in DOMAIN Assembly
<1>1. Len(Assembly) = 36 /\ DOMAIN Assembly = 1 .. 36
  BY AssemblyTable
<1> HIDE DEF Assembly
<1> QED
  BY <1>1 DEF Assembled

\* Assembly: insert() never finds a place taken.
LEMMA AssembleStep == LifeInv /\ Assemble => LifeInv'
<1> SUFFICES ASSUME LifeInv, Assemble PROVE LifeInv'
  OBVIOUS
<1> DEFINE e == Assembly[at]
<1>1. at \in 1 .. 36 /\ at + 1 \in 1 .. 37 /\ at \in DOMAIN Assembly
  <2>1. at \in DOMAIN Assembly
    BY Positions DEF LifeInv, Assemble
  <2>2. at \in 1 .. 36
    BY <2>1, Entry
  <2> QED
    BY <2>1, <2>2
<1>2. held = Entries(at) /\ ~closing /\ stack = <<>> /\ flagged = {} /\ gone = {}
  BY DEF LifeInv, Assemble
<1>3. e.do = "give" => ~\E h \in held : h.to = e.to /\ h.as = e.as
  <2> SUFFICES ASSUME e.do = "give", NEW h \in Entries(at), h.to = e.to, h.as = e.as PROVE FALSE
    BY <1>2
  <2>1. PICK j \in 1 .. at - 1 : h = Assembly[j]
    BY DEF Entries
  <2>2. at # 1 /\ at - 1 \in 1 .. 35 /\ (at - 1) + 1 = at
    BY <1>1, <2>1
  <2>3. e = MakeOthers[at - 1]
    BY <2>2, AssemblyTable
  <2>4. CASE j = 1
    <3>1. h.as = "local" /\ e.as # "local"
      BY <2>1, <2>2, <2>3, <2>4, AssemblyTable, Wiring DEF TheMemory, Make
    <3> QED
      BY <3>1
  <2>5. CASE j # 1
    <3>1. j - 1 \in 1 .. 35 /\ (j - 1) + 1 = j /\ j - 1 # at - 1
      BY <1>1, <2>1, <2>5
    <3>2. h = MakeOthers[j - 1]
      BY <2>1, <3>1, AssemblyTable
    <3> QED
      BY <2>2, <2>3, <3>1, <3>2, Distinct
  <2> QED
    BY <2>4, <2>5
<1>4. held' = Entries(at + 1)
  <2>1. held' = IF e.do = "open" THEN held ELSE held \cup {e}
    BY <1>3 DEF Assemble
  <2>2. Entries(at + 1) = IF e.do = "open" THEN Entries(at) ELSE Entries(at) \cup {e}
    <3>1. \A i : i \in 1 .. (at + 1) - 1 <=> i \in 1 .. at - 1 \/ i = at
      BY <1>1
    <3> QED
      BY <3>1 DEF Entries
  <2> QED
    BY <1>2, <2>1, <2>2
<1>5. UNCHANGED <<closing, stack, flagged, gone, worker>> /\ at' = at + 1
  BY DEF Assemble
<1>6. held \subseteq held'
  BY <1>3 DEF Assemble
<1>7. \A h \in held' : h.to = "main" \/ \E g \in held' : g.object = h.to
  BY <1>1, <1>4, HoldersAreHeld DEF Make
<1>8. held' \subseteq ToSet(Assembly)
  BY <1>1, <1>4, EntriesAreOfAssembly
<1> QED
  BY <1>1, <1>2, <1>4, <1>5, <1>6, <1>7, <1>8 DEF LifeInv, Referenced, Running, Dead

\* Threads start when everything is made.
LEMMA PowerOnStep == LifeInv /\ PowerOn => LifeInv'
<1> SUFFICES ASSUME LifeInv, PowerOn PROVE LifeInv'
  OBVIOUS
<1>1. at = 37
  BY Positions DEF LifeInv, PowerOn
<1>2. held = Entries(37) /\ ~closing
  BY <1>1 DEF LifeInv, PowerOn
<1>3. \A o \in Readers : \E h \in held : h.object = o
  BY <1>2, ReadersAreMade
<1>4. UNCHANGED <<at, held, closing, stack, flagged, gone>> /\ DOMAIN worker' = DOMAIN worker
  BY DEF PowerOn
<1> QED
  BY <1>1, <1>2, <1>3, <1>4 DEF LifeInv, Referenced, Dead, Entries

\* When main() leaves, nothing is destroyed yet.
LEMMA CloseStep == LifeInv /\ (CloseWindow \/ ImageMissing) => LifeInv'
<1> SUFFICES ASSUME LifeInv, CloseWindow \/ ImageMissing PROVE LifeInv'
  OBVIOUS
<1>1. ~closing /\ closing' /\ UNCHANGED <<at, worker, held, stack, flagged, gone>>
  BY DEF CloseWindow, ImageMissing
<1>2. held = Entries(at) /\ stack = <<>> /\ flagged = {} /\ gone = {} /\ at \in 1 .. 37
  BY <1>1 DEF LifeInv
<1>3. ASSUME TheMemory \notin held PROVE held = {}
  <2>1. at = 1
    <3>1. TheMemory.do # "open"
      BY DEF TheMemory, Make
    <3>2. Assembly[1] = TheMemory
      BY AssemblyTable
    <3>3. at # 1 => 1 \in 1 .. at - 1
      BY <1>2
    <3> QED
      BY <1>2, <1>3, <3>1, <3>2, <3>3 DEF Entries
  <2> QED
    BY <1>2, <2>1 DEF Entries
<1>4. held = {} => \A o \in Readers : ~Running(o)
  BY <1>2 DEF LifeInv, Referenced, ToSet
<1>5. ~Dead("memory") /\ ~Dead("memory")'
  BY <1>1, <1>2 DEF Dead, ToSet
<1> QED
  BY <1>1, <1>2, <1>3, <1>4, <1>5 DEF LifeInv, Referenced, Running

\* When main() gives the memory up, it holds nothing else, and so nothing
\* holds anything else: what an object holds would itself be held by another,
\* up to the bus of the CPU, which main() alone holds.
LEMMA MemoryIsLast ==
  ASSUME LifeInv, stack = <<>>, TheMemory \in Pointers("main")
  PROVE  held = {TheMemory}
<1>1. held \subseteq ToSet(Assembly) /\ TheMemory \in held
  BY DEF LifeInv, Pointers
<1>2. ASSUME NEW h \in held, h.to = "main" PROVE h = TheMemory
  BY <1>1, <1>2, MemoryRanksLast DEF Pointers
<1>3. \A h \in held : h.to = "main" \/ \E g \in held : g.object = h.to
  BY DEF LifeInv, Referenced, ToSet
<1>4. TheMemory.object = "memory" /\ TheMemory.to = "main"
  BY DEF TheMemory, Make
<1>5. ASSUME NEW h \in held, h # TheMemory PROVE FALSE
  <2> DEFINE Holds(o) == \E g \in held : g.to = o
  <2>1. ~Holds("cpu_io_bus")
    BY <1>1, <1>2, <1>3, <1>4, HeldBy
  <2>2. ~Holds("legacy_io_bus") /\ ~Holds("fast_io_bus") /\ ~Holds("dma")
    BY <1>1, <1>2, <1>3, <1>4, <2>1, HeldBy
  <2>3. ~Holds("fast_pic")
    BY <1>1, <1>2, <1>3, <1>4, <2>1, <2>2, HeldBy
  <2>4. ~Holds("legacy_pic")
    BY <1>1, <1>2, <1>3, <1>4, <2>1, <2>2, <2>3, HeldBy
  <2>5. ~Holds("pmi")
    BY <1>1, <1>2, <1>3, <1>4, <2>1, <2>2, <2>4, HeldBy
  <2>6. ~Holds("cpu")
    BY <1>1, <1>2, <1>3, <1>4, <2>1, <2>5, HeldBy
  <2> QED
    BY <1>1, <1>2, <1>5, <2>1, <2>2, <2>3, <2>4, <2>5, <2>6, HeldBy
<1> QED
  BY <1>1, <1>5

\* What is on a stack, and under its top.
LEMMA Stacks ==
  ASSUME NEW S, NEW s \in Seq(S)
  PROVE  /\ \A x \in S : <<x>> \o s \in Seq(S) /\ ToSet(<<x>> \o s) = {x} \cup ToSet(s)
         /\ s # <<>> => Tail(s) \in Seq(S) /\ Head(s) \in S /\ ToSet(s) = {Head(s)} \cup ToSet(Tail(s))
<1>1. ASSUME NEW x \in S PROVE <<x>> \o s \in Seq(S) /\ ToSet(<<x>> \o s) = {x} \cup ToSet(s)
  <2>1. <<x>> \in Seq(S) /\ Len(<<x>>) = 1 /\ <<x>>[1] = x
    OBVIOUS
  <2>2. PICK t \in Seq(S) : t = <<x>>
    BY <2>1
  <2>3. /\ t \o s \in Seq(S) /\ Len(t \o s) = Len(s) + 1
        /\ (t \o s)[1] = t[1]
        /\ \A i \in 1 .. Len(s) : (t \o s)[i + 1] = s[i]
    BY <2>1, <2>2, FirstAndRest
  <2>4. \A i \in 1 .. Len(s) + 1 : i = 1 \/ (i - 1 \in 1 .. Len(s) /\ (i - 1) + 1 = i)
    OBVIOUS
  <2>5. ToSet(t \o s) \subseteq {x} \cup ToSet(s)
    BY <2>1, <2>2, <2>3, <2>4 DEF ToSet
  <2>6. {x} \cup ToSet(s) \subseteq ToSet(t \o s)
    <3>1. 1 \in DOMAIN (t \o s) /\ \A i \in 1 .. Len(s) : i + 1 \in DOMAIN (t \o s)
      BY <2>3
    <3>2. x \in ToSet(t \o s)
      <4>1. (t \o s)[1] = x
        BY <2>1, <2>2, <2>3
      <4> QED
        BY <3>1, <4>1 DEF ToSet
    <3>3. ASSUME NEW y \in ToSet(s) PROVE y \in ToSet(t \o s)
      <4>1. PICK i \in 1 .. Len(s) : y = s[i]
        BY DEF ToSet
      <4>2. i + 1 \in DOMAIN (t \o s) /\ (t \o s)[i + 1] = y
        BY <2>3, <3>1, <4>1
      <4> QED
        BY <4>2 DEF ToSet
    <3> QED
      BY <3>2, <3>3
  <2> QED
    BY <2>2, <2>3, <2>5, <2>6
<1>2. ASSUME s # <<>>
      PROVE  Tail(s) \in Seq(S) /\ Head(s) \in S /\ ToSet(s) = {Head(s)} \cup ToSet(Tail(s))
  <2>1. /\ Head(s) = s[1] /\ Head(s) \in S /\ Tail(s) \in Seq(S) /\ Len(Tail(s)) = Len(s) - 1
        /\ \A i \in 1 .. Len(Tail(s)) : Tail(s)[i] = s[i + 1]
    BY <1>2, HeadTailProperties
  <2>2. /\ 1 \in 1 .. Len(s)
        /\ \A i \in 1 .. Len(s) : i = 1 \/ (i - 1 \in 1 .. Len(Tail(s)) /\ (i - 1) + 1 = i)
        /\ \A i \in 1 .. Len(Tail(s)) : i + 1 \in 1 .. Len(s)
    BY <1>2, <2>1
  <2>3. ASSUME NEW y \in ToSet(s) PROVE y \in {Head(s)} \cup ToSet(Tail(s))
    <3>1. PICK i \in 1 .. Len(s) : y = s[i]
      BY DEF ToSet
    <3>2. CASE i = 1
      BY <2>1, <3>1, <3>2
    <3>3. CASE i # 1
      <4>1. i - 1 \in DOMAIN Tail(s) /\ Tail(s)[i - 1] = y
        BY <2>1, <2>2, <3>1, <3>3
      <4> QED
        BY <4>1 DEF ToSet
    <3> QED
      BY <3>2, <3>3
  <2>4. Head(s) \in ToSet(s)
    BY <2>1, <2>2 DEF ToSet
  <2>5. ASSUME NEW y \in ToSet(Tail(s)) PROVE y \in ToSet(s)
    <3>1. PICK i \in 1 .. Len(Tail(s)) : y = Tail(s)[i]
      BY <2>1 DEF ToSet
    <3>2. i + 1 \in DOMAIN s /\ s[i + 1] = y
      BY <2>1, <2>2, <3>1
    <3> QED
      BY <3>2 DEF ToSet
  <2> QED
    BY <2>1, <2>3, <2>4, <2>5
<1> QED
  BY <1>1, <1>2

\* A pointer is given up: its object goes with the last one, and keeps alive
\* what it holds until it has given that up too.
LEMMA ReleaseStep == LifeInv /\ ReleasePointer => LifeInv'
<1> SUFFICES ASSUME LifeInv, ReleasePointer PROVE LifeInv'
  OBVIOUS
<1> DEFINE Objs == {Assembly[i].object : i \in DOMAIN Assembly}
<1>1. PICK h \in Pointers(Holder) :
        /\ held' = held \ {h}
        /\ stack' = IF \E g \in held' : g.object = h.object THEN stack ELSE <<h.object>> \o stack
  BY DEF ReleasePointer
<1>2. closing /\ UNCHANGED <<at, worker, closing, flagged, gone>>
  BY DEF ReleasePointer, Teardown
<1>3. h \in held /\ h.to = Holder /\ held \subseteq ToSet(Assembly) /\ h.object \in Objs
  BY DEF Pointers, LifeInv, ToSet
<1>4. stack \in Seq(Objs) /\ "main" \notin Objs
  BY Entry DEF LifeInv
<1>5. /\ stack' \in Seq(Objs) /\ ToSet(stack) \subseteq ToSet(stack')
      /\ \A o \in ToSet(stack') \ ToSet(stack) : o = h.object /\ ~\E g \in held' : g.object = o
      /\ h.object \in ToSet(stack') \/ \E g \in held' : g.object = h.object
  <2>1. <<h.object>> \o stack \in Seq(Objs) /\ ToSet(<<h.object>> \o stack) = {h.object} \cup ToSet(stack)
    BY <1>3, <1>4, Stacks
  <2> QED
    BY <1>1, <1>4, <2>1
<1>6. \A o : Referenced(o) => Referenced(o)' \/ o \in ToSet(stack')
  BY <1>1, <1>5 DEF Referenced
<1>7. \A g \in held' : g.to = "main" \/ Referenced(g.to)' \/ g.to \in ToSet(stack')
  BY <1>1, <1>5, <1>6 DEF LifeInv
<1>8. \A o \in Readers : Running(o)' => Referenced(o)' \/ o \in ToSet(stack')
  BY <1>2, <1>5, <1>6 DEF LifeInv, Running
<1>9. TheMemory \notin held' => held' = {} /\ \A o \in Readers : ~Running(o)'
  <2>1. CASE TheMemory \notin held
    BY <1>1, <1>2, <1>3, <2>1 DEF LifeInv
  <2>2. CASE h = TheMemory
    <3>1. Holder = "main"
      BY <1>3, <2>2 DEF TheMemory, Make
    <3>2. stack = <<>>
      BY <1>4, <3>1, Stacks DEF Holder
    <3>3. held = {TheMemory}
      BY <2>2, <3>1, <3>2, MemoryIsLast
    <3>4. \A o \in Readers : ~Referenced(o) /\ o \notin ToSet(stack)
      BY <3>2, <3>3 DEF Referenced, Readers, TheMemory, Make, ToSet
    <3> QED
      BY <1>1, <1>2, <2>2, <3>3, <3>4 DEF LifeInv, Running
  <2> QED
    BY <1>1, <2>1, <2>2
<1>10. Dead("memory")' => TheMemory \notin held'
  <2>1. TheMemory.object = "memory"
    BY DEF TheMemory, Make
  <2> QED
    BY <1>1, <1>2, <1>5, <2>1 DEF LifeInv, Dead
<1> QED
  BY <1>1, <1>2, <1>3, <1>5, <1>7, <1>8, <1>9, <1>10 DEF LifeInv

\* The flag is set when an object has given up all it held.
LEMMA DestroyStep == LifeInv /\ DestroyDevice => LifeInv'
<1> SUFFICES ASSUME LifeInv, DestroyDevice PROVE LifeInv'
  OBVIOUS
<1>1. closing /\ UNCHANGED <<at, worker, held, closing, stack, gone>> /\ flagged' = flagged \cup {Head(stack)}
  BY DEF DestroyDevice, Teardown
<1>2. \A h \in held : h.to # Head(stack)
  BY SomePointerNext DEF DestroyDevice, LifeInv
<1>3. UNCHANGED <<Dead("memory"), Referenced("cpu"), Referenced("gfx")>>
  BY <1>1 DEF Dead, Referenced
<1> QED
  BY <1>1, <1>2, <1>3 DEF LifeInv, Running, Referenced, Readers

\* An object is gone when its thread has ended.
LEMMA JoinStep == LifeInv /\ Join => LifeInv'
<1> SUFFICES ASSUME LifeInv, Join PROVE LifeInv'
  OBVIOUS
<1> DEFINE Objs == {Assembly[i].object : i \in DOMAIN Assembly}
<1>1. /\ closing /\ UNCHANGED <<at, worker, held, closing, flagged>>
      /\ gone' = gone \cup {Head(stack)} /\ stack' = Tail(stack)
      /\ Head(stack) \in flagged /\ worker[Head(stack)] \in {"none", "ended"}
  BY DEF Join, Teardown
<1>2. /\ stack' \in Seq(Objs) /\ ToSet(stack) = {Head(stack)} \cup ToSet(stack')
  BY <1>1, Stacks DEF LifeInv, Join
<1>3. \A h \in held : h.to # Head(stack)
  BY <1>1 DEF LifeInv
<1>4. \A h \in held : h.to = "main" \/ Referenced(h.to) \/ h.to \in ToSet(stack')
  BY <1>2, <1>3 DEF LifeInv
<1>5. \A o \in Readers : Running(o) => Referenced(o) \/ o \in ToSet(stack')
  BY <1>1, <1>2 DEF LifeInv, Running
<1>6. Dead("memory")' => Dead("memory")
  BY <1>1, <1>2 DEF Dead
<1> QED
  BY <1>1, <1>2, <1>4, <1>5, <1>6 DEF LifeInv, Running, Referenced

\* The threads: none is started by any of them.
LEMMA ThreadsStep ==
  ASSUME LifeInv,
         \/ Button \/ CpuThread \/ CpuEnds \/ ProgramHalts \/ \E id \in Numbers : Output(id)
         \/ PmiWorker \/ (\E o \in Looping \ {"cpu"} : Workers(o)) \/ UseDestroyed
  PROVE  LifeInv'
<1>1. ASSUME UNCHANGED lifevars
      PROVE  UNCHANGED <<at, held, closing, stack, flagged, gone>> /\ UNCHANGED worker
  BY <1>1 DEF lifevars
<1>2. \A o : Ends(o) => /\ UNCHANGED <<at, held, closing, stack, flagged, gone>>
                        /\ NoneStarts
  BY DEF Ends, Running, NoneStarts, LifeInv
<1>3. ASSUME NEW id \in Numbers, Output(id)
      PROVE  /\ UNCHANGED <<at, held, closing, stack, flagged, gone>>
             /\ NoneStarts
  BY <1>1, <1>3 DEF Output, Running, NoneStarts, LifeInv
<1>4. ASSUME NEW o, Workers(o)
      PROVE  /\ UNCHANGED <<at, held, closing, stack, flagged, gone>>
             /\ NoneStarts
  BY <1>2, <1>4 DEF Workers, FinishCommand, WorkerEnds, Running, NoneStarts, LifeInv
<1>5. Button \/ CpuThread \/ ProgramHalts \/ PmiWorker => UNCHANGED lifevars
  BY DEF Button, CpuThread, ProgramHalts, PmiWorker
<1>6. CpuEnds => Ends("cpu")
  BY DEF CpuEnds
<1>7. UseDestroyed => UNCHANGED <<at, held, closing, stack, flagged, gone>> /\ UNCHANGED worker
  BY DEF UseDestroyed
<1>8. UNCHANGED worker => NoneStarts
  BY DEF Running, NoneStarts
<1> QED
  BY <1>1, <1>2, <1>3, <1>4, <1>5, <1>6, <1>7, <1>8, WorkersChange

-------------------------------------------------------------------------------
\* The invariant of the life of the objects.
THEOREM LifeInvariance == MachineSpec => []LifeInv
<1>1. MachineInit => LifeInv
  <2> SUFFICES ASSUME MachineInit PROVE LifeInv
    OBVIOUS
  <2>1. Entries(1) = {}
    BY DEF Entries
  <2>2. /\ at = 1 /\ held = {} /\ closing = FALSE /\ stack = <<>> /\ flagged = {} /\ gone = {}
        /\ worker = [o \in Objects |-> "none"]
    BY DEF MachineInit
  <2>3. ~Dead("memory")
    BY <2>2 DEF Dead, ToSet
  <2>4. Readers \subseteq DOMAIN worker /\ \A o \in Readers : ~Running(o)
    <3>1. \A o \in Readers : \E i \in DOMAIN Assembly : Assembly[i] = Make("main", o)
      <4>1. /\ MakeOthers[1] = Make("main", "cpu") /\ MakeOthers[18] = Make("main", "gfx")
        BY DEF MakeOthers
      <4>2. 1 \in 1 .. 35 /\ 18 \in 1 .. 35 /\ 1 + 1 = 2 /\ 18 + 1 = 19
        OBVIOUS
      <4> QED
        BY <4>1, <4>2, AssemblyTable DEF Readers
    <3>2. Readers \subseteq Objects
      BY <3>1 DEF Objects, ToSet, Make
    <3> QED
      BY <2>2, <3>2 DEF Running
  <2> QED
    BY <2>1, <2>2, <2>3, <2>4 DEF LifeInv
<1>2. LifeInv /\ [MachineNext]_machinevars => LifeInv'
  <2>1. LifeInv /\ UNCHANGED machinevars => LifeInv'
    <3>1. UNCHANGED machinevars => UNCHANGED <<at, held, closing, stack, flagged, gone>> /\ UNCHANGED worker
      BY DEF machinevars, lifevars
    <3>2. UNCHANGED worker => NoneStarts
      BY DEF Running, NoneStarts
    <3> QED
      BY <3>1, <3>2, WorkersChange
  <2> QED
    BY <2>1, AssembleStep, PowerOnStep, CloseStep, ReleaseStep, DestroyStep, JoinStep, ThreadsStep
       DEF MachineNext, MainThread
<1> QED
  BY <1>1, <1>2, PTL DEF MachineSpec

\* Whoever closes the window, and whichever thread is late, the memory goes
\* when the threads that read it have ended.
THEOREM MemoryAlwaysOutlives == MachineSpec => []MemoryOutlivesReaders
<1>1. LifeInv => MemoryOutlivesReaders
  BY DEF LifeInv, MemoryOutlivesReaders, Readers, Running
<1> QED
  BY <1>1, LifeInvariance, PTL

\* What the buses hold: CPUIOBus only its members, and the two others never
\* the same number.
LEMMA BusTable ==
  \A i \in 1 .. 35 :
    LET e == MakeOthers[i]
    IN  /\ e.to = "cpu_io_bus" =>
             /\ e.as \in DOMAIN MemberRank
             /\ e.as = "switch_1" => e.object = "legacy_io_bus"
             /\ e.as = "switch_2" => e.object = "fast_io_bus"
        /\ e.to \in {"legacy_io_bus", "fast_io_bus"} => e.do # "open"
  BY DEF MakeOthers, Make, Give, Open, MemberRank

\* Both switches are given.
LEMMA SwitchesGiven ==
  /\ \E i \in 1 .. 35 : MakeOthers[i] = Give("cpu_io_bus", "switch_1", "legacy_io_bus")
  /\ \E i \in 1 .. 35 : MakeOthers[i] = Give("cpu_io_bus", "switch_2", "fast_io_bus")
  BY DEF MakeOthers

\* No number is given on both buses.
LEMMA NumbersDiffer ==
  \A i, j \in 1 .. 35 :
    MakeOthers[i].to = "legacy_io_bus" /\ MakeOthers[j].to = "fast_io_bus" => MakeOthers[i].as # MakeOthers[j].as
  BY DEF MakeOthers, Make, Give, Open

\* When everything is made, what a place other than main() holds is what the
\* table gives it.
LEMMA HeldAtTheEnd ==
  ASSUME held = Entries(37)
  PROVE  /\ \A h \in held : h.to # "main" => \E i \in 1 .. 35 : h = MakeOthers[i]
         /\ \A i \in 1 .. 35 : MakeOthers[i].do # "open" => MakeOthers[i] \in held
<1>1. ASSUME NEW h \in held, h.to # "main" PROVE \E i \in 1 .. 35 : h = MakeOthers[i]
  <2>1. PICK k \in 1 .. 36 : h = Assembly[k]
    <3>1. PICK k \in 1 .. 37 - 1 : h = Assembly[k]
      BY DEF Entries
    <3> QED
      BY <3>1
  <2>2. k # 1
    BY <1>1, <2>1, AssemblyTable DEF TheMemory, Make
  <2>3. k - 1 \in 1 .. 35 /\ (k - 1) + 1 = k
    BY <2>2
  <2> QED
    BY <2>1, <2>3, AssemblyTable
<1>2. ASSUME NEW i \in 1 .. 35, MakeOthers[i].do # "open" PROVE MakeOthers[i] \in held
  <2>1. i + 1 \in 1 .. 37 - 1 /\ Assembly[i + 1] = MakeOthers[i]
    BY AssemblyTable
  <2> QED
    BY <1>2, <2>1 DEF Entries
<1> QED
  BY <1>1, <1>2

\* No registration hides another.
LEMMA RouteIsRegistered ==
  ASSUME held = Entries(37), NEW id, id \notin DOMAIN MemberRank
  PROVE  Route(id) = find_device("legacy_io_bus", id) \cup find_device("fast_io_bus", id)
<1> DEFINE L == find_device("legacy_io_bus", id)
           F == find_device("fast_io_bus", id)
<1>1. find_device("cpu_io_bus", id) = {}
  BY HeldAtTheEnd, BusTable DEF find_device
<1>2. find_device("cpu_io_bus", "switch_1") = {"legacy_io_bus"}
  <2>1. \A h \in held : h.to = "cpu_io_bus" /\ h.as = "switch_1" => h.object = "legacy_io_bus"
    BY HeldAtTheEnd, BusTable
  <2>2. \E h \in held : h.to = "cpu_io_bus" /\ h.as = "switch_1"
    BY HeldAtTheEnd, SwitchesGiven DEF Give
  <2> QED
    BY <2>1, <2>2 DEF find_device
<1>3. find_device("cpu_io_bus", "switch_2") = {"fast_io_bus"}
  <2>1. \A h \in held : h.to = "cpu_io_bus" /\ h.as = "switch_2" => h.object = "fast_io_bus"
    BY HeldAtTheEnd, BusTable
  <2>2. \E h \in held : h.to = "cpu_io_bus" /\ h.as = "switch_2"
    BY HeldAtTheEnd, SwitchesGiven DEF Give
  <2> QED
    BY <2>1, <2>2 DEF find_device
<1>4. L = {} \/ F = {}
  <2>1. ASSUME NEW g \in held, NEW h \in held, g.to = "legacy_io_bus", h.to = "fast_io_bus", g.as = id, h.as = id
        PROVE  FALSE
    <3>1. PICK i \in 1 .. 35 : g = MakeOthers[i]
      BY <2>1, HeldAtTheEnd
    <3>2. PICK j \in 1 .. 35 : h = MakeOthers[j]
      BY <2>1, HeldAtTheEnd
    <3> QED
      BY <2>1, <3>1, <3>2, NumbersDiffer
  <2> QED
    BY <2>1 DEF find_device
<1> HIDE DEF L, F
<1>5. /\ DOMAIN Switches = {1, 2}
      /\ find_device("cpu_io_bus", Switches[1]) = {"legacy_io_bus"}
      /\ find_device("cpu_io_bus", Switches[2]) = {"fast_io_bus"}
  BY <1>2, <1>3 DEF Switches
<1>6. /\ 1 \in SwitchWith(id) <=> L # {}
      /\ 2 \in SwitchWith(id) <=> F # {}
      /\ SwitchWith(id) \subseteq {1, 2}
  BY <1>5 DEF SwitchWith, L, F
<1>7. CASE SwitchWith(id) = {}
  BY <1>1, <1>6, <1>7 DEF Route, L, F
<1>8. CASE SwitchWith(id) # {}
  <2> DEFINE first == CHOOSE i \in SwitchWith(id) : \A j \in SwitchWith(id) : i <= j
  <2>1. Route(id) = UNION {find_device(bus, id) : bus \in find_device("cpu_io_bus", Switches[first])}
    BY <1>1, <1>8 DEF Route
  <2>2. SwitchWith(id) = {1} \/ SwitchWith(id) = {2}
    BY <1>4, <1>6, <1>8
  <2>3. first \in SwitchWith(id)
    BY <2>2
  <2> HIDE DEF first
  <2>4. CASE SwitchWith(id) = {1}
    BY <1>4, <1>5, <1>6, <2>1, <2>3, <2>4 DEF L, F
  <2>5. CASE SwitchWith(id) = {2}
    BY <1>4, <1>5, <1>6, <2>1, <2>3, <2>5 DEF L, F
  <2> QED
    BY <2>2, <2>4, <2>5
<1> QED
  BY <1>7, <1>8

\* The devices the buses hold under a number are those of the table.
LEMMA RegisteredIsHeld ==
  ASSUME held = Entries(37), NEW id
  PROVE  {Assembly[i].object : i \in {j \in DOMAIN Assembly : /\ Assembly[j].to \in {"legacy_io_bus", "fast_io_bus"}
                                                              /\ Assembly[j].as = id}}
           = find_device("legacy_io_bus", id) \cup find_device("fast_io_bus", id)
<1> DEFINE J == {j \in DOMAIN Assembly : Assembly[j].to \in {"legacy_io_bus", "fast_io_bus"} /\ Assembly[j].as = id}
<1>1. ASSUME NEW j \in J
      PROVE  \E h \in held : h = Assembly[j] /\ h.to \in {"legacy_io_bus", "fast_io_bus"} /\ h.as = id
  <2>1. j \in 1 .. 36 /\ j # 1
    BY <1>1, AssemblyTable DEF TheMemory, Make
  <2>2. j - 1 \in 1 .. 35 /\ (j - 1) + 1 = j
    BY <2>1
  <2>3. Assembly[j] = MakeOthers[j - 1]
    BY <2>2, AssemblyTable
  <2> QED
    BY <1>1, <2>2, <2>3, HeldAtTheEnd, BusTable
<1>2. ASSUME NEW h \in held, h.to \in {"legacy_io_bus", "fast_io_bus"}, h.as = id
      PROVE  \E j \in J : h = Assembly[j]
  <2>1. PICK i \in 1 .. 35 : h = MakeOthers[i]
    BY <1>2, HeldAtTheEnd
  <2>2. i + 1 \in DOMAIN Assembly /\ Assembly[i + 1] = h
    BY <2>1, AssemblyTable
  <2> QED
    BY <1>2, <2>2
<1> QED
  BY <1>1, <1>2 DEF find_device

\* From the start of the threads to the end of the display loop, an access
\* reaches the device that main() gave the number, whatever numbers programs
\* use.
THEOREM AccessAlwaysReachesRegistered == MachineSpec => []AccessReachesRegistered
<1>1. LifeInv => AccessReachesRegistered
  <2> SUFFICES ASSUME LifeInv, Assembled, ~closing, NEW id \in Numbers
               PROVE  Route(id) = {Assembly[i].object : i \in
                                    {j \in DOMAIN Assembly : /\ Assembly[j].to \in {"legacy_io_bus", "fast_io_bus"}
                                                             /\ Assembly[j].as = id}}
    BY DEF AccessReachesRegistered
  <2>1. at = 37
    BY Positions DEF LifeInv
  <2>2. held = Entries(37)
    BY <2>1 DEF LifeInv
  <2>3. id \notin DOMAIN MemberRank
    BY NumbersAssumption
  <2> QED
    BY <2>2, <2>3, RouteIsRegistered, RegisteredIsHeld
<1> QED
  BY <1>1, LifeInvariance, PTL
===============================================================================
