------------------------------ MODULE PCIProofs ------------------------------
(***************************************************************************)
(* The scan, the names and the drives of PCI, for all machines and any     *)
(* depth of the stack.                                                     *)
(***************************************************************************)
EXTENDS PCI, FiniteSetTheorems, SequenceTheorems, TLAPS

\* An entry of the list: a function that is there, or that its device answers for.
Entries == {e \in Int \X Nat \X Nat : Answers(e[1], e[2], e[3])}

Calls == [bus : Int, device : Nat, function : Nat]

ScanType ==
    /\ machine \in Machines
    /\ list \in Seq(Int \X Nat \X Nat)
    /\ \A i \in 1..Len(list) : list[i] \in Entries
    /\ calls \in Seq(Calls)
    /\ outcome \in {"scanning", "done", "overflow"}
    /\ outcome # "done" => Len(calls) > 0

\* Call c has tried function e of its bus.
Passed(e, c) == e[2] < c.device \/ (e[2] = c.device /\ e[3] < c.function)

\* The outermost call scans bus 0 and leaves no function behind.
Outermost ==
    /\ outcome # "done" => calls[1].bus = 0
    /\ \A e \in Present :
          e[1] = 0 /\ (outcome = "done" \/ Passed(e, calls[1])) => e \in Range(list)

\* Without bridges there is no other call, and it lists nothing twice.
Alone ==
    Flat =>
        /\ outcome # "overflow"
        /\ outcome = "scanning" => Len(calls) = 1
        /\ \A i \in 1..Len(list) :
              /\ list[i] \in Present
              /\ outcome = "scanning" => Passed(list[i], calls[1])
        /\ \A i, j \in 1..Len(list) : list[i] = list[j] => i = j

\* PCI_get_bar stores BAR[4] only, of devices PCI_init has printed.
Bars == \A x \in DOMAIN bars : x[1] \in 0..device - 1 /\ x[2] = 4

IInv == ScanType /\ Outermost /\ Alone /\ device \in Nat /\ Bars

-----------------------------------------------------------------------------
(* The machine *)

\* What the assumptions say of the machine scanned.
LEMMA MachineFacts ==
    ASSUME machine \in Machines, NEW e \in Present
    PROVE  /\ e = <<e[1], e[2], e[3]>>
           /\ e[1] \in Nat /\ e[2] \in Nat /\ e[3] \in Nat
           /\ e[2] < Devices /\ e[3] < Functions
           /\ machine.bus[e] \in Int
           /\ <<e[1], e[2], 0>> \in Present
           /\ Flat => e[1] = 0
           /\ <<e[1], e[2]>> \in machine.aliases => e[3] = 0
<1>1. /\ e \in (0..Buses - 1) \X (0..Devices - 1) \X (0..Functions - 1)
      /\ machine.bus[e] \in {NoBus} \cup 0..Buses - 1
      /\ <<e[1], e[2], 0>> \in Present
      /\ e[1] = 0 \/ \E g \in Present : machine.bus[g] # NoBus
      /\ <<e[1], e[2]>> \in machine.aliases => e[3] = 0
  BY MachinesAssumption DEF Present
<1>2. Buses \in Nat /\ Devices \in Nat /\ Functions \in Nat
  BY PCIAssumption
<1>. QED
  BY <1>1, <1>2 DEF NoBus, Flat

\* A function that is there shows a device whose function 0 is there.
LEMMA FirstThere ==
    ASSUME machine \in Machines, NEW b, NEW d, NEW f, Answers(b, d, f)
    PROVE  <<b, d, 0>> \in Present
<1>1. CASE <<b, d, f>> \in Present
  BY <1>1, MachineFacts
<1>2. CASE <<b, d>> \in machine.aliases
  BY <1>2, MachinesAssumption DEF Present
<1>. QED
  BY <1>1, <1>2 DEF Answers

\* What the loop over the functions adds is there.
LEMMA TriedThere ==
    ASSUME machine \in Machines, NEW b, NEW d, NEW f \in Nat,
           f < Tried(b, d), Answers(b, d, f)
    PROVE  <<b, d, f>> \in Present
<1>0. <<b, d, 0>> \in Present
  BY FirstThere
<1>1. CASE f = 0
  BY <1>0, <1>1
<1>2. CASE f # 0 /\ <<b, d, f>> \notin Present
  <2>1. MultiFunction(b, d)
    BY <1>2 DEF Tried
  <2>2. PICK g \in 1..Functions - 1 : <<b, d, g>> \in Present
    BY <2>1 DEF MultiFunction
  <2>3. <<b, d>> \in machine.aliases
    BY <1>2 DEF Answers
  <2>4. \A e \in Present : <<e[1], e[2]>> \in machine.aliases => e[3] = 0
    BY MachineFacts
  <2>. QED
    BY <2>2, <2>3, <2>4
<1>. QED
  BY <1>1, <1>2

\* And nothing that is there is left out.
LEMMA AllTried ==
    ASSUME machine \in Machines, NEW e \in Present
    PROVE  e[3] < Tried(e[1], e[2])
<1>1. /\ e = <<e[1], e[2], e[3]>> /\ e[3] \in Nat /\ e[3] < Functions
  BY MachineFacts
<1>2. CASE e[3] = 0
  BY <1>1, <1>2, PCIAssumption DEF Tried
<1>3. CASE e[3] # 0
  <2>1. e[3] \in 1..Functions - 1
    BY <1>1, <1>3, PCIAssumption
  <2>2. MultiFunction(e[1], e[2])
    BY <1>1, <2>1 DEF MultiFunction
  <2>. QED
    BY <1>1, <2>2 DEF Tried
<1>. QED
  BY <1>2, <1>3

\* An entry is a bridge to a bus or none.
LEMMA BehindInt ==
    ASSUME machine \in Machines, NEW e \in Entries
    PROVE  Behind(e) \in Int /\ (Flat => Behind(e) = NoBus)
<1>1. <<e[1], e[2], 0>> \in Present
  BY FirstThere DEF Entries
<1>. QED
  BY <1>1, MachineFacts DEF Behind, Flat

-----------------------------------------------------------------------------
(* The stack of calls *)

\* What appending does to a sequence.
LEMMA Appended ==
    ASSUME NEW S, NEW s \in Seq(S), NEW x \in S
    PROVE  /\ Append(s, x) \in Seq(S)
           /\ Len(s) \in Nat /\ Len(Append(s, x)) = Len(s) + 1
           /\ DOMAIN s = 1..Len(s) /\ DOMAIN Append(s, x) = 1..Len(s) + 1
           /\ \A i \in 1..Len(s) : Append(s, x)[i] = s[i]
           /\ Append(s, x)[Len(s) + 1] = x
OBVIOUS

\* A call that returns leaves the ones around it as they were.
LEMMA Popped ==
    ASSUME NEW S, NEW s \in Seq(S), Len(s) > 0
    PROVE  /\ SubSeq(s, 1, Len(s) - 1) \in Seq(S)
           /\ Len(SubSeq(s, 1, Len(s) - 1)) = Len(s) - 1
           /\ Len(s) > 1 => SubSeq(s, 1, Len(s) - 1)[1] = s[1]
<1>1. Len(s) \in Nat
  OBVIOUS
<1>2. \A i \in 1..Len(s) - 1 : s[i] \in S
  OBVIOUS
<1> DEFINE n == Len(s) - 1
<1>3. n \in Nat /\ 1 \in Int
  BY <1>1
<1>4. \A i \in 1..n : s[i] \in S
  BY <1>2
<1> HIDE DEF n
<1>5. /\ SubSeq(s, 1, n) \in Seq(S)
      /\ Len(SubSeq(s, 1, n)) = IF 1 <= n THEN n - 1 + 1 ELSE 0
      /\ \A i \in 1..n - 1 + 1 : SubSeq(s, 1, n)[i] = s[1 + i - 1]
  BY <1>3, <1>4, SubSeqProperties
<1>6. /\ Len(SubSeq(s, 1, n)) = n
      /\ n > 0 => SubSeq(s, 1, n)[1] = s[1]
  BY <1>3, <1>5
<1>. QED
  BY <1>5, <1>6, <1>1 DEF n

\* The innermost call goes on; it is the outermost if it is alone.
LEMMA Advancing ==
    ASSUME ScanType, Len(calls) > 0
    PROVE  /\ Top \in Calls /\ Len(calls) \in Nat /\ calls[1] \in Calls
           /\ Advanced \in Seq(Calls) /\ Len(Advanced) = Len(calls)
           /\ Advanced[1].bus = calls[1].bus
           /\ Len(calls) > 1 => Advanced[1] = calls[1]
           /\ Len(calls) = 1 => /\ Top = calls[1]
                                /\ Advanced[1].device = calls[1].device + 1
                                /\ Advanced[1].function = 0
<1>1. calls \in Seq(Calls) /\ Len(calls) \in Nat /\ Top \in Calls /\ calls[1] \in Calls
  BY DEF ScanType, Top
<1> DEFINE next == [Top EXCEPT !.device = @ + 1, !.function = 0]
<1>2. next \in Calls /\ next.bus = Top.bus /\ next.device = Top.device + 1 /\ next.function = 0
  <2>1. Top.device + 1 \in Nat
    BY <1>1 DEF Calls
  <2>2. next \in Calls
    BY Zenon, <1>1, <2>1 DEF Calls
  <2>. QED
    BY <1>1, <2>2 DEF Calls
<1>3. Advanced = [calls EXCEPT ![Len(calls)] = next]
  BY DEF Advanced
<1> HIDE DEF next
<1>. QED
  BY <1>1, <1>2, <1>3 DEF Top

\* One more function of the innermost call.
LEMMA Counting ==
    ASSUME ScanType, Len(calls) > 0,
           calls' = [calls EXCEPT ![Len(calls)].function = @ + 1]
    PROVE  /\ calls' \in Seq(Calls) /\ Len(calls') = Len(calls)
           /\ calls'[1].bus = calls[1].bus
           /\ Len(calls) > 1 => calls'[1] = calls[1]
           /\ Len(calls) = 1 => /\ calls'[1].device = calls[1].device
                                /\ calls'[1].function = calls[1].function + 1
<1>1. calls \in Seq(Calls) /\ Len(calls) \in Nat /\ Top \in Calls
  BY DEF ScanType, Top
<1> DEFINE next == [Top EXCEPT !.function = @ + 1]
<1>2. /\ next \in Calls /\ next.bus = Top.bus /\ next.device = Top.device
      /\ next.function = Top.function + 1
  <2>1. /\ Top = [bus |-> Top.bus, device |-> Top.device, function |-> Top.function]
        /\ Top.bus \in Int /\ Top.device \in Nat /\ Top.function \in Nat
    BY <1>1 DEF Calls
  <2> HIDE DEF Top
  <2>2. /\ next.bus = Top.bus /\ next.device = Top.device
        /\ next.function = Top.function + 1
        /\ next = [bus |-> Top.bus, device |-> Top.device, function |-> Top.function + 1]
    BY <2>1
  <2>. QED
    BY <2>1, <2>2 DEF Calls
<1>3. calls' = [calls EXCEPT ![Len(calls)] = next]
  BY DEF Top
<1> HIDE DEF next
<1>. QED
  BY <1>1, <1>2, <1>3 DEF Top

\* Every step of PCI_init keeps the types.
LEMMA TypeStep ==
    ASSUME ScanType, PCI_scan_bus
    PROVE  ScanType'
<1>1. /\ outcome = "scanning" /\ machine' = machine /\ Len(calls) > 0
      /\ list \in Seq(Int \X Nat \X Nat) /\ calls \in Seq(Calls)
      /\ machine \in Machines
  BY DEF ScanType, PCI_scan_bus, SkipDevice, AddFunction, LookBehind, Return, InLoop
<1>2. \A e : (e \in Entries)' <=> e \in Entries
  BY <1>1 DEF Entries, Answers, Present
<1>3. CASE SkipDevice
  <2>1. calls' = Advanced /\ UNCHANGED <<machine, list, outcome>>
    BY <1>3 DEF SkipDevice
  <2>. QED
    BY <2>1, <1>1, <1>2, Advancing DEF ScanType
<1>4. CASE AddFunction
  <2>1. UNCHANGED <<machine, outcome>> /\ calls' \in Seq(Calls) /\ Len(calls') > 0
    BY <1>1, <1>4, Counting DEF AddFunction, ScanType
  <2> DEFINE e == <<Top.bus, Top.device, Top.function>>
  <2>2. e \in Int \X Nat \X Nat
    BY <1>1, Advancing DEF Calls
  <2>3. CASE Answers(Top.bus, Top.device, Top.function)
    <3>1. e \in Entries
      BY <2>2, <2>3 DEF Entries
    <3>2. list' = Append(list, e)
      BY <1>4, <2>3 DEF AddFunction
    <3> HIDE DEF e
    <3>3. list' \in Seq(Int \X Nat \X Nat) /\ \A i \in 1..Len(list') : list'[i] \in Entries
      <4>1. /\ list' \in Seq(Int \X Nat \X Nat)
            /\ Len(list) \in Nat /\ Len(list') = Len(list) + 1
            /\ \A i \in 1..Len(list) : list'[i] = list[i]
            /\ list'[Len(list) + 1] = e
        BY <1>1, <2>2, <3>2, Appended
      <4>2. \A i \in 1..Len(list') : i \in 1..Len(list) \/ i = Len(list) + 1
        BY <4>1
      <4>3. \A i \in 1..Len(list) : list[i] \in Entries
        BY DEF ScanType
      <4>. QED
        BY <3>1, <4>1, <4>2, <4>3, Zenon
    <3>. QED
      BY <2>1, <3>3, <1>1, <1>2 DEF ScanType
  <2>4. CASE list' = list
    BY <2>1, <2>4, <1>1, <1>2 DEF ScanType
  <2>. QED
    BY <1>4, <2>3, <2>4 DEF AddFunction
<1>5. CASE LookBehind
  <2>1. PICK bus \in BusesAt(list, Top.device) :
          IF bus = NoBus
          THEN calls' = Advanced /\ UNCHANGED outcome
          ELSE IF Len(calls) < MaxDepth
          THEN /\ calls' = Append(Advanced, [bus |-> bus, device |-> 0, function |-> 0])
               /\ UNCHANGED outcome
          ELSE outcome' = "overflow" /\ UNCHANGED calls
    BY <1>5 DEF LookBehind
  <2>2. bus \in Int
    <3>1. Top.device \in Nat
      BY <1>1, Advancing DEF Calls
    <3>2. CASE Top.device < Len(list)
      <4>1. list[Top.device + 1] \in Entries /\ bus = Behind(list[Top.device + 1])
        <5>1. Top.device + 1 \in 1..Len(list)
          <6>1. Len(list) \in Nat
            BY <1>1
          <6> DEFINE n == Len(list)
                     d == Top.device
          <6> HIDE DEF n, d
          <6>2. d \in Nat /\ n \in Nat /\ d < n
            BY <6>1, <3>1, <3>2 DEF n, d
          <6>3. d + 1 \in 1..n
            BY ONLY <6>2
          <6>. QED
            BY <6>3 DEF n, d
        <5>2. list[Top.device + 1] \in Entries
          BY <5>1 DEF ScanType
        <5>3. bus = Behind(list[Top.device + 1])
          BY <3>2 DEF BusesAt
        <5>. QED
          BY <5>2, <5>3
      <4>. QED
        BY <4>1, <1>1, BehindInt
    <3>3. CASE ~(Top.device < Len(list))
      <4>1. bus \in {NoBus} \cup 0..Buses - 1
        BY <3>3 DEF BusesAt
      <4>. QED
        BY <4>1, PCIAssumption DEF NoBus
    <3>. QED
      BY <3>2, <3>3
  <2>3. [bus |-> bus, device |-> 0, function |-> 0] \in Calls
    BY <2>2 DEF Calls
  <2>4. /\ calls' \in Seq(Calls) /\ Len(calls') > 0
        /\ outcome' \in {"scanning", "done", "overflow"}
    <3>1. Advanced \in Seq(Calls) /\ Len(Advanced) > 0
      BY <1>1, Advancing
    <3> DEFINE call == [bus |-> bus, device |-> 0, function |-> 0]
    <3>2. Append(Advanced, call) \in Seq(Calls) /\ Len(Append(Advanced, call)) > 0
      BY ONLY <2>3, <3>1
    <3>. QED
      BY <2>1, <3>1, <3>2, <1>1
  <2>. QED
    BY <2>4, <1>1, <1>2, <1>5 DEF ScanType, LookBehind
<1>6. CASE Return
  <2>1. calls' \in Seq(Calls) /\ (outcome' # "done" => Len(calls') > 0)
    <3>1. calls' = SubSeq(calls, 1, Len(calls) - 1) /\ (Len(calls) = 1 => outcome' = "done")
      BY <1>6 DEF Return
    <3>2. /\ SubSeq(calls, 1, Len(calls) - 1) \in Seq(Calls)
          /\ Len(SubSeq(calls, 1, Len(calls) - 1)) = Len(calls) - 1
      BY <1>1, Popped
    <3>. QED
      BY <3>1, <3>2, <1>1
  <2>. QED
    BY <2>1, <1>1, <1>2, <1>6 DEF ScanType, Return
<1>. QED
  BY <1>3, <1>4, <1>5, <1>6 DEF PCI_scan_bus

\* What a step adds to the list, and how far it gets the outermost call.
LEMMA OutermostStep ==
    ASSUME ScanType, Outermost, PCI_scan_bus
    PROVE  Outermost'
<1>1. /\ outcome = "scanning" /\ machine' = machine /\ Len(calls) > 0
      /\ machine \in Machines /\ Len(calls) \in Nat
      /\ list \in Seq(Int \X Nat \X Nat)
      /\ calls[1] \in Calls /\ calls[1].bus = 0
      /\ calls[1].device \in Nat /\ calls[1].function \in Nat
  <2>1. /\ outcome = "scanning" /\ machine' = machine /\ Len(calls) > 0
    BY DEF ScanType, PCI_scan_bus, SkipDevice, AddFunction, LookBehind, Return, InLoop
  <2>. QED
    BY <2>1, Advancing DEF ScanType, Outermost, Calls
<1>2. /\ Present' = Present
      /\ \A e \in Present : e[1] \in Nat /\ e[2] \in Nat /\ e[3] \in Nat
      /\ \A e \in Present : e[1] = 0 /\ Passed(e, calls[1]) => e \in Range(list)
  BY <1>1, MachineFacts DEF Present, Outermost
<1>3. \/ Len(calls) > 1
      \/ Len(calls) = 1 /\ Top = calls[1]
  <2>1. Len(calls) \in Nat /\ Len(calls) > 0
    BY <1>1
  <2>2. \A n \in Nat : n > 0 => n > 1 \/ n = 1
    OBVIOUS
  <2>3. Len(calls) > 1 \/ Len(calls) = 1
    BY Zenon, <2>1, <2>2
  <2>. QED
    BY <2>3 DEF Top
<1>4. ASSUME outcome' # "done", calls'[1] = calls[1], list' = list
      PROVE  Outermost'
  BY <1>1, <1>2, <1>4 DEF Outermost
\* Going on to the next device, all functions of this one having been tried.
<1>5. ASSUME outcome' # "done", list' = list, Len(calls') > 0, calls'[1] = Advanced[1],
             \A e \in Present : e[1] = Top.bus /\ e[2] = Top.device => e[3] < Top.function
      PROVE  Outermost'
  <2>1. CASE Len(calls) > 1
    BY <1>4, <1>5, <2>1, Advancing
  <2>2. CASE Len(calls) = 1
    <3>1. /\ Top = calls[1] /\ calls'[1].bus = 0
          /\ calls'[1].device = calls[1].device + 1
          /\ calls'[1].function = 0
      BY <1>1, <1>5, <2>2, Advancing
    <3>2. ASSUME NEW e \in Present, e[1] = 0, Passed(e, calls'[1])
          PROVE  Passed(e, calls[1])
      <4>1. e[2] \in Nat /\ e[3] \in Nat
        BY <1>2
      <4>2. e[2] < calls[1].device + 1
        BY <3>1, <3>2, <4>1, <1>1 DEF Passed
      <4>3. e[2] = calls[1].device => e[3] < calls[1].function
        BY <3>1, <3>2, <1>1, <1>5
      <4>. QED
        <5>1. calls[1].device \in Nat
          BY <1>1
        <5>2. e[2] < calls[1].device \/ e[2] = calls[1].device
          BY ONLY <5>1, <4>1, <4>2
        <5>. QED
          BY <5>2, <4>3 DEF Passed
    <3>. QED
      BY <3>1, <3>2, <1>2, <1>5 DEF Outermost
  <2>. QED
    BY <1>3, <2>1, <2>2
<1>6. CASE SkipDevice
  <2>1. \A e \in Present : ~(e[1] = Top.bus /\ e[2] = Top.device)
    <3>1. ASSUME NEW e \in Present, e[1] = Top.bus, e[2] = Top.device
          PROVE  FALSE
      BY <1>1, <1>6, <3>1, MachineFacts DEF SkipDevice, Answers
    <3>. QED
      BY <3>1
  <2>2. calls' = Advanced /\ list' = list /\ outcome' # "done"
    BY <1>1, <1>6 DEF SkipDevice
  <2>. QED
    BY <2>1, <2>2, <1>1, <1>5, Advancing
<1>7. CASE LookBehind
  <2>1. /\ list' = list /\ outcome' # "done"
        /\ \/ calls' = calls
           \/ calls' = Advanced
           \/ \E c : calls' = Append(Advanced, c)
    BY <1>1, <1>7 DEF LookBehind
  <2>2. \A e \in Present : e[1] = Top.bus /\ e[2] = Top.device => e[3] < Top.function
    <3>1. Top.function \in Nat /\ Top.function >= Tried(Top.bus, Top.device)
      BY <1>1, <1>7, Advancing DEF LookBehind, Calls
    <3>2. Tried(Top.bus, Top.device) \in Nat
      BY PCIAssumption DEF Tried
    <3>. QED
      BY <3>1, <3>2, <1>1, <1>2, AllTried
  <2>3. CASE calls' = calls
    BY <2>1, <2>3, <1>4
  <2>4. CASE calls' = Advanced
    BY <2>1, <2>2, <2>4, <1>1, <1>5, Advancing
  <2>5. CASE \E c : calls' = Append(Advanced, c)
    <3>1. Advanced \in Seq(Calls) /\ Len(Advanced) > 0
      BY <1>1, Advancing
    <3>2. calls'[1] = Advanced[1] /\ Len(calls') > 0
      BY <2>5, <3>1
    <3>. QED
      BY <2>1, <2>2, <3>2, <1>5
  <2>. QED
    BY <2>1, <2>3, <2>4, <2>5
<1>8. CASE AddFunction
  <2>1. /\ outcome' # "done"
        /\ calls'[1].bus = calls[1].bus
        /\ Len(calls) > 1 => calls'[1] = calls[1]
        /\ Len(calls) = 1 => /\ calls'[1].device = calls[1].device
                             /\ calls'[1].function = calls[1].function + 1
    BY <1>1, <1>8, Counting DEF AddFunction
  <2> DEFINE new == <<Top.bus, Top.device, Top.function>>
  <2>2. /\ \A e \in Range(list) : e \in Range(list')
        /\ new \in Present => new \in Range(list')
    <3>1. CASE Answers(Top.bus, Top.device, Top.function)
      <4>1. list' = Append(list, new)
        BY <1>8, <3>1 DEF AddFunction
      <4> HIDE DEF new
      <4>2. /\ Len(list) \in Nat /\ DOMAIN list = 1..Len(list)
            /\ list'[Len(list) + 1] = new /\ DOMAIN list' = 1..Len(list) + 1
            /\ \A i \in 1..Len(list) : list'[i] = list[i]
        <5>1. new \in Int \X Nat \X Nat
          BY <1>1, Advancing DEF Calls, new
        <5>. QED
          BY <4>1, <5>1, <1>1, Appended
      <4>3. \A i \in DOMAIN list : i \in DOMAIN list' /\ list'[i] = list[i]
        BY <4>2
      <4>4. Len(list) + 1 \in DOMAIN list'
        BY <4>2
      <4>. QED
        BY <4>2, <4>3, <4>4 DEF Range
    <3>2. CASE ~Answers(Top.bus, Top.device, Top.function)
      <4>1. list' = list
        BY <1>8, <3>2 DEF AddFunction
      <4>. QED
        BY <4>1, <3>2 DEF Answers
    <3>. QED
      BY <3>1, <3>2
  <2>3. ASSUME NEW e \in Present, e[1] = 0, Passed(e, calls'[1])
        PROVE  e \in Range(list')
    <3>1. CASE Passed(e, calls[1])
      BY <1>2, <2>2, <2>3, <3>1
    <3>2. CASE ~Passed(e, calls[1])
      <4>1. Len(calls) = 1 /\ Top = calls[1] /\ e[2] = calls[1].device /\ e[3] = calls[1].function
        <5>1. e[2] \in Nat /\ e[3] \in Nat
          BY <1>2
        <5>2. Len(calls) = 1 /\ Top = calls[1]
          BY <1>3, <2>1, <2>3, <3>2
        <5>3. /\ calls'[1].device = calls[1].device
              /\ calls'[1].function = calls[1].function + 1
          BY <2>1, <5>2
        <5>4. /\ e[2] < calls[1].device
                 \/ (e[2] = calls[1].device /\ e[3] < calls[1].function + 1)
              /\ ~(e[2] < calls[1].device)
              /\ ~(e[2] = calls[1].device /\ e[3] < calls[1].function)
          BY <2>3, <3>2, <5>3 DEF Passed
        <5>5. calls[1].device \in Nat /\ calls[1].function \in Nat
          BY <1>1
        <5>6. e[2] = calls[1].device /\ e[3] = calls[1].function
          BY ONLY <5>1, <5>4, <5>5
        <5>. QED
          BY <5>2, <5>6
      <4>2. e = new
        <5>1. e = <<e[1], e[2], e[3]>>
          BY <1>1, MachineFacts
        <5>2. e[1] = Top.bus /\ e[2] = Top.device /\ e[3] = Top.function
          BY <4>1, <1>1, <2>3
        <5>. QED
          BY <5>1, <5>2
      <4>. QED
        BY <4>2, <2>2
    <3>. QED
      BY <3>1, <3>2
  <2>. QED
    BY <1>1, <1>2, <2>1, <2>3 DEF Outermost
<1>9. CASE Return
  <2>1. list' = list /\ calls' = SubSeq(calls, 1, Len(calls) - 1)
    BY <1>9 DEF Return
  <2>2. CASE Len(calls) > 1
    <3>1. calls'[1] = calls[1] /\ outcome' # "done"
      BY <1>1, <1>9, <2>1, <2>2, Popped DEF Return, ScanType
    <3>. QED
      BY <2>1, <3>1, <1>4
  <2>3. CASE Len(calls) = 1
    <3>1. outcome' = "done" /\ calls[1].device >= Devices
      BY <1>1, <1>9, <2>3, <1>3 DEF Return
    <3>2. \A e \in Present : e[1] = 0 => Passed(e, calls[1])
      <4>1. \A e \in Present : e[2] \in Nat /\ e[2] < Devices
        BY <1>1, MachineFacts
      <4>. QED
        BY <3>1, <4>1, <1>1, PCIAssumption DEF Passed
    <3>. QED
      BY <2>1, <3>1, <3>2, <1>2 DEF Outermost
  <2>. QED
    BY <1>3, <2>2, <2>3
<1>. QED
  BY <1>6, <1>7, <1>8, <1>9 DEF PCI_scan_bus

\* Without bridges whatever lies at the index of the device number is none.
LEMMA NothingBehind ==
    ASSUME ScanType, Flat, LookBehind, Top.device \in Nat, Len(list) \in Nat
    PROVE  calls' = Advanced /\ outcome' = outcome
<1>1. PICK bus \in BusesAt(list, Top.device) :
        bus = NoBus => calls' = Advanced /\ UNCHANGED outcome
  BY DEF LookBehind
<1>2. bus = NoBus
  <2>1. CASE Top.device < Len(list)
    <3>1. list[Top.device + 1] \in Entries /\ bus = Behind(list[Top.device + 1])
      <4>1. Top.device + 1 \in 1..Len(list)
        <5>1. \A m, n \in Nat : m < n => m + 1 \in 1..n
          OBVIOUS
        <5>. QED
          BY Zenon, <2>1, <5>1
      <4>2. bus = Behind(list[Top.device + 1])
        BY <2>1 DEF BusesAt
      <4>. QED
        BY <4>1, <4>2 DEF ScanType
    <3>. QED
      BY <3>1, BehindInt DEF ScanType
  <2>2. CASE ~(Top.device < Len(list))
    BY <2>2 DEF BusesAt
  <2>. QED
    BY <2>1, <2>2
<1>. QED
  BY <1>1, <1>2

\* Without bridges the only call stays alone, and what it adds is new.
LEMMA AloneStep ==
    ASSUME ScanType, Outermost, Alone, PCI_scan_bus
    PROVE  Alone'
<1>1. /\ outcome = "scanning" /\ machine' = machine /\ Len(calls) > 0
      /\ machine \in Machines /\ list \in Seq(Int \X Nat \X Nat) /\ Len(list) \in Nat
  BY DEF ScanType, PCI_scan_bus, SkipDevice, AddFunction, LookBehind, Return, InLoop
<1> SUFFICES ASSUME Flat
             PROVE  Alone'
  BY <1>1 DEF Alone, Flat, Present
<1>2. /\ Present' = Present /\ Flat' = Flat
  BY <1>1 DEF Flat, Present
<1>3. /\ Len(calls) = 1
      /\ \A i \in 1..Len(list) : list[i] \in Present /\ Passed(list[i], calls[1])
      /\ \A i, j \in 1..Len(list) : list[i] = list[j] => i = j
  BY <1>1 DEF Alone
<1>4. /\ Top = calls[1] /\ Top.device \in Nat /\ Top.function \in Nat /\ Top.bus = 0
      /\ Advanced[1].device = Top.device + 1 /\ Advanced[1].function = 0
      /\ Len(Advanced) = 1
  BY <1>1, <1>3, Advancing DEF Calls, Outermost
<1>5. \A e \in Present : e[1] \in Nat /\ e[2] \in Nat /\ e[3] \in Nat
  BY <1>1, MachineFacts
\* A step without an addition, to the next device or to the end.
<1>6. ASSUME list' = list, outcome' \in {"scanning", "done"},
             outcome' = "scanning" =>
                Len(calls') = 1 /\ \A e \in Present : Passed(e, calls[1]) => Passed(e, calls'[1])
      PROVE  Alone'
  BY <1>2, <1>3, <1>6 DEF Alone
<1>7. ASSUME calls' = Advanced
      PROVE  /\ Len(calls') = 1
             /\ \A e \in Present : Passed(e, calls[1]) => Passed(e, calls'[1])
  BY <1>4, <1>5, <1>7 DEF Passed
<1>8. CASE SkipDevice
  BY <1>1, <1>6, <1>7, <1>8 DEF SkipDevice
<1>9. CASE LookBehind
  <2>1. calls' = Advanced /\ UNCHANGED <<list, outcome>>
    BY <1>1, <1>4, <1>9, NothingBehind DEF LookBehind
  <2>. QED
    BY <2>1, <1>1, <1>6, <1>7
<1>10. CASE Return
  BY <1>1, <1>3, <1>6, <1>10 DEF Return
<1>11. CASE AddFunction
  <2>1. /\ outcome' = "scanning" /\ Len(calls') = 1
        /\ calls'[1].device = Top.device
        /\ calls'[1].function = Top.function + 1
    BY <1>1, <1>3, <1>4, <1>11, Counting DEF AddFunction
  <2>2. \A e \in Present : Passed(e, calls[1]) => Passed(e, calls'[1])
    BY <1>4, <1>5, <2>1 DEF Passed
  <2>3. CASE list' = list
    BY <1>6, <2>1, <2>2, <2>3
  <2> DEFINE new == <<Top.bus, Top.device, Top.function>>
  <2>4. CASE Answers(Top.bus, Top.device, Top.function) /\ list' = Append(list, new)
    <3>1. new \in Present
      BY <1>1, <1>4, <1>11, <2>4, TriedThere DEF AddFunction
    <3>2. new[2] = Top.device /\ new[3] = Top.function
      OBVIOUS
    <3> HIDE DEF new
    <3>3. ~Passed(new, calls[1]) /\ Passed(new, calls'[1])
      BY <1>4, <2>1, <3>2 DEF Passed
    <3>4. /\ Len(list') = Len(list) + 1
          /\ \A i \in 1..Len(list) : list'[i] = list[i]
          /\ list'[Len(list) + 1] = new
      BY <1>1, <2>4
    <3>5. \A i \in 1..Len(list') : i \in 1..Len(list) \/ i = Len(list) + 1
      BY <1>1, <3>4
    <3>6. \A i \in 1..Len(list') : list'[i] \in Present /\ Passed(list'[i], calls'[1])
      BY <1>3, <2>2, <3>1, <3>3, <3>4, <3>5
    <3>7. \A i, j \in 1..Len(list') : list'[i] = list'[j] => i = j
      BY <1>3, <3>3, <3>4, <3>5
    <3>. QED
      BY <1>2, <2>1, <3>6, <3>7 DEF Alone
  <2>. QED
    BY <1>11, <2>3, <2>4 DEF AddFunction
<1>. QED
  BY <1>8, <1>9, <1>10, <1>11 DEF PCI_scan_bus

-----------------------------------------------------------------------------
(* PCI_init *)

\* PCI_get_bar is called for the device being printed only.
LEMMA BarsStep ==
    ASSUME ScanType, device \in Nat, Bars, PrintDevice
    PROVE  device' \in Nat /\ Bars'
<1>1. device' = device + 1
  BY DEF PrintDevice
<1>2. \A x \in DOMAIN bars' : x \in DOMAIN bars \/ x = <<device, 4>>
  <2>1. bars' = bars \/ bars' = PCI_get_bar(device, 5)
    BY DEF PrintDevice
  <2>. QED
    BY <2>1 DEF PCI_get_bar, Store
<1>3. \A x \in DOMAIN bars : x[1] \in 0..device' - 1 /\ x[2] = 4
  BY <1>1 DEF Bars
<1>. QED
  BY <1>1, <1>2, <1>3 DEF Bars

\* The invariant: the outermost call passes bus 0 function by function, it is
\* the only one on a flat machine, and BARs are stored behind the loop only.
THEOREM Inductive == PCISpec => []IInv
<1>1. PCIInit => IInv
  <2> SUFFICES ASSUME PCIInit
               PROVE  IInv
    OBVIOUS
  <2> USE DEF PCIInit, Init
  <2>1. [bus |-> 0, device |-> 0, function |-> 0] \in Calls
    BY DEF Calls
  <2>2. calls \in Seq(Calls) /\ Len(calls) = 1
    BY <2>1
  <2>3. calls[1].bus = 0 /\ calls[1].device = 0 /\ calls[1].function = 0
    OBVIOUS
  <2>4. list \in Seq(Int \X Nat \X Nat) /\ Len(list) = 0
    OBVIOUS
  <2>5. ScanType
    BY <2>2, <2>4 DEF ScanType
  <2>6. \A e \in Present : ~Passed(e, calls[1])
    <3>1. machine \in Machines
      OBVIOUS
    <3>2. \A e \in Present : e[2] \in Nat /\ e[3] \in Nat
      BY <3>1, MachineFacts
    <3>. QED
      BY <2>3, <3>2 DEF Passed
  <2>. QED
    BY <2>2, <2>3, <2>4, <2>5, <2>6 DEF IInv, Outermost, Alone, Bars
<1>2. IInv /\ [PCINext]_allvars => IInv'
  <2> SUFFICES ASSUME IInv, [PCINext]_allvars
               PROVE  IInv'
    OBVIOUS
  <2> USE DEF IInv
  <2>1. CASE PCI_scan_bus /\ UNCHANGED reporting
    BY <2>1, TypeStep, OutermostStep, AloneStep DEF reporting, Bars
  <2>2. ASSUME UNCHANGED vars
        PROVE  ScanType' /\ Outermost' /\ Alone'
    BY <2>2 DEF vars, ScanType, Entries, Answers, Present, Outermost, Alone, Flat
  <2>3. CASE PrintDevice
    BY <2>2, <2>3, BarsStep DEF PrintDevice
  <2>4. CASE UNCHANGED allvars
    BY <2>2, <2>4 DEF allvars, reporting, Bars
  <2>. QED
    BY <2>1, <2>3, <2>4 DEF PCINext, PCI_scan_bus, Over
<1>. QED
  BY <1>1, <1>2, PTL DEF PCISpec

\* On a machine without bridges the list is the set of its functions, each once.
THEOREM FlatScan == PCISpec => []FlatComplete
<1>1. IInv => FlatComplete
  <2> SUFFICES ASSUME IInv, outcome = "done", Flat
               PROVE  Range(list) = Present /\ Len(list) = Cardinality(Present)
    BY DEF FlatComplete
  <2>1. /\ machine \in Machines /\ list \in Seq(Int \X Nat \X Nat) /\ Len(list) \in Nat
        /\ \A i \in 1..Len(list) : list[i] \in Present
        /\ \A i, j \in 1..Len(list) : list[i] = list[j] => i = j
        /\ \A e \in Present : e[1] = 0 => e \in Range(list)
    <3>1. machine \in Machines /\ list \in Seq(Int \X Nat \X Nat)
      BY DEF IInv, ScanType
    <3>2. Len(list) \in Nat
      BY <3>1
    <3>3. /\ \A i \in 1..Len(list) : list[i] \in Present
          /\ \A i, j \in 1..Len(list) : list[i] = list[j] => i = j
      BY DEF IInv, Alone
    <3>4. \A e \in Present : e[1] = 0 => e \in Range(list)
      BY DEF IInv, Outermost
    <3>. QED
      BY <3>1, <3>2, <3>3, <3>4
  <2>2. Range(list) = Present
    <3>1. Present \subseteq Range(list)
      BY <2>1, MachineFacts
    <3>2. Range(list) \subseteq Present
      BY <2>1 DEF Range
    <3>. QED
      BY <3>1, <3>2
  <2>3. list \in Bijection(1..Len(list), Present)
    <3>1. list \in [1..Len(list) -> Present]
      BY <2>1
    <3>2. \A e \in Present : \E i \in 1..Len(list) : list[i] = e
      BY <2>1, <2>2 DEF Range
    <3>. QED
      BY <2>1, <3>1, <3>2 DEF Bijection, Injection, Surjection, IsInjective
  <2>4. IsFiniteSet(1..Len(list)) /\ Cardinality(1..Len(list)) = Len(list)
    BY <2>1, FS_Interval
  <2>5. Cardinality(Present) = Len(list)
    BY <2>3, <2>4, FS_Bijection DEF ExistsBijection
  <2>. QED
    BY <2>2, <2>5
<1>. QED
  BY <1>1, Inductive, PTL

\* Call d has got further than call c did.
Further(c, d) == c.device < d.device \/ (c.device = d.device /\ c.function < d.function)

\* Without bridges every step of PCI_init moves it on, within the devices of one
\* bus and their functions and then within the list: there are finitely many.
FlatForward ==
    [][Flat =>
         \/ /\ outcome = "scanning" /\ outcome' = "done" /\ list' = list
         \/ /\ outcome = "scanning" /\ outcome' = "scanning"
            /\ Further(calls[1], calls'[1])
            /\ calls'[1].device <= Devices /\ calls'[1].function <= Functions
         \/ /\ outcome = "done" /\ outcome' = "done" /\ list' = list
            /\ device' = device + 1 /\ device' <= Len(list)]_allvars

\* On a machine without bridges PCI_init cannot go round for ever, nor run out of
\* stack: only waiting could keep it from its end.
THEOREM FlatProgress == PCISpec => FlatForward
<1>1. ASSUME IInv, [PCINext]_allvars, Flat, ~UNCHANGED allvars
      PROVE  \/ /\ outcome = "scanning" /\ outcome' = "done" /\ list' = list
             \/ /\ outcome = "scanning" /\ outcome' = "scanning"
                /\ Further(calls[1], calls'[1])
                /\ calls'[1].device <= Devices /\ calls'[1].function <= Functions
             \/ /\ outcome = "done" /\ outcome' = "done" /\ list' = list
                /\ device' = device + 1 /\ device' <= Len(list)
  <2>1. machine \in Machines /\ Len(list) \in Nat /\ device \in Nat
    <3>1. list \in Seq(Int \X Nat \X Nat)
      BY <1>1 DEF IInv, ScanType
    <3>. QED
      BY <1>1, <3>1 DEF IInv, ScanType
  <2>2. Devices \in Nat /\ Functions \in Nat /\ Functions > 0
    BY PCIAssumption
  <2>3. ASSUME outcome = "scanning"
        PROVE  /\ Top = calls[1] /\ Len(calls) = 1 /\ Len(calls) > 0
               /\ Top.device \in Nat /\ Top.function \in Nat
               /\ Advanced[1].device = Top.device + 1 /\ Advanced[1].function = 0
    <3>1. Len(calls) = 1
      BY <1>1, <2>3 DEF IInv, Alone
    <3>. QED
      BY <1>1, <3>1, Advancing DEF IInv, Calls
  <2>4. ASSUME outcome = "scanning", outcome' = "scanning", calls' = Advanced,
               Top.device < Devices
        PROVE  /\ Further(calls[1], calls'[1])
               /\ calls'[1].device <= Devices /\ calls'[1].function <= Functions
    BY <2>2, <2>3, <2>4 DEF Further
  <2>5. CASE SkipDevice
    BY <2>4, <2>5 DEF SkipDevice, InLoop
  <2>6. CASE LookBehind
    <3>1. outcome = "scanning" /\ Top.device < Devices
      BY <2>6 DEF LookBehind, InLoop
    <3>2. calls' = Advanced /\ outcome' = outcome
      BY <1>1, <2>1, <2>3, <2>6, <3>1, NothingBehind DEF IInv
    <3>. QED
      BY <2>4, <3>1, <3>2
  <2>7. CASE AddFunction
    <3>1. /\ outcome = "scanning" /\ outcome' = outcome /\ Top.device < Devices
          /\ Top.function < Tried(Top.bus, Top.device)
      BY <2>7 DEF AddFunction, InLoop
    <3>2. /\ calls'[1].device = Top.device
          /\ calls'[1].function = Top.function + 1
      BY <1>1, <2>3, <2>7, <3>1, Counting DEF AddFunction, IInv
    <3>3. Top.function < Functions
      BY <2>2, <2>3, <3>1 DEF Tried
    <3>. QED
      BY <2>2, <2>3, <3>1, <3>2, <3>3 DEF Further
  <2>8. CASE Return
    BY <2>3, <2>8 DEF Return
  <2>9. CASE PrintDevice
    BY <2>1, <2>9 DEF PrintDevice, vars
  <2>. QED
    BY <1>1, <2>5, <2>6, <2>7, <2>8, <2>9 DEF PCINext, Over
<1>. QED
  BY <1>1, Inductive, PTL DEF PCISpec, FlatForward

\* On any machine a scan that ends has listed all of bus 0.
THEOREM Bus0Scan == PCISpec => []Bus0Complete
<1>1. IInv => Bus0Complete
  BY DEF IInv, Outermost, Bus0Complete
<1>. QED
  BY <1>1, Inductive, PTL

-----------------------------------------------------------------------------
(* What is printed of a device *)

\* The name of a device, whatever the two numbers read.
LEMMA Names ==
    ASSUME NEW v, NEW d
    PROVE  LET name == PCI_device_id_to_string(v, d)
               order == <<Intel, Realtek, QEMU, VirtualBox>>
               knows == \E k \in DOMAIN DeviceTable :
                           DeviceTable[k].vendor = v /\ d \in DeviceTable[k].ids
           IN  /\ knows => name = <<v, d>>
               /\ name # <<>> =>
                     \E i, j \in DOMAIN order :
                         i <= j /\ order[i] = v /\ order[j] = name[1]
<1> DEFINE own == {k \in DOMAIN DeviceTable : DeviceTable[k].vendor = v}
           hits == {k \in DOMAIN DeviceTable :
                       d \in DeviceTable[k].ids /\ \E e \in own : e <= k}
<1>1. /\ DOMAIN DeviceTable = 1..4
      /\ DeviceTable[1].vendor = Intel /\ DeviceTable[2].vendor = Realtek
      /\ DeviceTable[3].vendor = QEMU /\ DeviceTable[4].vendor = VirtualBox
  BY SMT DEF DeviceTable
<1>2. /\ Intel # Realtek /\ Intel # QEMU /\ Intel # VirtualBox
      /\ Realtek # QEMU /\ Realtek # VirtualBox /\ QEMU # VirtualBox
  BY SMT DEF Intel, Realtek, QEMU, VirtualBox
<1>3. \A i, j \in own : i = j
  BY <1>1, <1>2
<1>4. ASSUME hits # {}
      PROVE  /\ Min(hits) \in hits
             /\ \A k \in hits : Min(hits) <= k
  <2> HIDE DEF hits
  <2>1. hits \subseteq 1..4
    BY <1>1 DEF hits
  <2>2. \E k \in hits : \A j \in hits : k <= j
    <3>1. CASE 1 \in hits
      BY <2>1, <3>1
    <3>2. CASE 1 \notin hits /\ 2 \in hits
      BY <2>1, <3>2
    <3>3. CASE 1 \notin hits /\ 2 \notin hits /\ 3 \in hits
      BY <2>1, <3>3
    <3>4. CASE 1 \notin hits /\ 2 \notin hits /\ 3 \notin hits
      <4>1. \A j \in hits : j = 4
        BY <2>1, <3>4
      <4>2. PICK k \in hits : TRUE
        BY <1>4
      <4>3. \A j \in hits : k <= j
        BY <4>1
      <4>. QED
        BY <4>3
    <3>. QED
      BY <3>1, <3>2, <3>3, <3>4
  <2>. QED
    BY <2>2 DEF Min
<1>5. CASE hits = {}
  <2>1. PCI_device_id_to_string(v, d) = <<>>
    BY <1>5 DEF PCI_device_id_to_string
  <2>2. \A k \in DOMAIN DeviceTable :
           ~(DeviceTable[k].vendor = v /\ d \in DeviceTable[k].ids)
    BY <1>1, <1>5
  <2>. QED
    BY <2>1, <2>2
<1>6. CASE hits # {}
  <2>1. PCI_device_id_to_string(v, d) = <<DeviceTable[Min(hits)].vendor, d>>
    BY <1>6 DEF PCI_device_id_to_string
  <2> DEFINE m == Min(hits)
  <2>2. /\ m \in 1..4 /\ \A k \in hits : m <= k
        /\ \E e \in own : e <= m
    BY <1>1, <1>4, <1>6
  <2> HIDE DEF m
  <2>3. PICK e \in own : e <= m
    BY <2>2
  <2>4. ASSUME NEW k \in DOMAIN DeviceTable,
               DeviceTable[k].vendor = v, d \in DeviceTable[k].ids
        PROVE  PCI_device_id_to_string(v, d) = <<v, d>>
    <3>1. k \in own
      BY <2>4
    <3>2. k \in hits
      BY <1>1, <2>4, <3>1
    <3>3. e = k
      BY <1>3, <3>1
    <3>4. m = k
      BY <1>1, <2>2, <2>3, <3>2, <3>3
    <3>. QED
      BY <2>1, <2>4, <3>4 DEF m
  <2>5. LET order == <<Intel, Realtek, QEMU, VirtualBox>>
        IN  /\ e \in DOMAIN order /\ m \in DOMAIN order /\ e <= m
            /\ order[e] = v /\ order[m] = DeviceTable[m].vendor
    BY SMT, <1>1, <2>2, <2>3
  <2>6. PCI_device_id_to_string(v, d)[1] = DeviceTable[m].vendor
    BY <2>1 DEF m
  <2>. QED
    BY <2>4, <2>5, <2>6
<1>. QED
  BY <1>5, <1>6

\* The ports AHCI_init logs.
LEMMA Logged ==
    ASSUME NEW prog_if, NEW hba,
           \A p \in hba.pi : hba.ports[p + 1] \in [ssts : Nat, sig : Signatures]
    PROVE  {d.port : d \in AHCI_init(prog_if, hba)} =
             IF Probed(prog_if)
             THEN {p \in hba.pi : /\ hba.ports[p + 1].ssts % 8 = 3
                                  /\ (hba.ports[p + 1].ssts \div 256) % 8 = 1
                                  /\ hba.ports[p + 1].sig # "other"}
             ELSE {}
<1>1. \A q \in [ssts : Nat, sig : Signatures] :
         AHCI_check_port_type(q) # 0 <=> /\ q.ssts % 8 = 3 /\ (q.ssts \div 256) % 8 = 1
                                         /\ q.sig # "other"
  BY DEF AHCI_check_port_type, Signatures, SIG_SATA_ATA, SIG_SATA_ATAPI, SIG_SATA_PM,
     SATA_ATA, SATA_ATAPI, SATA_PM
<1>2. CASE Probed(prog_if)
  <2> DEFINE logged == {q \in hba.pi : AHCI_check_port_type(hba.ports[q + 1]) # 0}
  <2>1. AHCI_init(prog_if, hba) =
           {[port |-> p, type |-> AHCI_check_port_type(hba.ports[p + 1])] : p \in logged}
    BY <1>2 DEF AHCI_init
  <2>2. {d.port : d \in AHCI_init(prog_if, hba)} = logged
    <3> HIDE DEF logged
    <3>1. ASSUME NEW p \in logged
          PROVE  p \in {d.port : d \in AHCI_init(prog_if, hba)}
      <4> DEFINE found == [port |-> p, type |-> AHCI_check_port_type(hba.ports[p + 1])]
      <4>1. found \in AHCI_init(prog_if, hba)
        BY <2>1
      <4>2. found.port = p
        OBVIOUS
      <4>. QED
        BY <4>1, <4>2
    <3>2. ASSUME NEW d \in AHCI_init(prog_if, hba)
          PROVE  d.port \in logged
      BY <2>1
    <3>. QED
      BY <3>1, <3>2
  <2>. QED
    BY <1>1, <1>2, <2>2
<1>3. CASE ~Probed(prog_if)
  BY <1>3 DEF AHCI_init
<1>. QED
  BY <1>2, <1>3

\* What each line of the report says is fixed by its entry.
NameOf(l) == l.name = PCI_device_id_to_string(RegsOf(l.entry).vendor, RegsOf(l.entry).device)

DrivesOf(l) ==
    LET r == RegsOf(l.entry)
        readable == IsSata(r) /\ Probed(r.prog_if) /\ r.header = 0 /\ r.abar # Null
        up(p) == p.ssts % 8 = 3 /\ (p.ssts \div 256) % 8 = 1 /\ p.sig # "other"
        attached == {p \in machine.hba[r.abar].pi : up(machine.hba[r.abar].ports[p + 1])}
    IN  {d.port : d \in l.drives} = IF readable THEN attached ELSE {}

Reported == report \in Seq(Lines) /\ \A l \in Lines : NameOf(l) /\ DrivesOf(l)

\* The drives of the device printed: its adapter's, or those of a NULL pi.
LEMMA Drives ==
    ASSUME IInv, PrintDevice
    PROVE  LET r == RegsOf(list[device + 1])
               hba == Adapter(BAR(bars', device, 4), bars')
           IN  DrivesOf([entry |-> list[device + 1], drives |->
                           IF IsSata(r) THEN AHCI_init(r.prog_if, hba) ELSE {}])
<1> DEFINE e == list[device + 1]
           r == RegsOf(e)
<1>1. /\ machine \in Machines /\ outcome = "done" /\ device \in Nat
      /\ Len(list) \in Nat /\ device < Len(list)
  BY DEF IInv, ScanType, PrintDevice
<1>2. e \in Entries
  <2>1. device + 1 \in 1..Len(list)
    BY <1>1
  <2>. QED
    BY <2>1 DEF IInv, ScanType
<1>3. /\ r.abar \in {Null} \cup DOMAIN machine.hba
      /\ DOMAIN machine.hba \subseteq SUBSET (0..Ports - 1) \ {Null}
      /\ \A a \in DOMAIN machine.hba :
            /\ machine.hba[a].pi \subseteq 0..Ports - 1
            /\ machine.hba[a].ports \in [1..Ports -> [ssts : Nat, sig : Signatures]]
  <2>1. <<e[1], e[2], 0>> \in Present
    BY <1>1, <1>2, FirstThere DEF Entries
  <2>2. PICK g \in Present : r = machine.regs[g]
    BY <2>1 DEF RegsOf
  <2>. QED
    BY <2>2, <1>1, RegistersAssumption DEF Present
<1>4. /\ IsSata(r) /\ r.header = 0 => bars' = Store(<<device, 4>>, r.abar)
      /\ ~(IsSata(r) /\ r.header = 0) => bars' = bars
  BY DEF PrintDevice, PCI_get_bar
<1>5. \A x \in DOMAIN bars : x[1] \in 0..device - 1 /\ x[2] = 4
  BY DEF IInv, Bars
<1>6. BAR(bars', 0, 0) = Null
  <2>1. \A x \in DOMAIN bars' : x[2] = 4
    BY <1>4, <1>5 DEF Store
  <2>2. <<0, 0>>[2] = 0
    OBVIOUS
  <2>. QED
    BY <2>1, <2>2 DEF BAR
<1>7. BAR(bars', device, 4) = IF IsSata(r) /\ r.header = 0 THEN r.abar ELSE Null
  <2>1. CASE IsSata(r) /\ r.header = 0
    BY <1>4, <2>1 DEF BAR, Store
  <2>2. CASE ~(IsSata(r) /\ r.header = 0)
    <3>1. <<device, 4>> \notin DOMAIN bars'
      BY <1>1, <1>4, <1>5, <2>2
    <3>. QED
      BY <2>2, <3>1 DEF BAR
  <2>. QED
    BY <2>1, <2>2
<1> HIDE DEF r
<1> DEFINE hba == Adapter(BAR(bars', device, 4), bars')
           found == IF IsSata(r) THEN AHCI_init(r.prog_if, hba) ELSE {}
<1>8. CASE IsSata(r) /\ r.header = 0 /\ r.abar # Null
  <2>1. hba = machine.hba[r.abar]
    BY <1>7, <1>8 DEF Adapter
  <2>2. r.abar \in DOMAIN machine.hba
    BY <1>3, <1>8
  <2> HIDE DEF hba
  <2>3. /\ hba.pi \subseteq 0..Ports - 1
        /\ hba.ports \in [1..Ports -> [ssts : Nat, sig : Signatures]]
    BY <1>3, <2>1, <2>2
  <2>4. \A p \in 0..Ports - 1 : p + 1 \in 1..Ports
    BY RegistersAssumption
  <2>5. \A p \in hba.pi : hba.ports[p + 1] \in [ssts : Nat, sig : Signatures]
    BY <2>3, <2>4
  <2> DEFINE Attached(a) == IF Probed(r.prog_if)
                            THEN {p \in a.pi : /\ a.ports[p + 1].ssts % 8 = 3
                                               /\ (a.ports[p + 1].ssts \div 256) % 8 = 1
                                               /\ a.ports[p + 1].sig # "other"}
                            ELSE {}
  <2>6. {d.port : d \in AHCI_init(r.prog_if, hba)} = Attached(hba)
    BY <2>5, Logged
  <2>7. found = AHCI_init(r.prog_if, hba)
    BY <1>8
  <2> DEFINE l == [entry |-> e, drives |-> found]
  <2>8. l.entry = e /\ l.drives = found
    OBVIOUS
  <2> HIDE DEF l, found, e
  <2>9. RegsOf(l.entry) = r /\ IsSata(r) /\ r.header = 0 /\ r.abar # Null
    BY <1>8, <2>8 DEF r
  <2> HIDE DEF Attached
  <2>10. {d.port : d \in l.drives} = Attached(machine.hba[r.abar])
    BY <2>1, <2>6, <2>7, <2>8
  <2>11. DrivesOf(l)
    BY <2>9, <2>10, Zenon DEF DrivesOf, Attached
  <2>. QED
    BY <2>11 DEF l, found, hba, r, e
<1>9. CASE ~(IsSata(r) /\ r.header = 0 /\ r.abar # Null)
  <2>1. hba.pi = {}
    BY <1>6, <1>7, <1>9 DEF Adapter, Null
  <2>2. {d.port : d \in found} = {}
    BY <2>1 DEF AHCI_init
  <2>. QED
    BY <1>9, <2>2 DEF DrivesOf, r
<1>. QED
  BY <1>8, <1>9

\* Appending to a report adds one line to its lines.
LEMMA LinesStep ==
    ASSUME NEW S, NEW s \in Seq(S), NEW x
    PROVE  /\ Append(s, x) \in Seq(S \cup {x})
           /\ {Append(s, x)[i] : i \in DOMAIN Append(s, x)} = {s[i] : i \in DOMAIN s} \cup {x}
<1>1. s \in Seq(S \cup {x}) /\ Len(s) \in Nat
  OBVIOUS
<1> DEFINE t == Append(s, x)
<1>2. /\ t \in Seq(S \cup {x}) /\ Len(t) = Len(s) + 1
      /\ \A i \in 1..Len(s) : t[i] = s[i]
      /\ t[Len(s) + 1] = x
  BY <1>1
<1> HIDE DEF t
<1>3. /\ DOMAIN s = 1..Len(s) /\ DOMAIN t = 1..Len(t)
      /\ \A i \in 1..Len(t) : i \in 1..Len(s) \/ i = Len(s) + 1
      /\ 1..Len(s) \subseteq 1..Len(t) /\ Len(s) + 1 \in 1..Len(t)
  BY <1>1, <1>2
<1>4. {t[i] : i \in DOMAIN t} = {s[i] : i \in DOMAIN s} \cup {x}
  BY <1>2, <1>3
<1>. QED
  BY <1>2, <1>4 DEF t

\* Every line printed keeps meaning what it meant: the machine does not change.
LEMMA ReportedAlways == PCISpec => []Reported
<1>1. PCIInit => Reported
  BY DEF PCIInit, Reported, Lines
<1>2. IInv /\ Reported /\ [PCINext]_allvars => Reported'
  <2> SUFFICES ASSUME IInv, Reported, [PCINext]_allvars
               PROVE  Reported'
    OBVIOUS
  <2>1. machine' = machine
    BY DEF PCINext, PrintDevice, SkipDevice, AddFunction, LookBehind, Return, Over,
       vars, allvars
  <2>2. \A l : NameOf(l)' = NameOf(l) /\ DrivesOf(l)' = DrivesOf(l)
    BY <2>1 DEF NameOf, DrivesOf, RegsOf, Present
  <2>3. CASE report' = report
    BY <2>2, <2>3 DEF Reported, Lines
  <2>4. CASE PrintDevice
    <3> DEFINE r == RegsOf(list[device + 1])
               found == IF IsSata(r)
                        THEN AHCI_init(r.prog_if, Adapter(BAR(bars', device, 4), bars'))
                        ELSE {}
               line == [entry |-> list[device + 1],
                        class |-> PCI_id_to_string(r.class, r.subclass),
                        vendor |-> PCI_vendor_to_string(r.vendor),
                        name |-> PCI_device_id_to_string(r.vendor, r.device),
                        drives |-> found]
    <3>1. report' = Append(report, line)
      BY <2>4 DEF PrintDevice
    <3>2. NameOf(line)
      BY DEF NameOf
    <3>3. DrivesOf([entry |-> list[device + 1], drives |-> found])
      BY <2>4, Drives
    <3>4. DrivesOf(line)
      BY <3>3 DEF DrivesOf
    <3> HIDE DEF line
    <3>5. Lines' = Lines \cup {line} /\ report' \in Seq(Lines')
      BY <3>1, LinesStep DEF Lines, Reported
    <3>. QED
      BY <2>2, <3>2, <3>4, <3>5 DEF Reported
  <2>. QED
    BY <2>3, <2>4 DEF PCINext, Over, reporting, allvars
<1>. QED
  BY <1>1, <1>2, Inductive, PTL DEF PCISpec

\* Every line of the report gives a device its own vendor's name or one of the
\* cases below, and none to the others.
THEOREM OwnNames == PCISpec => []NamedByOwnVendor
<1>1. Reported => NamedByOwnVendor
  BY Names DEF NamedByOwnVendor, Reported, NameOf
<1>. QED
  BY <1>1, ReportedAlways, PTL

\* Every controller's line has the drives attached to its own adapter.
THEOREM OwnDrives == PCISpec => []DrivesAsAttached
<1>1. Reported => DrivesAsAttached
  BY DEF DrivesAsAttached, Reported, DrivesOf
<1>. QED
  BY <1>1, ReportedAlways, PTL
=============================================================================
