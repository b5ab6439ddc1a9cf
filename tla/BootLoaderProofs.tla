--------------------------- MODULE BootLoaderProofs ---------------------------
(***************************************************************************)
(* What the boot loader leaves to the kernel, for a kernel, a buffer, a    *)
(* memory map and page tables of any size, whatever the BIOS and the       *)
(* keyboard controller answer.                                             *)
(***************************************************************************)
EXTENDS BootLoader, FiniteSetTheorems, SequenceTheorems, TLAPS

-----------------------------------------------------------------------------
(* The memory map as a list of the ranges that are kept. *)

LEMMA Ranks ==
    ASSUME NEW S, IsFiniteSet(S), S \subseteq Nat
    PROVE  /\ Cardinality(S) \in Nat
           /\ \A j \in S : Cardinality({k \in S : k <= j}) \in 1 .. Cardinality(S)
<1>1. Cardinality(S) \in Nat
  BY FS_CardinalityType
<1>2. ASSUME NEW j \in S PROVE Cardinality({k \in S : k <= j}) \in 1 .. Cardinality(S)
  <2> DEFINE B == {k \in S : k <= j}
  <2>1. B \subseteq S /\ j \in B
    OBVIOUS
  <2>2. IsFiniteSet(B) /\ Cardinality(B) <= Cardinality(S)
    BY <2>1, FS_Subset
  <2>3. Cardinality(B) \in Nat /\ Cardinality(B) # 0
    BY <2>1, <2>2, FS_CardinalityType, FS_EmptySet
  <2> QED BY <1>1, <2>2, <2>3
<1> QED BY <1>1, <1>2

LEMMA RanksMore ==
    ASSUME NEW S, IsFiniteSet(S), S \subseteq Nat, NEW n \in Nat, \A k \in S : k < n
    PROVE  /\ IsFiniteSet(S \union {n}) /\ Cardinality(S \union {n}) = Cardinality(S) + 1
           /\ \A j \in S : {k \in S \union {n} : k <= j} = {k \in S : k <= j}
           /\ {k \in S \union {n} : k <= n} = S \union {n}
<1>1. n \notin S
  OBVIOUS
<1>2. IsFiniteSet(S \union {n}) /\ Cardinality(S \union {n}) = Cardinality(S) + 1
  BY <1>1, FS_AddElement
<1>3. \A j \in S : {k \in S \union {n} : k <= j} = {k \in S : k <= j}
  OBVIOUS
<1>4. {k \in S \union {n} : k <= n} = S \union {n}
  <2>1. \A k \in S \union {n} : k <= n
    OBVIOUS
  <2> QED BY <2>1
<1> QED BY <1>2, <1>3, <1>4

LEMMA KeptAre ==
    ASSUME reported \in Seq(Reports)
    PROVE  /\ IsFiniteSet(KeptReports) /\ KeptReports \subseteq Nat
           /\ \A j \in KeptReports : j \in 1 .. Len(reported)
<1>1. KeptReports \subseteq 1 .. Len(reported) /\ Len(reported) \in Nat
  BY DEF KeptReports
<1>2. IsFiniteSet(1 .. Len(reported))
  BY <1>1, FS_Interval
<1>3. IsFiniteSet(KeptReports)
  BY <1>1, <1>2, FS_Subset
<1> QED BY <1>1, <1>3

\* A range behind those that are kept.
LEMMA MapMore ==
    ASSUME reported \in Seq(Reports), NEW m \in Seq(Reports), MapIs(m, KeptReports),
           NEW r \in Reports, reported' = Append(reported, r)
    PROVE  /\ MapIs(Append(m, r), KeptReports \union {Len(reported)})'
           /\ KeptReports' = IF Kept(r) THEN KeptReports \union {Len(reported')} ELSE KeptReports
           /\ Len(m) = Cardinality(KeptReports)
<1>0. PICK n : n = Len(reported) + 1
  OBVIOUS
<1>1. /\ reported' \in Seq(Reports) /\ Len(reported') = n /\ Len(reported) \in Nat /\ n \in Nat
      /\ reported'[n] = r /\ \A j \in 1 .. Len(reported) : reported'[j] = reported[j]
      /\ DOMAIN reported' = 1 .. n /\ DOMAIN reported = 1 .. Len(reported)
  BY <1>0
<1>2. KeptReports' = IF Kept(r) THEN KeptReports \union {n} ELSE KeptReports
  BY <1>1 DEF KeptReports
<1>3. PICK S : S = KeptReports
  OBVIOUS
<1>4. /\ IsFiniteSet(S) /\ S \subseteq Nat
      /\ \A j \in S : j \in 1 .. Len(reported) /\ j < n
      /\ n \in Nat /\ \A j \in S : j < n
  BY <1>0, <1>1, <1>3, KeptAre
<1>5. Len(m) = Cardinality(S) /\ \A j \in S : m[Cardinality({k \in S : k <= j})] = reported[j]
  BY <1>3 DEF MapIs
<1>6. /\ IsFiniteSet(S \union {n}) /\ Cardinality(S \union {n}) = Cardinality(S) + 1
      /\ \A j \in S : {k \in S \union {n} : k <= j} = {k \in S : k <= j}
      /\ {k \in S \union {n} : k <= n} = S \union {n}
  BY <1>4, RanksMore
<1>7. /\ Len(Append(m, r)) = Len(m) + 1 /\ Append(m, r)[Len(m) + 1] = r
      /\ \A i \in 1 .. Len(m) : Append(m, r)[i] = m[i]
  OBVIOUS
<1>8. PICK a : a = Append(m, r)
  OBVIOUS
<1>9. Len(a) = Cardinality(S \union {n})
  BY <1>5, <1>6, <1>7, <1>8
<1>10. ASSUME NEW j \in S \union {n}
       PROVE  a[Cardinality({k \in S \union {n} : k <= j})] = reported'[j]
  <2>1. CASE j \in S
    <3>1. Cardinality({k \in S : k <= j}) \in 1 .. Cardinality(S)
      BY <1>4, <2>1, Ranks
    <3>2. a[Cardinality({k \in S : k <= j})] = m[Cardinality({k \in S : k <= j})]
      BY <1>5, <1>7, <1>8, <3>1
    <3>3. reported'[j] = reported[j]
      BY <1>1, <1>4, <2>1
    <3> QED BY <1>5, <1>6, <2>1, <3>2, <3>3
  <2>2. CASE j = n
    <3>1. a[Len(m) + 1] = r
      BY <1>7, <1>8
    <3>2. {k \in S \union {n} : k <= j} = S \union {n}
      BY <1>6, <2>2
    <3>3. Cardinality({k \in S \union {n} : k <= j}) = Len(m) + 1
      BY <1>5, <1>6, <3>2
    <3> QED BY <1>1, <2>2, <3>1, <3>3
  <2> QED BY <2>1, <2>2
<1>11. MapIs(a, S \union {n})'
  <2>1. \A j \in S \union {n} : a[Cardinality({k \in S \union {n} : k <= j})] = reported'[j]
    BY <1>10
  <2> QED BY <1>9, <2>1 DEF MapIs
<1>12. KeptReports' = IF Kept(r) THEN KeptReports \union {Len(reported')} ELSE KeptReports
  BY <1>1, <1>2
<1>13. MapIs(a, KeptReports \union {Len(reported)})'
  <2>1. (KeptReports \union {Len(reported)})' = S \union {n}
    BY <1>1, <1>2, <1>3
  <2> QED BY <1>11, <2>1
<1> QED BY <1>3, <1>5, <1>8, <1>12, <1>13

\* What was in the map before stays what it was.
LEMMA MapSame ==
    ASSUME reported \in Seq(Reports), NEW m \in Seq(Reports), MapIs(m, KeptReports),
           NEW r \in Reports, reported' = Append(reported, r), ~Kept(r)
    PROVE  MapIs(m, KeptReports)'
<1>1. \A j \in 1 .. Len(reported) : reported'[j] = reported[j]
  OBVIOUS
<1>2. PICK S : S = KeptReports
  OBVIOUS
<1>3. KeptReports' = S
  BY <1>2, MapMore
<1>4. \A j \in S : reported'[j] = reported[j]
  BY <1>1, <1>2, KeptAre
<1>5. MapIs(m, S)'
  BY <1>2, <1>4 DEF MapIs
<1> QED BY <1>3, <1>5

-----------------------------------------------------------------------------
(* Types and the A20 gate. *)

LEMMA SizesAre ==
    /\ KernelSectors \in Nat /\ FirstLba \in Nat /\ LoopSectors \in Nat /\ BufferSectors \in Nat
    /\ PageEntries \in Nat /\ PageEntries > 1
BY SizesAssumption DEF FirstLba

\* A test leaves two words where two were, and only an open gate lets it find
\* its first pattern.
LEMMA TestIs ==
    ASSUME BootTypeOK
    PROVE  DOMAIN A20Test.words = {"low", "high"} /\ (A20Test.opened => gate)
<1> DEFINE lowPattern == [probe EXCEPT !["low"] = "4321"]
           bothPatterns == [lowPattern EXCEPT ![At("high")] = "1234"]
           lowRestored == [bothPatterns EXCEPT !["low"] = probe[At("high")]]
<1>1. DOMAIN probe = {"low", "high"} /\ gate \in BOOLEAN
  BY DEF BootTypeOK
<1>2. DOMAIN bothPatterns = {"low", "high"} /\ DOMAIN lowPattern = {"low", "high"}
  BY <1>1
<1>3. A20Test = [opened |-> bothPatterns["low"] = "4321",
                 words |-> [lowRestored EXCEPT ![At("high")] = probe["low"]]]
  BY DEF A20Test
<1>4. ~gate => bothPatterns["low"] = "1234"
  BY <1>1, <1>2 DEF At
<1>5. A20Test.opened <=> bothPatterns["low"] = "4321"
  BY <1>3
<1>6. A20Test.words = [lowRestored EXCEPT ![At("high")] = probe["low"]]
  BY <1>3
<1>7. DOMAIN A20Test.words = {"low", "high"}
  BY <1>2, <1>6
<1> HIDE DEF bothPatterns
<1>8. A20Test.opened => gate
  BY <1>1, <1>4, <1>5
<1> QED BY <1>7, <1>8

LEMMA TestKeeps ==
    ASSUME BootTypeOK, NEW here, NEW next, Test(here, next)
    PROVE  /\ BootTypeOK' /\ ip = here /\ ip' \in {"query", next} /\ (ip' # next => gate)
           /\ UNCHANGED <<gate, kbc, kbd, early, mapVars, load, kernel, pageTables>>
<1>1. DOMAIN probe' = {"low", "high"}
  BY TestIs DEF Test
<1> QED BY <1>1, TestIs DEF Test, BootTypeOK, mapVars

\* A20KeyboardEnable, from one wait to the next.
LEMMA EnableIs ==
    ASSUME BootTypeOK, A20KeyboardEnable
    PROVE  /\ ip = "keyboard" /\ ip' \in {"keyboard", "enabled"} /\ kbc.input = "none"
           /\ kbc' \in [input : {"none", "data", "AD", "D0", "D1", "AE"}, data : PortByte,
                        expects : BOOLEAN, owes : BOOLEAN, out : PortByte]
           /\ kbd' \in [step : 1 .. 7, al : PortByte] /\ early' \in BOOLEAN
           /\ kbc'.owes = kbc.owes /\ kbc'.out = kbc.out
           /\ kbd.step # 5 => kbc'.data = kbc.data
           /\ kbd.step = 5 => kbc'.data.a20 /\ (kbd.al.run => kbc'.data.run)
           /\ kbd.step = 2 => kbc'.input = "D0"
           /\ kbd'.step = (IF kbd.step < 7 THEN kbd.step + 1 ELSE kbd.step)
           /\ kbd.step # 3 => kbd'.al = kbd.al /\ early' = early
           /\ kbd.step = 3 => kbd'.al = kbc.out /\ early' = kbc.owes
<1>1. /\ kbc \in [input : {"none", "data", "AD", "D0", "D1", "AE"}, data : PortByte,
                  expects : BOOLEAN, owes : BOOLEAN, out : PortByte]
      /\ kbd \in [step : 1 .. 7, al : PortByte] /\ early \in BOOLEAN
  BY DEF BootTypeOK
<1>2. ip = "keyboard" /\ kbc.input = "none"
  BY DEF A20KeyboardEnable, KeyboardWaitInput
<1>3. ASSUME NEW step \in {1, 2, 4, 6}, NEW command \in {"AD", "D0", "D1", "AE"},
             step = 2 => command = "D0", SendCommand(step, command)
      PROVE  /\ kbd.step = step /\ kbc'.input = command /\ UNCHANGED <<ip, early>>
             /\ kbc'.owes = kbc.owes /\ kbc'.out = kbc.out /\ kbc'.data = kbc.data
             /\ kbc' \in [input : {"none", "data", "AD", "D0", "D1", "AE"}, data : PortByte,
                          expects : BOOLEAN, owes : BOOLEAN, out : PortByte]
             /\ kbd' \in [step : 1 .. 7, al : PortByte]
             /\ kbd'.step = step + 1 /\ kbd'.al = kbd.al
  BY <1>1, <1>3 DEF SendCommand
<1>4. CASE \E step \in {1, 2, 4, 6}, command \in {"AD", "D0", "D1", "AE"} :
              (step = 2 => command = "D0") /\ SendCommand(step, command)
  <2>1. PICK step \in {1, 2, 4, 6}, command \in {"AD", "D0", "D1", "AE"} :
            (step = 2 => command = "D0") /\ SendCommand(step, command)
    BY <1>4
  <2>2. kbd.step = step /\ kbd.step \in {1, 2, 4, 6}
    BY <1>3, <2>1
  <2>3. kbd'.step = kbd.step + 1 /\ kbd.step < 7 /\ kbd.step # 5 /\ kbd.step # 3
    BY <1>3, <2>1, <2>2
  <2> QED BY <1>1, <1>2, <1>3, <2>1, <2>2, <2>3
<1>5. CASE ReadOutput
  <2>1. /\ kbd.step = 3 /\ kbd' = [step |-> 4, al |-> kbc.out] /\ early' = kbc.owes
        /\ UNCHANGED <<kbc, ip>>
    BY <1>5 DEF ReadOutput
  <2>2. kbd' \in [step : 1 .. 7, al : PortByte] /\ kbd'.step = 4 /\ kbd'.al = kbc.out
    BY <1>1, <2>1
  <2> QED BY <1>1, <1>2, <2>1, <2>2
<1>6. CASE SendOutput
  <2>1. /\ kbd.step = 5 /\ kbd' = [kbd EXCEPT !.step = 6] /\ UNCHANGED <<early, ip>>
        /\ kbc' = [kbc EXCEPT !.input = "data", !.data = [kbd.al EXCEPT !.a20 = TRUE]]
    BY <1>6 DEF SendOutput
  <2>2. PICK b \in PortByte : b = [kbd.al EXCEPT !.a20 = TRUE] /\ b.a20 /\ (kbd.al.run => b.run)
    <3>1. PICK x \in PortByte : x = kbd.al
      BY <1>1
    <3>2. [x EXCEPT !.a20 = TRUE] \in PortByte /\ [x EXCEPT !.a20 = TRUE].a20
          /\ [x EXCEPT !.a20 = TRUE].run = x.run
      BY DEF PortByte
    <3> QED BY <3>1, <3>2
  <2>3. /\ kbc' \in [input : {"none", "data", "AD", "D0", "D1", "AE"}, data : PortByte,
                     expects : BOOLEAN, owes : BOOLEAN, out : PortByte]
        /\ kbc'.data = b /\ kbc'.owes = kbc.owes /\ kbc'.out = kbc.out
    BY <1>1, <2>1, <2>2
  <2>4. kbd' \in [step : 1 .. 7, al : PortByte] /\ kbd'.step = 6 /\ kbd'.al = kbd.al
    BY <1>1, <2>1
  <2>5. kbc'.data.a20 /\ (kbd.al.run => kbc'.data.run)
    BY <2>2, <2>3
  <2> QED BY <1>1, <1>2, <2>1, <2>3, <2>4, <2>5
<1>7. CASE ReturnEnabled
  BY <1>1, <1>2, <1>7 DEF ReturnEnabled
<1>8. \/ SendCommand(1, "AD") \/ SendCommand(2, "D0") \/ ReadOutput
      \/ SendCommand(4, "D1") \/ SendOutput \/ SendCommand(6, "AE") \/ ReturnEnabled
  BY DEF A20KeyboardEnable
<1>9. SendCommand(1, "AD") \/ SendCommand(2, "D0") \/ SendCommand(4, "D1") \/ SendCommand(6, "AE") =>
         \E step \in {1, 2, 4, 6}, command \in {"AD", "D0", "D1", "AE"} :
              (step = 2 => command = "D0") /\ SendCommand(step, command)
  OBVIOUS
<1> QED BY <1>4, <1>5, <1>6, <1>7, <1>8, <1>9

\* The controller.
LEMMA ControllerIs ==
    ASSUME BootTypeOK, KeyboardController
    PROVE  /\ kbc' \in [input : {"none", "data", "AD", "D0", "D1", "AE"}, data : PortByte,
                        expects : BOOLEAN, owes : BOOLEAN, out : PortByte]
           /\ kbc'.data = kbc.data
           /\ kbc.owes => kbc'.owes \/ kbc'.out.run
           /\ kbc.input = "D0" => kbc'.input = "D0" \/ kbc'.owes
           /\ kbc.out.run => kbc'.out.run
           /\ gate' \in {gate, kbc.data.a20}
           /\ ip' # ip => ip' = "reset" /\ ~kbc.data.run
           /\ UNCHANGED <<probe, kbd, early, mapVars, load, kernel, pageTables>>
<1>1. /\ kbc \in [input : {"none", "data", "AD", "D0", "D1", "AE"}, data : PortByte,
                  expects : BOOLEAN, owes : BOOLEAN, out : PortByte]
      /\ gate \in BOOLEAN
  BY DEF BootTypeOK
<1>2. CASE ControllerTakes
  <2>1. /\ kbc.input # "none"
        /\ kbc' = [kbc EXCEPT !.input = "none", !.owes = kbc.owes \/ kbc.input = "D0",
                              !.expects = kbc.input = "D1"]
        /\ gate' \in {gate, kbc.data.a20}
        /\ ip' # ip => ip' = "reset" /\ ~kbc.data.run
        /\ UNCHANGED <<probe, kbd, early, mapVars, load, kernel, pageTables>>
    BY <1>2 DEF ControllerTakes
  <2>2. /\ kbc' \in [input : {"none", "data", "AD", "D0", "D1", "AE"}, data : PortByte,
                     expects : BOOLEAN, owes : BOOLEAN, out : PortByte]
        /\ kbc'.data = kbc.data /\ kbc'.out = kbc.out
        /\ kbc'.owes <=> (kbc.owes \/ kbc.input = "D0")
    BY <1>1, <2>1
  <2> QED BY <2>1, <2>2
<1>3. CASE ControllerAnswers
  <2>1. /\ kbc' = [kbc EXCEPT !.owes = FALSE, !.out = [run |-> TRUE, a20 |-> gate]]
        /\ UNCHANGED <<ip, gate, probe, kbd, early, mapVars, load, kernel, pageTables>>
    BY <1>3 DEF ControllerAnswers
  <2>2. PICK b \in PortByte : b = [run |-> TRUE, a20 |-> gate] /\ b.run
    <3>1. [run |-> TRUE, a20 |-> gate] \in PortByte /\ [run |-> TRUE, a20 |-> gate].run
      BY <1>1 DEF PortByte
    <3> QED BY <3>1
  <2>3. /\ kbc' \in [input : {"none", "data", "AD", "D0", "D1", "AE"}, data : PortByte,
                     expects : BOOLEAN, owes : BOOLEAN, out : PortByte]
        /\ kbc'.data = kbc.data /\ kbc'.out = b /\ kbc'.input = kbc.input
    BY <1>1, <2>1, <2>2
  <2> QED BY <2>1, <2>2, <2>3
<1> QED BY <1>2, <1>3 DEF KeyboardController

\* One range of the memory map.
LEMMA QueryIs ==
    ASSUME BootTypeOK, QuerySystemAddressMap
    PROVE  /\ ip = "query" /\ UNCHANGED <<a20Vars, load, kernel, pageTables>>
           /\ \/ ip' = "halted" /\ UNCHANGED mapVars
              \/ \E r \in Reports, last \in BOOLEAN : StoreRange(r, last)
BY DEF QuerySystemAddressMap

LEMMA StoreIs ==
    ASSUME BootTypeOK, stored <= Len(map), NEW r \in Reports, NEW last \in BOOLEAN,
           StoreRange(r, last)
    PROVE  /\ SubSeq(map, 1, stored) \in Seq(Reports) /\ Len(SubSeq(map, 1, stored)) = stored
           /\ map' = Append(SubSeq(map, 1, stored), r) /\ reported' = Append(reported, r)
           /\ map' \in Seq(Reports) /\ reported' \in Seq(Reports)
           /\ Len(map') = stored + 1 /\ stored' \in Nat /\ count' \in Nat
           /\ SubSeq(map', 1, stored + 1) = map'
           /\ SubSeq(map', 1, stored) = SubSeq(map, 1, stored)
           /\ ~last => stored' = (IF Kept(r) THEN stored + 1 ELSE stored)
           /\ last => count' = stored + 1
           /\ ip' = "query" => ~last
           /\ ip' = "check" => last
           /\ ip' \in {"wild", "check", "query", "halted"}
<1>1. map \in Seq(Reports) /\ reported \in Seq(Reports) /\ stored \in Nat /\ count \in Nat
  BY DEF BootTypeOK
<1>2. PICK m \in Seq(Reports) : m = SubSeq(map, 1, stored) /\ Len(m) = stored
  <2>1. Len(map) \in Nat /\ 1 \in 1 .. Len(map) + 1 /\ stored \in 1 - 1 .. Len(map)
    BY <1>1
  <2>2. SubSeq(map, 1, stored) \in Seq(Reports) /\ Len(SubSeq(map, 1, stored)) = (stored - 1) + 1
    BY <1>1, <2>1, SubSeqProperties
  <2>3. (stored - 1) + 1 = stored
    BY <1>1
  <2> QED BY <2>2, <2>3
<1>3. /\ map' = Append(m, r) /\ reported' = Append(reported, r)
      /\ stored' = (IF Kept(r) /\ ~last THEN stored + 1 ELSE stored)
      /\ count' = (IF last THEN stored + 1 ELSE count)
      /\ ip' = IF stored + 1 > Slots + Spare THEN "wild"
               ELSE IF last THEN "check"
               ELSE IF Kept(r) \/ stored <= Slots THEN "query" ELSE "halted"
  BY <1>2 DEF StoreRange
<1>4. PICK a \in Seq(Reports) : a = Append(m, r) /\ Len(a) = stored + 1
  <2>1. Append(m, r) \in Seq(Reports) /\ Len(Append(m, r)) = Len(m) + 1
    OBVIOUS
  <2> QED BY <1>2, <2>1
<1>5. SubSeq(a, 1, Len(a)) = a
  OBVIOUS
<1>6. SubSeq(Append(m, r), 1, Len(m)) = m
  BY <1>2
<1>7. reported' \in Seq(Reports)
  BY <1>1, <1>3
<1> QED BY <1>1, <1>2, <1>3, <1>4, <1>5, <1>6, <1>7

\* One read of the kernel with its copy.
LEMMA LoadIs ==
    ASSUME BootTypeOK, LoadKenerl
    PROVE  /\ ip = "load" /\ UNCHANGED <<a20Vars, mapVars, pageTables>>
           /\ load' \in [todo : Nat, lba : Nat, dest : Nat, carry : Nat]
           /\ ip' \in {"halted", "load", "protected"}
           /\ ip' # "halted" =>
                 /\ ip' = "protected" => load'.todo = 0
                 /\ \E n \in 0 .. BufferSectors : n <= load.todo /\ CopySectors(n)
<1>1. load \in [todo : Nat, lba : Nat, dest : Nat, carry : Nat]
  BY DEF BootTypeOK
<1>2. CASE ip' = "halted" /\ UNCHANGED <<load, kernel>>
  BY <1>1, <1>2 DEF LoadKenerl
<1>3. CASE \E n \in 0 .. BufferSectors :
              /\ n <= load.todo
              /\ n = 0 => load.carry < MaxEmpty
              /\ CopySectors(n)
              /\ ip' = IF load'.todo = 0 THEN "protected" ELSE "load"
  <2>1. PICK n \in 0 .. BufferSectors :
            /\ n <= load.todo /\ CopySectors(n)
            /\ ip' = IF load'.todo = 0 THEN "protected" ELSE "load"
    BY <1>3
  <2>2. load' = [todo |-> load.todo - n, lba |-> load.lba + n,
                 dest |-> load.dest + (IF n = 0 THEN LoopSectors ELSE n),
                 carry |-> load.carry + (IF n = 0 THEN 1 ELSE 0)]
    BY <2>1 DEF CopySectors
  <2>3. /\ n \in Nat /\ load.todo - n \in Nat /\ load.lba + n \in Nat
        /\ load.dest + (IF n = 0 THEN LoopSectors ELSE n) \in Nat
        /\ load.carry + (IF n = 0 THEN 1 ELSE 0) \in Nat
    BY <1>1, <2>1, SizesAre
  <2>4. load' \in [todo : Nat, lba : Nat, dest : Nat, carry : Nat]
    BY <2>2, <2>3
  <2> QED BY <2>1, <2>4 DEF LoadKenerl
<1> QED BY <1>2, <1>3 DEF LoadKenerl

LEMMA TypeKeeps ==
    ASSUME BootTypeOK, MapInv, [BootNext]_bootVars
    PROVE  BootTypeOK'
<1>1. CASE DiskLoad \/ A20Bios \/ A20Port92 \/ CheckLongModeSupport \/ SwitchToLongMode \/ UNCHANGED bootVars
  <2>1. /\ UNCHANGED <<probe, kbc, kbd, early, mapVars, load, kernel, pageTables>>
        /\ gate' \in {gate, TRUE}
    BY <1>1 DEF DiskLoad, A20Bios, A20Port92, CheckLongModeSupport, SwitchToLongMode, bootVars, a20Vars
  <2> QED BY <2>1 DEF BootTypeOK, mapVars
<1>2. CASE FirstTest \/ ActivatedTest \/ KeyboardTest \/ LastTest
  BY <1>2, TestKeeps DEF FirstTest, ActivatedTest, KeyboardTest, LastTest
<1>3. CASE A20KeyboardEnable
  <2>1. UNCHANGED <<gate, probe, mapVars, load, kernel, pageTables>>
    BY <1>3 DEF A20KeyboardEnable
  <2> QED BY <1>3, <2>1, EnableIs DEF BootTypeOK, mapVars
<1>4. CASE KeyboardController
  <2>1. gate' \in BOOLEAN
    BY <1>4, ControllerIs DEF BootTypeOK, PortByte
  <2> QED BY <1>4, <2>1, ControllerIs DEF BootTypeOK, mapVars
<1>5. CASE QuerySystemAddressMap
  <2>1. UNCHANGED <<gate, probe, kbc, kbd, early, load, pageTables>>
    BY <1>5, QueryIs DEF a20Vars
  <2>2. map' \in Seq(Reports) /\ reported' \in Seq(Reports) /\ stored' \in Nat /\ count' \in Nat
    <3>1. CASE UNCHANGED mapVars
      BY <3>1 DEF mapVars, BootTypeOK
    <3>2. CASE \E r \in Reports, last \in BOOLEAN : StoreRange(r, last)
      <4>1. stored <= Len(map)
        BY <1>5, QueryIs DEF MapInv
      <4> QED BY <3>2, <4>1, StoreIs
    <3> QED BY <1>5, <3>1, <3>2, QueryIs
  <2> QED BY <2>1, <2>2 DEF BootTypeOK
<1>6. CASE CheckMemoryEnough
  <2>1. /\ load' = [todo |-> KernelSectors, lba |-> FirstLba, dest |-> 0, carry |-> 0]
        /\ UNCHANGED <<a20Vars, mapVars, pageTables>>
    BY <1>6 DEF CheckMemoryEnough
  <2>2. load' \in [todo : Nat, lba : Nat, dest : Nat, carry : Nat]
    BY <2>1, SizesAre
  <2> QED BY <2>1, <2>2 DEF BootTypeOK, a20Vars, mapVars
<1>7. CASE LoadKenerl
  BY <1>7, LoadIs DEF BootTypeOK, a20Vars, mapVars
<1>8. CASE MakePageTable
  <2>1. DOMAIN pageTables' = DOMAIN pageTables /\ UNCHANGED <<a20Vars, mapVars, load>>
    BY <1>8 DEF MakePageTable
  <2> QED BY <2>1 DEF BootTypeOK, a20Vars, mapVars
<1> QED BY <1>1, <1>2, <1>3, <1>4, <1>5, <1>6, <1>7, <1>8 DEF BootNext, Processor

LEMMA GateKeeps ==
    ASSUME BootTypeOK, GateInv, MapInv, [BootNext]_bootVars
    PROVE  GateInv'
<1>1. CASE DiskLoad \/ A20Bios \/ A20Port92 \/ CheckLongModeSupport \/ SwitchToLongMode \/ UNCHANGED bootVars
           \/ MakePageTable \/ LoadKenerl \/ CheckMemoryEnough \/ QuerySystemAddressMap
  <2>1. UNCHANGED <<probe, kbc, kbd, early>> /\ gate' \in {gate, TRUE}
    <3>1. CASE LoadKenerl \/ QuerySystemAddressMap
      BY <3>1, LoadIs, QueryIs DEF a20Vars
    <3> QED BY <1>1, <3>1 DEF DiskLoad, A20Bios, A20Port92, CheckLongModeSupport, SwitchToLongMode,
                              MakePageTable, CheckMemoryEnough, bootVars, a20Vars
  <2>2. ip' \in {"query", "check", "load"} \union Copied => ip \in {"query", "check", "load"} \union Copied
    <3>1. CASE LoadKenerl \/ QuerySystemAddressMap
      BY <3>1, LoadIs, QueryIs
    <3> QED BY <1>1, <3>1 DEF DiskLoad, A20Bios, A20Port92, CheckLongModeSupport, SwitchToLongMode,
                              MakePageTable, CheckMemoryEnough, bootVars, Copied
  <2>3. ip' = "reset" => ip = "reset"
    <3>1. CASE LoadKenerl
      BY <3>1, LoadIs
    <3>2. CASE QuerySystemAddressMap
      <4>1. stored <= Len(map)
        BY <3>2, QueryIs DEF MapInv
      <4>2. ip' \in {"wild", "check", "query", "halted"}
        BY <3>2, <4>1, QueryIs, StoreIs
      <4> QED BY <4>2
    <3> QED BY <1>1, <3>1, <3>2 DEF DiskLoad, A20Bios, A20Port92, CheckLongModeSupport, SwitchToLongMode,
                                    MakePageTable, CheckMemoryEnough, bootVars
  <2> QED BY <2>1, <2>2, <2>3 DEF GateInv, ResetOnlyIfEarly, BootTypeOK
<1>2. CASE FirstTest \/ ActivatedTest \/ KeyboardTest \/ LastTest
  <2>1. PICK here, next : Test(here, next) /\ next \in {"bios", "keyboard", "port92", "halted"}
    BY <1>2 DEF FirstTest, ActivatedTest, KeyboardTest, LastTest
  <2>2. /\ ip' \in {"query", next} /\ (ip' # next => gate)
        /\ UNCHANGED <<gate, kbc, kbd, early>>
    BY <2>1, TestKeeps
  <2> QED BY <2>1, <2>2 DEF GateInv, ResetOnlyIfEarly, Copied
<1>3. CASE A20KeyboardEnable
  <2>1. UNCHANGED gate /\ kbd.step \in 1 .. 7
    BY <1>3 DEF A20KeyboardEnable, BootTypeOK
  <2>2. ip' \in {"keyboard", "enabled"}
    BY <1>3, EnableIs
  <2>3. kbc'.data.a20
    BY <1>3, EnableIs DEF GateInv
  <2>4. kbd'.step = 3 => kbc'.input = "D0" \/ kbc'.owes \/ kbc'.out.run
    BY <1>3, <2>1, EnableIs
  <2>5. kbd'.step > 3 => early' \/ kbd'.al.run
    <3>1. CASE kbd.step = 3
      BY <1>3, <3>1, EnableIs DEF GateInv
    <3>2. CASE kbd.step # 3
      BY <1>3, <2>1, <3>2, EnableIs DEF GateInv
    <3> QED BY <3>1, <3>2
  <2>6. kbd'.step < 6 => kbc'.data.run
    BY <1>3, <2>1, EnableIs DEF GateInv
  <2>7. early' \/ kbc'.data.run
    <3>1. CASE kbd.step = 3
      BY <1>3, <3>1, EnableIs DEF GateInv
    <3>2. CASE kbd.step = 5
      BY <1>3, <3>2, EnableIs DEF GateInv
    <3>3. CASE kbd.step \notin {3, 5}
      BY <1>3, <3>3, EnableIs DEF GateInv
    <3> QED BY <3>1, <3>2, <3>3
  <2> QED BY <2>2, <2>3, <2>4, <2>5, <2>6, <2>7 DEF GateInv, ResetOnlyIfEarly, Copied
<1>4. CASE KeyboardController
  <2>1. gate => gate'
    BY <1>4, ControllerIs DEF GateInv
  <2>2. ip' \in {"query", "check", "load"} \union Copied => gate'
    BY <1>4, <2>1, ControllerIs DEF GateInv, Copied
  <2>3. kbc'.data = kbc.data /\ UNCHANGED <<kbd, early>>
    BY <1>4, ControllerIs
  <2>4. kbd.step = 3 => kbc'.input = "D0" \/ kbc'.owes \/ kbc'.out.run
    BY <1>4, ControllerIs DEF GateInv
  <2>5. ip' = "reset" => early
    BY <1>4, ControllerIs DEF GateInv, ResetOnlyIfEarly
  <2> QED BY <2>2, <2>3, <2>4, <2>5 DEF GateInv, ResetOnlyIfEarly
<1> QED BY <1>1, <1>2, <1>3, <1>4 DEF BootNext, Processor

-----------------------------------------------------------------------------
(* The memory map and the kernel. *)

AfterMap == {"check", "load"} \union Copied

LEMMA MapFrame ==
    ASSUME BootTypeOK, MapInv, UNCHANGED mapVars,
           ip' \in BeforeMap => ip \in BeforeMap,
           ip' = "query" => ip \in BeforeMap \union {"query"},
           ip' \in AfterMap => ip \in AfterMap
    PROVE  MapInv'
<1>1. UNCHANGED <<map, stored, count, reported, KeptReports>>
  BY DEF mapVars, KeptReports
<1>2. \A m, S : MapIs(m, S)' <=> MapIs(m, S)
  BY <1>1 DEF MapIs
<1>3. MapFaithful'
  BY <1>1, <1>2 DEF MapInv, MapFaithful, AfterMap, Copied
<1>4. ip \in BeforeMap => stored <= Len(map) /\ MapIs(SubSeq(map, 1, stored), KeptReports)
  <2> SUFFICES ASSUME ip \in BeforeMap
               PROVE  stored <= Len(map) /\ MapIs(SubSeq(map, 1, stored), KeptReports)
    OBVIOUS
  <2>1. map = <<>> /\ stored = 0 /\ reported = <<>>
    BY DEF MapInv
  <2>2. KeptReports = {} /\ SubSeq(map, 1, stored) = <<>>
    BY <2>1 DEF KeptReports
  <2>3. Cardinality({}) = 0
    BY FS_EmptySet
  <2> QED BY <2>1, <2>2, <2>3 DEF MapIs
<1>5. ip' = "query" => stored <= Len(map) /\ MapIs(SubSeq(map, 1, stored), KeptReports)
  BY <1>4 DEF MapInv
<1>6. ip' = "query" => MapIs(SubSeq(map, 1, stored), KeptReports)'
  BY <1>1, <1>2, <1>5
<1> QED BY <1>1, <1>3, <1>5, <1>6 DEF MapInv

LEMMA MapKeeps ==
    ASSUME BootTypeOK, MapInv, [BootNext]_bootVars
    PROVE  MapInv'
<1>1. CASE DiskLoad \/ A20Bios \/ A20Port92 \/ CheckLongModeSupport \/ SwitchToLongMode \/ UNCHANGED bootVars
           \/ MakePageTable \/ CheckMemoryEnough
  <2>1. UNCHANGED mapVars /\ (ip' \in BeforeMap => ip \in BeforeMap) /\ (ip' = "query" => ip = "query")
        /\ (ip' \in AfterMap => ip \in AfterMap)
    BY <1>1 DEF DiskLoad, A20Bios, A20Port92, CheckLongModeSupport, SwitchToLongMode,
                MakePageTable, CheckMemoryEnough, bootVars, BeforeMap, AfterMap, Copied
  <2> QED BY <2>1, MapFrame
<1>2. CASE FirstTest \/ ActivatedTest \/ KeyboardTest \/ LastTest
  <2>1. PICK here, next : Test(here, next) /\ next \in {"bios", "keyboard", "port92", "halted"}
                          /\ here \in BeforeMap
    BY <1>2 DEF FirstTest, ActivatedTest, KeyboardTest, LastTest, BeforeMap
  <2>2. ip = here /\ ip' \in {"query", next} /\ UNCHANGED mapVars
    BY <2>1, TestKeeps
  <2>3. ip \in BeforeMap /\ ip' \notin AfterMap
    BY <2>1, <2>2 DEF AfterMap, Copied
  <2> QED BY <2>2, <2>3, MapFrame
<1>3. CASE A20KeyboardEnable
  <2>1. ip = "keyboard" /\ ip' \in {"keyboard", "enabled"} /\ UNCHANGED mapVars
    BY <1>3, EnableIs DEF A20KeyboardEnable
  <2>2. ip \in BeforeMap /\ ip' \notin AfterMap /\ ip' # "query"
    BY <2>1 DEF AfterMap, Copied, BeforeMap
  <2> QED BY <2>1, <2>2, MapFrame
<1>4. CASE KeyboardController
  <2>1. (ip' = ip \/ ip' = "reset") /\ UNCHANGED mapVars
    BY <1>4, ControllerIs
  <2>2. "reset" \notin BeforeMap \union AfterMap \union {"query"}
    BY DEF BeforeMap, AfterMap, Copied
  <2> QED BY <2>1, <2>2, MapFrame
<1>5. CASE LoadKenerl
  <2>1. ip = "load" /\ ip' \in {"halted", "load", "protected"} /\ UNCHANGED mapVars
    BY <1>5, LoadIs
  <2>2. ip' \notin BeforeMap \union {"query"} /\ ip \in AfterMap
    BY <2>1 DEF BeforeMap, AfterMap
  <2> QED BY <2>1, <2>2, MapFrame
<1>6. CASE QuerySystemAddressMap
  <2>1. stored <= Len(map) /\ MapIs(SubSeq(map, 1, stored), KeptReports) /\ ip = "query"
    BY <1>6, QueryIs DEF MapInv
  <2>2. CASE ip' = "halted" /\ UNCHANGED mapVars
    <3>1. ip' \notin BeforeMap \union AfterMap \union {"query"}
      BY <2>2 DEF BeforeMap, AfterMap, Copied
    <3> QED BY <2>2, <3>1, MapFrame
  <2>3. ASSUME NEW r \in Reports, NEW last \in BOOLEAN, StoreRange(r, last)
        PROVE  MapInv'
    <3>1. PICK m \in Seq(Reports) : m = SubSeq(map, 1, stored) /\ Len(m) = stored
      BY <2>1, <2>3, StoreIs
    <3>2. /\ map' = Append(m, r) /\ reported' = Append(reported, r) /\ reported \in Seq(Reports)
          /\ Len(map') = stored + 1 /\ stored \in Nat
          /\ SubSeq(map', 1, stored + 1) = map' /\ SubSeq(map', 1, stored) = m
          /\ ~last => stored' = (IF Kept(r) THEN stored + 1 ELSE stored)
          /\ last => count' = stored + 1
          /\ ip' = "query" => ~last
          /\ ip' = "check" => last
          /\ ip' \in {"wild", "check", "query", "halted"}
      BY <2>1, <2>3, <3>1, StoreIs DEF BootTypeOK
    <3>3. MapIs(m, KeptReports)
      BY <2>1, <3>1
    <3>4. /\ MapIs(Append(m, r), KeptReports \union {Len(reported)})'
          /\ KeptReports' = IF Kept(r) THEN KeptReports \union {Len(reported')} ELSE KeptReports
      BY <3>2, <3>3, MapMore
    <3>5. ~Kept(r) => MapIs(m, KeptReports)'
      BY <3>2, <3>3, MapSame
    <3>6. MapIs(map, KeptReports \union {Len(reported)})'
      <4>1. PICK a : a = map'
        OBVIOUS
      <4>2. PICK R : R = (KeptReports \union {Len(reported)})'
        OBVIOUS
      <4>3. MapIs(a, R)'
        BY <3>2, <3>4, <4>1, <4>2
      <4> QED BY <4>1, <4>2, <4>3
    <3>7. ip' = "query" => /\ (stored <= Len(map))'
                           /\ MapIs(SubSeq(map, 1, stored), KeptReports)'
      <4> SUFFICES ASSUME ip' = "query"
                   PROVE  (stored <= Len(map))' /\ MapIs(SubSeq(map, 1, stored), KeptReports)'
        OBVIOUS
      <4>1. ~last
        BY <3>2
      <4>2. CASE Kept(r)
        <5>1. stored' = stored + 1 /\ (SubSeq(map, 1, stored))' = map'
          BY <3>2, <4>1, <4>2
        <5>2. KeptReports' = (KeptReports \union {Len(reported)})'
          BY <3>4, <4>2
        <5>3. PICK a, R : a = map' /\ R = KeptReports'
          OBVIOUS
        <5>4. MapIs(a, R)'
          BY <3>6, <5>2, <5>3
        <5>5. MapIs(SubSeq(map, 1, stored), KeptReports)'
          BY <5>1, <5>3, <5>4
        <5> QED BY <3>2, <5>1, <5>5
      <4>3. CASE ~Kept(r)
        <5>1. stored' = stored /\ (SubSeq(map, 1, stored))' = m
          BY <3>2, <4>1, <4>3
        <5>2. MapIs(SubSeq(map, 1, stored), KeptReports)'
          BY <3>5, <4>3, <5>1
        <5> QED BY <3>2, <5>1, <5>2
      <4> QED BY <4>2, <4>3
    <3>8. ip' \notin BeforeMap /\ (ip' \in AfterMap => ip' = "check")
      BY <3>2 DEF BeforeMap, AfterMap, Copied
    <3>9. MapFaithful'
      BY <3>2, <3>6, <3>8 DEF MapFaithful, AfterMap, Copied
    <3> QED BY <3>7, <3>8, <3>9 DEF MapInv
  <2> QED BY <1>6, <2>2, <2>3, QueryIs
<1> QED BY <1>1, <1>2, <1>3, <1>4, <1>5, <1>6 DEF BootNext, Processor

\* The sectors in their places, when what is read is copied behind what is there.
LEMMA CopyIs ==
    ASSUME BootTypeOK, KernelInv, gate, ip = "load", NEW n \in 0 .. BufferSectors,
           n <= load.todo, CopySectors(n), load'.carry = 0
    PROVE  /\ load'.dest + load'.todo = KernelSectors /\ load'.lba = FirstLba + load'.dest
           /\ DOMAIN kernel' = 0 .. load'.dest - 1
           /\ \A i \in DOMAIN kernel' : kernel'[i] = [kind |-> "sector", lba |-> FirstLba + i]
<1>1. /\ load.todo \in Nat /\ load.lba \in Nat /\ load.dest \in Nat /\ load.carry \in Nat /\ n \in Nat
      /\ KernelSectors \in Nat /\ FirstLba \in Nat
  BY SizesAre DEF BootTypeOK
<1>2. load' = [todo |-> load.todo - n, lba |-> load.lba + n,
               dest |-> load.dest + (IF n = 0 THEN LoopSectors ELSE n),
               carry |-> load.carry + (IF n = 0 THEN 1 ELSE 0)]
  BY DEF CopySectors
<1>3. load.carry = 0 /\ n # 0
  <2>1. load'.carry = load.carry + (IF n = 0 THEN 1 ELSE 0)
    BY <1>2
  <2> QED BY <1>1, <2>1
<1>4. load'.todo = load.todo - n /\ load'.lba = load.lba + n /\ load'.dest = load.dest + n
  BY <1>2, <1>3
<1>5. /\ load.dest + load.todo = KernelSectors /\ load.lba = FirstLba + load.dest
      /\ DOMAIN kernel = 0 .. load.dest - 1
      /\ \A i \in DOMAIN kernel : kernel[i] = [kind |-> "sector", lba |-> FirstLba + i]
  BY <1>3 DEF KernelInv
<1>6. PICK copied : copied = [i \in 0 .. n - 1 |-> [kind |-> "sector", lba |-> load.lba + i]]
  OBVIOUS
<1>7. kernel' = [i \in DOMAIN kernel \cup (load.dest .. (load.dest + n) - 1) |->
                    IF i >= load.dest THEN copied[i - load.dest] ELSE kernel[i]]
  BY <1>3, <1>6 DEF CopySectors, Buffered
<1>8. DOMAIN kernel' = 0 .. load'.dest - 1
  <2>1. DOMAIN kernel' = (0 .. load.dest - 1) \cup (load.dest .. (load.dest + n) - 1)
    BY <1>5, <1>7
  <2> QED BY <1>1, <1>4, <2>1
<1>9. ASSUME NEW i \in DOMAIN kernel' PROVE kernel'[i] = [kind |-> "sector", lba |-> FirstLba + i]
  <2>1. i \in Int /\ 0 <= i /\ i <= (load.dest + n) - 1
    BY <1>1, <1>4, <1>8
  <2>2. CASE i >= load.dest
    <3>1. i - load.dest \in 0 .. n - 1 /\ load.lba + (i - load.dest) = FirstLba + i
      <4>1. load.lba = FirstLba + load.dest
        BY <1>5
      <4>2. PICK d \in Nat : d = load.dest
        BY <1>1
      <4>3. i - d \in 0 .. n - 1
        BY <1>1, <2>1, <2>2, <4>2
      <4>4. (FirstLba + d) + (i - d) = FirstLba + i
        BY <1>1, <2>1
      <4> QED BY <4>1, <4>2, <4>3, <4>4
    <3>2. kernel'[i] = copied[i - load.dest]
      BY <1>7, <2>2
    <3> QED BY <1>6, <3>1, <3>2
  <2>3. CASE ~(i >= load.dest)
    <3>1. i \in DOMAIN kernel
      BY <1>1, <1>5, <2>1, <2>3
    <3>2. kernel'[i] = kernel[i]
      BY <1>7, <2>3
    <3> QED BY <1>5, <3>1, <3>2
  <2> QED BY <2>2, <2>3
<1>10. load'.dest + load'.todo = KernelSectors /\ load'.lba = FirstLba + load'.dest
  BY <1>1, <1>4, <1>5
<1> QED BY <1>8, <1>9, <1>10

\* The three pages lead from both halves of the address space to the same memory.
LEMMA TablesMap ==
    ASSUME BootTypeOK, MakePageTable
    PROVE  BothHalvesMapped'
<1> DEFINE P == PageEntries
<1>0. P \in Nat /\ P > 1
  BY SizesAre
<1>1. PICK h : h = PageEntries \div 2 /\ h \in 1 .. P - 1
  BY <1>0
<1>2. PICK t : t = pageTables'
  OBVIOUS
<1>3. \A e \in 0 .. 3 * P - 1 :
          t[e] = CASE e \in {0, h} -> Table(1)
                   [] e = P -> Table(2)
                   [] e >= 2 * P -> Page(e - 2 * P)
                   [] OTHER -> Absent
  BY <1>1, <1>2 DEF MakePageTable, BootTypeOK
<1>4. /\ Table(1).kind = "table" /\ Table(1).at = P /\ Table(2).kind = "table" /\ Table(2).at = 2 * P
      /\ Absent.kind = "absent"
  BY <1>0 DEF Table, Absent
<1> HIDE DEF P
<1>5. ASSUME NEW i \in 0 .. P - 1
      PROVE  /\ t[i] = IF i \in {0, h} THEN Table(1) ELSE Absent
             /\ t[P + i] = IF i = 0 THEN Table(2) ELSE Absent
             /\ t[2 * P + i] = Page(i)
  <2>1. /\ i \in 0 .. 3 * P - 1 /\ P + i \in 0 .. 3 * P - 1 /\ 2 * P + i \in 0 .. 3 * P - 1
        /\ i # P /\ ~(i >= 2 * P) /\ P + i \notin {0, h} /\ ~(P + i >= 2 * P) /\ (P + i = P <=> i = 0)
        /\ 2 * P + i \notin {0, h} /\ 2 * P + i # P /\ 2 * P + i >= 2 * P /\ (2 * P + i) - 2 * P = i
    BY <1>0, <1>1
  <2>2. t[i] = IF i \in {0, h} THEN Table(1) ELSE Absent
    BY <1>3, <2>1
  <2>3. t[P + i] = IF i = 0 THEN Table(2) ELSE Absent
    BY <1>3, <2>1
  <2>4. t[2 * P + i] = Page(i)
    BY <1>3, <2>1
  <2> QED BY <2>2, <2>3, <2>4
<1>6. ASSUME NEW top \in 0 .. P - 1, NEW middle \in 0 .. P - 1, NEW low \in 0 .. P - 1
      PROVE  Walk(top, middle, low)' = IF top \in {0, h} /\ middle = 0 THEN Page(low) ELSE Absent
  <2> DEFINE b == IF t[top].kind = "table" THEN t[t[top].at + middle] ELSE Absent
  <2>1. Walk(top, middle, low)' = IF b.kind = "table" THEN t[b.at + low] ELSE Absent
    BY <1>2 DEF Walk
  <2>2. b = IF top \in {0, h} THEN t[P + middle] ELSE Absent
    BY <1>4, <1>5
  <2>3. b = IF top \in {0, h} /\ middle = 0 THEN Table(2) ELSE Absent
    BY <1>5, <2>2
  <2> HIDE DEF b
  <2> QED BY <1>4, <1>5, <2>1, <2>3
<1>7. \A top, middle, low \in 0 .. P - 1 :
          Walk(top, middle, low)' = IF top \in {0, h} /\ middle = 0 THEN Page(low) ELSE Absent
  BY <1>6
<1> USE DEF P
<1> QED BY <1>1, <1>7 DEF BothHalvesMapped

LEMMA KernelFrame ==
    ASSUME KernelInv, UNCHANGED <<load, kernel, pageTables>>,
           ip' \in BeforeMap \union {"query", "check"} => ip \in BeforeMap \union {"query", "check"},
           ip' \in {"load"} \union Copied => ip \in {"load"} \union Copied,
           ip' \in Copied => ip \in Copied,
           ip' \in {"switch", "kernel"} => ip \in {"switch", "kernel"}
    PROVE  KernelInv'
<1>1. BothHalvesMapped' <=> BothHalvesMapped
  BY DEF BothHalvesMapped, Walk
<1> QED BY <1>1 DEF KernelInv

LEMMA KernelKeeps ==
    ASSUME BootTypeOK, GateInv, KernelInv, [BootNext]_bootVars
    PROVE  KernelInv'
<1>1. CASE DiskLoad \/ A20Bios \/ A20Port92 \/ CheckLongModeSupport \/ SwitchToLongMode \/ UNCHANGED bootVars
  <2>1. UNCHANGED <<load, kernel, pageTables>>
    BY <1>1 DEF DiskLoad, A20Bios, A20Port92, CheckLongModeSupport, SwitchToLongMode, bootVars
  <2>2. /\ ip' \in BeforeMap \union {"query", "check"} => ip \in BeforeMap \union {"query", "check"}
        /\ ip' \in {"load"} \union Copied => ip \in {"load"} \union Copied
        /\ ip' \in Copied => ip \in Copied
        /\ ip' \in {"switch", "kernel"} => ip \in {"switch", "kernel"}
    BY <1>1 DEF DiskLoad, A20Bios, A20Port92, CheckLongModeSupport, SwitchToLongMode, bootVars, BeforeMap, Copied
  <2> QED BY <2>1, <2>2, KernelFrame
<1>2. CASE FirstTest \/ ActivatedTest \/ KeyboardTest \/ LastTest
  <2>1. PICK here, next : Test(here, next) /\ next \in {"bios", "keyboard", "port92", "halted"}
                          /\ here \in BeforeMap
    BY <1>2 DEF FirstTest, ActivatedTest, KeyboardTest, LastTest, BeforeMap
  <2>2. ip = here /\ ip' \in {"query", next} /\ UNCHANGED <<load, kernel, pageTables>>
    BY <2>1, TestKeeps
  <2>3. ip \in BeforeMap /\ ip' \notin {"load", "switch", "kernel"} \union Copied
    BY <2>1, <2>2 DEF Copied
  <2> QED BY <2>2, <2>3, KernelFrame
<1>3. CASE A20KeyboardEnable
  <2>1. ip = "keyboard" /\ ip' \in {"keyboard", "enabled"} /\ UNCHANGED <<load, kernel, pageTables>>
    BY <1>3, EnableIs DEF A20KeyboardEnable
  <2>2. ip \in BeforeMap /\ ip' \notin {"load", "switch", "kernel"} \union Copied
    BY <2>1 DEF Copied, BeforeMap
  <2> QED BY <2>1, <2>2, KernelFrame
<1>4. CASE KeyboardController
  <2>1. (ip' = ip \/ ip' = "reset") /\ UNCHANGED <<load, kernel, pageTables>>
    BY <1>4, ControllerIs
  <2>2. "reset" \notin BeforeMap \union {"query", "check", "load", "switch", "kernel"} \union Copied
    BY DEF BeforeMap, Copied
  <2> QED BY <2>1, <2>2, KernelFrame
<1>5. CASE QuerySystemAddressMap
  <2>1. ip = "query" /\ UNCHANGED <<load, kernel, pageTables>>
    BY <1>5, QueryIs
  <2>2. ip' \in {"halted", "wild", "check", "query"}
    BY <1>5 DEF QuerySystemAddressMap, StoreRange
  <2>3. ip' \notin {"load", "switch", "kernel"} \union Copied
    BY <2>2 DEF Copied
  <2> QED BY <2>1, <2>3, KernelFrame
<1>6. CASE CheckMemoryEnough
  <2>1. /\ ip = "check" /\ ip' \in {"load", "halted"} /\ UNCHANGED <<kernel, pageTables>>
        /\ load' = [todo |-> KernelSectors, lba |-> FirstLba, dest |-> 0, carry |-> 0]
    BY <1>6 DEF CheckMemoryEnough
  <2>2. kernel' = <<>> /\ load'.dest = 0 /\ load'.todo = KernelSectors /\ load'.lba = FirstLba
    BY <2>1 DEF KernelInv
  <2>3. DOMAIN kernel' = {} /\ 0 .. load'.dest - 1 = {}
    BY <2>2
  <2>4. load'.dest + load'.todo = KernelSectors /\ load'.lba = FirstLba + load'.dest
    BY <2>2, SizesAre
  <2>5. ip' \notin BeforeMap \union {"query", "check", "switch", "kernel"} \union Copied
    BY <2>1 DEF BeforeMap, Copied
  <2> QED BY <2>3, <2>4, <2>5 DEF KernelInv
<1>7. CASE LoadKenerl
  <2>1. ip = "load" /\ ip' \in {"halted", "load", "protected"}
    BY <1>7, LoadIs
  <2>2. ip' \notin BeforeMap \union {"query", "check", "switch", "kernel"}
    BY <2>1 DEF BeforeMap
  <2>3. ip' \in Copied => load'.todo = 0
    <3>1. ip' \in Copied => ip' = "protected"
      BY <2>1 DEF Copied
    <3> QED BY <1>7, <3>1, LoadIs
  <2>4. ASSUME ip' \in {"load"} \union Copied, load'.carry = 0
        PROVE  /\ load'.dest + load'.todo = KernelSectors /\ load'.lba = FirstLba + load'.dest
               /\ DOMAIN kernel' = 0 .. load'.dest - 1
               /\ \A i \in DOMAIN kernel' : kernel'[i] = [kind |-> "sector", lba |-> FirstLba + i]
    <3>1. ip' # "halted" /\ gate
      BY <2>1, <2>4 DEF Copied, GateInv
    <3>2. PICK n \in 0 .. BufferSectors : n <= load.todo /\ CopySectors(n)
      BY <1>7, <3>1, LoadIs
    <3> QED BY <2>1, <2>4, <3>1, <3>2, CopyIs
  <2> QED BY <2>2, <2>3, <2>4 DEF KernelInv
<1>8. CASE MakePageTable
  <2>1. ip = "maketables" /\ ip' = "switch" /\ UNCHANGED <<load, kernel>>
    BY <1>8 DEF MakePageTable
  <2>2. BothHalvesMapped'
    BY <1>8, TablesMap
  <2>3. ip \in Copied /\ ip' \notin BeforeMap \union {"query", "check"}
    BY <2>1 DEF BeforeMap, Copied
  <2> QED BY <2>1, <2>2, <2>3 DEF KernelInv
<1> QED BY <1>1, <1>2, <1>3, <1>4, <1>5, <1>6, <1>7, <1>8 DEF BootNext, Processor

-----------------------------------------------------------------------------
(* The theorems. *)

LEMMA InitBootInv == BootInit => BootInv
<1> SUFFICES ASSUME BootInit PROVE BootInv
  OBVIOUS
<1>1. /\ ip = "stage1" /\ gate \in BOOLEAN /\ probe = [low |-> "a", high |-> "b"]
      /\ kbc \in [input : {"none"}, data : {[run |-> TRUE, a20 |-> TRUE]},
                  expects : {FALSE}, owes : {FALSE}, out : PortByte]
      /\ kbd = [step |-> 1, al |-> [run |-> TRUE, a20 |-> TRUE]]
      /\ early = FALSE
      /\ map = <<>> /\ stored = 0 /\ count = 0 /\ reported = <<>>
      /\ load = [todo |-> 0, lba |-> 0, dest |-> 0, carry |-> 0]
      /\ kernel = <<>>
      /\ pageTables = [e \in 0 .. 3 * PageEntries - 1 |-> Junk]
  BY DEF BootInit
<1>2. [run |-> TRUE, a20 |-> TRUE] \in PortByte
  BY DEF PortByte
<1>3. /\ kbc \in [input : {"none", "data", "AD", "D0", "D1", "AE"}, data : PortByte,
                  expects : BOOLEAN, owes : BOOLEAN, out : PortByte]
      /\ kbc.data = [run |-> TRUE, a20 |-> TRUE]
  BY <1>1, <1>2
<1>4. kbd \in [step : 1 .. 7, al : PortByte] /\ kbd.step = 1
  BY <1>1, <1>2
<1>5. BootTypeOK
  <2>1. DOMAIN probe = {"low", "high"} /\ DOMAIN pageTables = 0 .. 3 * PageEntries - 1
    BY <1>1
  <2>2. map \in Seq(Reports) /\ reported \in Seq(Reports)
    BY <1>1
  <2>3. load \in [todo : Nat, lba : Nat, dest : Nat, carry : Nat]
    BY <1>1
  <2> QED BY <1>1, <1>3, <1>4, <2>1, <2>2, <2>3 DEF BootTypeOK
<1>6. GateInv
  <2>1. kbc.data.run /\ kbc.data.a20
    BY <1>3
  <2> QED BY <1>1, <1>4, <2>1 DEF GateInv, ResetOnlyIfEarly, Copied
<1>7. MapInv
  BY <1>1 DEF MapInv, MapFaithful
<1>8. KernelInv
  BY <1>1 DEF KernelInv, Copied
<1> QED BY <1>5, <1>6, <1>7, <1>8 DEF BootInv

\* The invariant behind the next theorem: what each stage of stage2.s may count
\* on of those before it.
THEOREM BootInvariant == BootSpec => []BootInv
<1>1. BootInv /\ [BootNext]_bootVars => BootInv'
  BY TypeKeeps, GateKeeps, MapKeeps, KernelKeeps DEF BootInv
<1> QED BY <1>1, InitBootInv, PTL DEF BootSpec

\* What stage 2 leaves to the kernel (stage2.s:110-714), for sizes of any kind
\* and whatever the BIOS answers: the kernel is entered with the gate open,
\* both halves of the address space mapped and every sector in its place,
\* unless a read returned nothing; the map handed over is that of the BIOS
\* without the ranges to be ignored, but for the last; and the processor is only
\* reset when the controller's byte was read before it was there.
THEOREM BootHandedOver == BootSpec => []HandedOver
<1>1. BootInv => HandedOver
  <2> SUFFICES ASSUME BootInv PROVE HandedOver
    OBVIOUS
  <2>1. BootTypeOK /\ GateInv /\ MapInv /\ KernelInv
    BY DEF BootInv
  <2>2. ASSUME ip = "kernel" PROVE gate /\ BothHalvesMapped /\ (load.carry = 0 => KernelInMemory)
    <3>1. gate /\ BothHalvesMapped /\ load.todo = 0
      BY <2>1, <2>2 DEF GateInv, KernelInv, Copied
    <3>2. ASSUME load.carry = 0 PROVE KernelInMemory
      <4>1. /\ load.dest + load.todo = KernelSectors
            /\ DOMAIN kernel = 0 .. load.dest - 1
            /\ \A i \in DOMAIN kernel : kernel[i] = [kind |-> "sector", lba |-> FirstLba + i]
        BY <2>1, <2>2, <3>2 DEF KernelInv, Copied
      <4>2. load.dest = KernelSectors
        BY <2>1, <3>1, <4>1 DEF BootTypeOK
      <4> QED BY <4>1, <4>2 DEF KernelInMemory
    <3> QED BY <3>1, <3>2
  <2>3. MapFaithful /\ ResetOnlyIfEarly
    BY <2>1 DEF MapInv, GateInv
  <2> QED BY <2>2, <2>3 DEF HandedOver, KernelEntered
<1> QED BY <1>1, BootInvariant, PTL
=============================================================================
