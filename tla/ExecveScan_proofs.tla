--------------------------- MODULE ExecveScan_proofs ---------------------------
(***************************************************************************)
(* Proofs about the search for YA_SCHED_ZONE_ID, for any number of tasks   *)
(* and any environments: a search that no other task disturbs answers for  *)
(* its own environment, whatever is left in the buffer, and the zone it    *)
(* reads is the number that is written there.                              *)
(***************************************************************************)
EXTENDS ExecveScan, FoldLemmas, SequenceTheorems, TLAPS

Strings == [cells : Seq([text : STRING, digits : Seq(Int)]), faults : BOOLEAN]

\* How much of a string the buffer takes.
LEMMA FitsBounds ==
    ASSUME NEW s, Len(s.cells) \in Nat
    PROVE  /\ Fits(s) \in {Len(s.cells), ENV_CELLS}
           /\ Fits(s) <= Len(s.cells) /\ Fits(s) <= ENV_CELLS
<1> DEFINE a == Len(s.cells)
           b == ENV_CELLS
<1>1. PICK m \in {a, b} : m <= a /\ m <= b
    BY BufferAssumption
<1>2. \A x \in {a, b} : x <= a /\ x <= b => x = m
    BY <1>1, BufferAssumption
<1>3. Min({a, b}) = m
    BY <1>1, <1>2 DEF Min
<1> QED  BY <1>1, <1>3 DEF Fits

\* A task that reads or writes the buffer is at one of its strings.
PlaceInv == \A t \in Tasks : Uses(t) => i[t] \in DOMAIN envp[t]

\* The strings before the current one decided nothing.
Undecided(t) == Before(envp[t], i[t])

\* Nobody disturbed the task, and no string sends it to what others left.
Clear(t) == ~disturbed[t] /\ ~MeetsBare(envp[t])

\* What a task in the clear knows at each place.
Knows(t) ==
    /\ pc[t] = "next" \/ Uses(t) => Undecided(t)
    /\ pc[t] = "next" => copied[t] = 0
    /\ Uses(t) => \A n \in 1 .. copied[t] : envbuf[n] = String(t).cells[n]
    /\ pc[t] \in {"head", "name", "value"} => copied[t] = Fits(String(t)) /\ ~String(t).faults
    /\ pc[t] = "name" => String(t).cells[1].text = ya_zone_str
    /\ pc[t] = "value" => IsZoneVariable(String(t))

SearchInv == \A t \in Tasks : Clear(t) => Knows(t)

\* The types that the argument needs; what the cells hold plays no part.
Types ==
    /\ pc \in [Tasks -> {"user", "next", "copy", "head", "name", "value", "founds", "plain"}]
    /\ envp \in [Tasks -> Environments \cup {<<>>}]
    /\ i \in [Tasks -> Nat \ {0}]
    /\ copied \in [Tasks -> 0 .. ENV_CELLS]
    /\ envbuf = [n \in 1 .. ENV_CELLS |-> envbuf[n]]
    /\ disturbed \in [Tasks -> BOOLEAN]

IInv == Types /\ PlaceInv /\ SearchInv /\ UndisturbedSearchIsRight

\* A string that a task is at is one of an environment's.
LEMMA StringType ==
    ASSUME Types, PlaceInv, NEW t \in Tasks, Uses(t)
    PROVE  /\ envp[t] \in Environments
           /\ String(t) \in Strings
           /\ ~String(t).faults => Len(String(t).cells) > 0
           /\ Fits(String(t)) \in 0 .. ENV_CELLS /\ Fits(String(t)) <= Len(String(t).cells)
           /\ Fits(String(t)) = Len(String(t).cells) \/ Fits(String(t)) = ENV_CELLS
           /\ /\ ~String(t).faults
              /\ Len(String(t).cells) >= 3
              /\ String(t).cells[3].text = zone_id_str
              => Len(String(t).cells) >= 4
<1>1. i[t] \in DOMAIN envp[t]
    BY DEF PlaceInv
<1>2. envp[t] \in Environments
    BY <1>1 DEF Types
<1>3. String(t) \in Strings
  <2>1. envp[t] \in Seq(Strings)
      BY <1>2, EnvironmentsAssumption DEF Strings
  <2> QED  BY <1>1, <2>1, SeqElement DEF String
<1>4. ~String(t).faults => Len(String(t).cells) > 0
    BY <1>1, <1>2, EnvironmentsAssumption DEF String
<1>6. ~String(t).faults /\ Len(String(t).cells) >= 3 /\ String(t).cells[3].text = zone_id_str
        => Len(String(t).cells) >= 4
    BY <1>1, <1>2, EnvironmentsAssumption DEF String
<1>7. Len(String(t).cells) \in Nat
    BY <1>3 DEF Strings
<1>8. /\ Fits(String(t)) \in {Len(String(t).cells), ENV_CELLS}
      /\ Fits(String(t)) <= Len(String(t).cells) /\ Fits(String(t)) <= ENV_CELLS
    BY <1>7, FitsBounds
<1> QED  BY <1>2, <1>3, <1>4, <1>6, <1>7, <1>8, BufferAssumption

\* At the start nobody searches.
LEMMA InitIInv == Init => IInv
<1> SUFFICES ASSUME Init PROVE IInv
    OBVIOUS
<1>1. /\ pc \in [Tasks -> {"user", "next", "copy", "head", "name", "value", "founds", "plain"}]
      /\ envp \in [Tasks -> Environments \cup {<<>>}]
      /\ i \in [Tasks -> Nat \ {0}]
      /\ copied \in [Tasks -> 0 .. ENV_CELLS]
      /\ disturbed \in [Tasks -> BOOLEAN]
    BY BufferAssumption DEF Init
<1>4. envbuf = [n \in 1 .. ENV_CELLS |-> envbuf[n]]
    BY DEF Init
<1>2. Types
    BY <1>1, <1>4 DEF Types
<1>3. PlaceInv /\ SearchInv /\ UndisturbedSearchIsRight
    BY DEF Init, PlaceInv, SearchInv, Knows, UndisturbedSearchIsRight, Uses
<1> QED  BY <1>2, <1>3 DEF IInv

\* A step that writes the buffer disturbs the others.
LEMMA CopyCellStep == ASSUME IInv, NEW t \in Tasks, CopyCell(t) PROVE IInv'
<1> USE DEF IInv
<1>1. /\ pc[t] = "copy" /\ Uses(t) /\ copied[t] < Fits(String(t))
      /\ UNCHANGED <<pc, envp, i>>
    BY DEF CopyCell, Uses
<1>2. Fits(String(t)) \in 0 .. ENV_CELLS
    BY <1>1, StringType
<1>7. copied[t] \in Nat /\ copied[t] + 1 \in 1 .. ENV_CELLS
  <2>1. copied[t] \in Nat
      BY DEF Types
  <2> QED  BY <1>1, <1>2, <2>1, BufferAssumption
<1>8. /\ copied' = [copied EXCEPT ![t] = copied[t] + 1]
      /\ envbuf'[copied[t] + 1] = String(t).cells[copied[t] + 1]
      /\ \A n \in 1 .. ENV_CELLS : n # copied[t] + 1 => envbuf'[n] = envbuf[n]
    BY <1>7 DEF CopyCell, Types
<1>3. Types'
  <2>1. copied' \in [Tasks -> 0 .. ENV_CELLS]
      BY <1>7, <1>8, BufferAssumption DEF Types
  <2>2. disturbed' \in [Tasks -> BOOLEAN]
      BY DEF CopyCell, Types, Uses
  <2>3. envbuf' = [n \in 1 .. ENV_CELLS |-> envbuf'[n]]
      BY DEF CopyCell, Types
  <2> QED  BY <1>1, <2>1, <2>2, <2>3 DEF Types
<1>4. PlaceInv'
    BY <1>1 DEF PlaceInv, Uses
<1>5. SearchInv'
  <2> SUFFICES ASSUME NEW u \in Tasks, Clear(u)' PROVE Knows(u)'
      BY DEF SearchInv
  <2>1. Clear(u) /\ (u # t => ~Uses(u))
      BY <1>1 DEF CopyCell, Types, Clear
  <2>2. Uses(u)' = Uses(u) /\ Undecided(u)' = Undecided(u) /\ String(u)' = String(u)
      BY <1>1 DEF Uses, Undecided, String
  <2>3. CASE u # t
    <3>1. copied'[u] = copied[u]
        BY <1>8, <2>3 DEF Types
    <3>2. pc'[u] = pc[u] /\ ~Uses(u) /\ ~Uses(u)'
        BY <1>1, <2>1, <2>2, <2>3
    <3>3. pc[u] \notin {"copy", "head", "name", "value"}
        BY <3>2 DEF Uses
    <3> QED  BY <2>1, <2>2, <3>1, <3>2, <3>3 DEF SearchInv, Knows
  <2>4. CASE u = t
    <3>1. copied'[t] = copied[t] + 1 /\ copied[t] \in Nat
        BY DEF CopyCell, Types
    <3>2. ASSUME NEW n \in 1 .. copied[t] + 1 PROVE envbuf'[n] = String(t).cells[n]
      <4>1. CASE n = copied[t] + 1
          BY <1>8, <4>1
      <4>2. CASE n # copied[t] + 1
        <5>1. n \in 1 .. copied[t]
            BY <1>7, <3>1, <3>2, <4>2
        <5>2. n \in 1 .. ENV_CELLS
            BY <1>7, <3>2, BufferAssumption
        <5> QED  BY <1>1, <1>8, <2>1, <2>4, <4>2, <5>1, <5>2 DEF SearchInv, Knows
      <4> QED  BY <4>1, <4>2
    <3> QED  BY <1>1, <2>1, <2>2, <2>4, <3>1, <3>2 DEF SearchInv, Knows, Fits, IsZoneVariable
  <2> QED  BY <2>3, <2>4
<1>6. UndisturbedSearchIsRight'
    BY <1>1 DEF UndisturbedSearchIsRight, CopyCell, Types
<1> QED  BY <1>3, <1>4, <1>5, <1>6

\* A step of one task that leaves the buffer alone.
LEMMA OneTaskStep ==
    ASSUME IInv, Types', NEW t \in Tasks, envbuf' = envbuf,
           \A u \in Tasks \ {t} : /\ pc'[u] = pc[u] /\ envp'[u] = envp[u] /\ i'[u] = i[u]
                                  /\ copied'[u] = copied[u] /\ disturbed'[u] = disturbed[u],
           Uses(t)' => i'[t] \in DOMAIN envp'[t],
           Clear(t)' => Knows(t)',
           pc'[t] \in {"founds", "plain"} /\ Clear(t)' => (pc'[t] = "founds" <=> Asks(envp'[t]))
    PROVE  IInv'
<1> USE DEF IInv
<1>1. PlaceInv'
    BY DEF PlaceInv, Uses
<1>2. ASSUME NEW u \in Tasks, Clear(u)' PROVE Knows(u)'
  <2>1. CASE u = t
      BY <1>2, <2>1
  <2>2. CASE u # t
    <3>1. Clear(u) /\ Knows(u)
        BY <1>2, <2>2 DEF SearchInv, Clear
    <3> QED  BY <2>2, <3>1 DEF Knows, Uses, Undecided, String, Fits, IsZoneVariable
  <2> QED  BY <2>1, <2>2
<1>3. SearchInv'
    BY <1>2 DEF SearchInv
<1>4. UndisturbedSearchIsRight'
    BY DEF UndisturbedSearchIsRight, Clear
<1> QED  BY <1>1, <1>3, <1>4

\* The search begins at the first string.
LEMMA ExecveStep == ASSUME IInv, NEW t \in Tasks, NEW e \in Environments, Execve(t, e) PROVE IInv'
<1> USE DEF IInv
<1>1. Types'
    BY BufferAssumption DEF Types, Execve, Goto
<1>2. pc'[t] = "next" /\ i'[t] = 1
    BY DEF Execve, Goto, Types
<1>3. Knows(t)'
  <2>1. copied'[t] = 0
      BY DEF Execve, Types
  <2>2. Undecided(t)'
      BY <1>2 DEF Undecided, Before
  <2> QED  BY <1>2, <2>1, <2>2 DEF Knows, Uses
<1> QED  BY <1>1, <1>2, <1>3, OneTaskStep DEF Execve, Goto, Types, Uses

\* After the last string nothing is left that could ask for a job.
LEMMA NextStringStep == ASSUME IInv, NEW t \in Tasks, NextString(t) PROVE IInv'
<1> USE DEF IInv
<1>1. Types'
    BY DEF Types, NextString, Goto
<1>2. /\ envp' = envp /\ i' = i /\ copied' = copied /\ disturbed' = disturbed /\ envbuf' = envbuf
      /\ pc[t] = "next"
      /\ pc'[t] = IF i[t] <= Len(envp[t]) THEN "copy" ELSE "plain"
      /\ \A u \in Tasks \ {t} : pc'[u] = pc[u]
    BY DEF NextString, Goto, Types
<1>3. envp[t] \in Seq(Strings)
  <2>1. envp[t] \in Environments \cup {<<>>}
      BY DEF Types
  <2>2. CASE envp[t] \in Environments
      BY <2>2, EnvironmentsAssumption DEF Strings
  <2>3. CASE envp[t] = <<>>
      BY <2>3
  <2> QED  BY <2>1, <2>2, <2>3
<1>4. i[t] \in Nat \ {0}
    BY DEF Types
<1>5. Uses(t)' => i'[t] \in DOMAIN envp'[t]
    BY <1>2, <1>3, <1>4 DEF Uses
<1>6. Clear(t) => Undecided(t) /\ copied[t] = 0
    BY <1>2 DEF SearchInv, Knows
<1>7. Clear(t)' => Knows(t)'
    BY <1>2, <1>6 DEF Knows, Uses, Undecided, Clear
<1>8. pc'[t] = "plain" /\ Clear(t)' => ~Asks(envp'[t])
    BY <1>2, <1>3, <1>4, <1>6 DEF Undecided, Before, Asks, Clear
<1> QED  BY <1>1, <1>2, <1>5, <1>7, <1>8, OneTaskStep

\* What the current string decides, when those before it decided nothing.
LEMMA Verdict ==
    ASSUME IInv, NEW t \in Tasks, Uses(t), Clear(t)
    PROVE  /\ String(t).faults => ~Asks(envp[t])
           /\ IsZoneVariable(String(t)) /\ ~String(t).faults
                => (Asks(envp[t]) <=> ZoneExists(my_atol(String(t).cells[4].digits)))
<1> USE DEF IInv
<1>1. envp[t] \in Seq(Strings) /\ i[t] \in DOMAIN envp[t]
    BY StringType, EnvironmentsAssumption DEF PlaceInv, Strings
<1>2. Undecided(t)
    BY DEF SearchInv, Knows
<1>3. ASSUME NEW n \in DOMAIN envp[t], IsZoneVariable(envp[t][n]),
             Before(envp[t], n)
      PROVE  n = i[t] \/ (n > i[t] /\ ~IsZoneVariable(String(t)) /\ ~String(t).faults)
    BY <1>1, <1>2, <1>3 DEF Undecided, Before, String
<1>4. String(t).faults => ~Asks(envp[t])
    BY <1>1, <1>3 DEF Asks, Before, String
<1>5. ASSUME IsZoneVariable(String(t)), ~String(t).faults
      PROVE  Asks(envp[t]) <=> ZoneExists(my_atol(String(t).cells[4].digits))
    BY <1>1, <1>2, <1>3, <1>5 DEF Asks, String, Undecided, Before
<1> QED  BY <1>4, <1>5

\* The search goes on behind a string that is not the variable.
LEMMA ContinueStep ==
    ASSUME IInv, NEW t \in Tasks, Uses(t), Continue(t), UNCHANGED <<envp, envbuf, disturbed>>,
           Clear(t) => ~IsZoneVariable(String(t)) /\ ~String(t).faults
    PROVE  IInv'
<1> USE DEF IInv
<1>1. Types'
    BY BufferAssumption DEF Types, Continue, Goto
<1>2. pc'[t] = "next" /\ i'[t] = i[t] + 1 /\ copied'[t] = 0 /\ i[t] \in Nat \ {0}
    BY DEF Continue, Goto, Types
<1>3. ASSUME Clear(t)' PROVE Knows(t)'
  <2>1. Undecided(t)
      BY <1>3 DEF SearchInv, Knows, Clear
  <2>3. ~IsZoneVariable(String(t)) /\ ~String(t).faults
      BY <1>3 DEF Clear
  <2>2. Undecided(t)'
      BY <1>2, <2>1, <2>3 DEF Undecided, Before, String
  <2> QED  BY <1>2, <2>2 DEF Knows, Uses
<1> QED  BY <1>1, <1>2, <1>3, OneTaskStep DEF Continue, Goto, Types, Uses

\* The search moves to another place at the same string.
LEMMA MoveStep ==
    ASSUME IInv, NEW t \in Tasks, NEW l \in {"head", "name", "value", "founds", "plain"}, Uses(t),
           Goto(t, l), UNCHANGED <<envp, i, copied, envbuf, disturbed>>,
           Clear(t) => Knows(t)',
           l \in {"founds", "plain"} /\ Clear(t) => (l = "founds" <=> Asks(envp[t]))
    PROVE  IInv'
<1> USE DEF IInv
<1>1. Types'
    BY DEF Types, Goto
<1>2. pc'[t] = l /\ \A u \in Tasks \ {t} : pc'[u] = pc[u]
    BY DEF Goto, Types
<1>3. i'[t] \in DOMAIN envp'[t]
    BY DEF PlaceInv
<1> QED  BY <1>1, <1>2, <1>3, OneTaskStep DEF Clear

\* What a task in the clear that has copied its string finds in the buffer.
LEMMA BufferHoldsString ==
    ASSUME IInv, NEW t \in Tasks, pc[t] \in {"head", "name", "value"}, Clear(t)
    PROVE  /\ Uses(t) /\ ~String(t).faults /\ copied[t] = Fits(String(t))
           /\ envbuf[1] = String(t).cells[1]
           /\ \A n \in 1 .. 4 : n <= Len(String(t).cells) => envbuf[n] = String(t).cells[n]
<1> USE DEF IInv
<1>1. Uses(t)
    BY DEF Uses
<1>2. copied[t] = Fits(String(t)) /\ ~String(t).faults
    BY DEF SearchInv, Knows
<1>3. \A n \in 1 .. copied[t] : envbuf[n] = String(t).cells[n]
    BY <1>1 DEF SearchInv, Knows
<1>4. Len(String(t).cells) \in Nat
    BY <1>1, StringType DEF Strings
<1>5. /\ Len(String(t).cells) > 0 /\ Fits(String(t)) \in 0 .. ENV_CELLS
      /\ Fits(String(t)) = Len(String(t).cells) \/ Fits(String(t)) = ENV_CELLS
    BY <1>1, <1>2, StringType
<1>6. ASSUME NEW n \in 1 .. 4, n <= Len(String(t).cells) PROVE n \in 1 .. copied[t]
    BY <1>2, <1>4, <1>5, <1>6, BufferAssumption
<1>7. 1 \in 1 .. copied[t]
    BY <1>2, <1>5, BufferAssumption
<1> QED  BY <1>1, <1>2, <1>3, <1>6, <1>7

LEMMA CopiedStep == ASSUME IInv, NEW t \in Tasks, Copied(t) PROVE IInv'
<1> USE DEF IInv
<1> DEFINE l == IF String(t).faults THEN "plain" ELSE "head"
<1>1. pc[t] = "copy" /\ Uses(t) /\ copied[t] = Fits(String(t)) /\ Goto(t, l)
      /\ UNCHANGED <<envp, i, copied, envbuf, disturbed>>
    BY DEF Copied, Uses
<1>2. l = "plain" /\ Clear(t) => ~Asks(envp[t])
    BY <1>1, Verdict
<1>3. pc'[t] = l
    BY <1>1 DEF Goto, Types
<1>4. ASSUME Clear(t) PROVE Knows(t)'
    BY <1>1, <1>3, <1>4 DEF SearchInv, Knows, Uses, Undecided, String, Fits, IsZoneVariable
<1>5. l \in {"head", "name", "value", "founds", "plain"} /\ l # "founds"
    OBVIOUS
<1> QED  BY <1>1, <1>2, <1>4, <1>5, MoveStep

\* A string that does not begin with YA_SCHED is not the variable.
LEMMA TestHeadStep == ASSUME IInv, NEW t \in Tasks, TestHead(t) PROVE IInv'
<1> USE DEF IInv
<1>1. pc[t] = "head" /\ Uses(t) /\ UNCHANGED <<envp, envbuf, disturbed>>
    BY DEF TestHead, Uses
<1>2. CASE envbuf[1].text = ya_zone_str
  <2>1. Goto(t, "name") /\ UNCHANGED <<i, copied>>
      BY <1>2 DEF TestHead
  <2>2. pc'[t] = "name"
      BY <2>1 DEF Goto, Types
  <2>3. ASSUME Clear(t) PROVE Knows(t)'
    <3>1. envbuf[1] = String(t).cells[1]
        BY <1>1, <2>3, BufferHoldsString
    <3> QED
        BY <1>1, <1>2, <2>1, <2>2, <2>3, <3>1 DEF SearchInv, Knows, Uses, Undecided, String, Fits
  <2> QED  BY <1>1, <2>1, <2>3, MoveStep
<1>3. CASE envbuf[1].text # ya_zone_str
  <2>1. Clear(t) => ~IsZoneVariable(String(t)) /\ ~String(t).faults
      BY <1>1, <1>3, BufferHoldsString DEF IsZoneVariable
  <2>2. Continue(t)
      BY <1>3 DEF TestHead
  <2> QED  BY <1>1, <2>1, <2>2, ContinueStep
<1> QED  BY <1>2, <1>3

\* Behind YA_SCHED the third cell is the string's own.
LEMMA TestNameStep == ASSUME IInv, NEW t \in Tasks, TestName(t) PROVE IInv'
<1> USE DEF IInv
<1>1. pc[t] = "name" /\ Uses(t) /\ UNCHANGED <<envp, envbuf, disturbed>>
    BY DEF TestName, Uses
<1>2. ASSUME Clear(t)
      PROVE  /\ String(t).cells[1].text = ya_zone_str /\ ~String(t).faults
             /\ Len(String(t).cells) >= 3 /\ envbuf[3] = String(t).cells[3]
             /\ Len(String(t).cells) \in Nat
  <2>1. String(t).cells[1].text = ya_zone_str /\ ~String(t).faults
      BY <1>1, <1>2 DEF SearchInv, Knows
  <2>4. i[t] \in DOMAIN envp[t] /\ Undecided(t)
      BY <1>1, <1>2 DEF PlaceInv, SearchInv, Knows
  <2>5. ~IsBare(String(t)) /\ Len(String(t).cells) \in Nat
      BY <1>1, <1>2, <2>4, StringType DEF Strings, Clear, MeetsBare, Undecided, String
  <2>2. Len(String(t).cells) >= 3 /\ Len(String(t).cells) \in Nat
      BY <2>1, <2>5 DEF IsBare
  <2>3. envbuf[3] = String(t).cells[3]
      BY <1>1, <1>2, <2>2, BufferHoldsString
  <2> QED  BY <2>1, <2>2, <2>3
<1>3. CASE envbuf[3].text = zone_id_str
  <2>1. Goto(t, "value") /\ UNCHANGED <<i, copied>>
      BY <1>3 DEF TestName
  <2>2. pc'[t] = "value"
      BY <2>1 DEF Goto, Types
  <2>3. ASSUME Clear(t) PROVE Knows(t)'
    <3>1. IsZoneVariable(String(t))
        BY <1>1, <1>2, <1>3, <2>3, StringType DEF IsZoneVariable
    <3> QED  BY <1>1, <2>1, <2>2, <2>3, <3>1 DEF SearchInv, Knows, Uses, Undecided, String, Fits, IsZoneVariable
  <2> QED  BY <1>1, <2>1, <2>3, MoveStep
<1>4. CASE envbuf[3].text # zone_id_str
  <2>1. Clear(t) => ~IsZoneVariable(String(t)) /\ ~String(t).faults
      BY <1>2, <1>4 DEF IsZoneVariable
  <2>2. Continue(t)
      BY <1>4 DEF TestName
  <2> QED  BY <1>1, <2>1, <2>2, ContinueStep
<1> QED  BY <1>3, <1>4

\* The value is the task's own, and decides.
LEMMA TestValueStep == ASSUME IInv, NEW t \in Tasks, TestValue(t) PROVE IInv'
<1> USE DEF IInv
<1> DEFINE l == IF ZoneExists(my_atol(envbuf[4].digits)) THEN "founds" ELSE "plain"
<1>1. pc[t] = "value" /\ Uses(t) /\ Goto(t, l) /\ UNCHANGED <<envp, i, copied, envbuf, disturbed>>
    BY DEF TestValue, Uses
<1>2. ASSUME Clear(t) PROVE l = "founds" <=> Asks(envp[t])
  <2>1. IsZoneVariable(String(t)) /\ ~String(t).faults
      BY <1>1, <1>2 DEF SearchInv, Knows
  <2>2. envbuf[4] = String(t).cells[4]
      BY <1>1, <1>2, <2>1, BufferHoldsString DEF IsZoneVariable
  <2> QED  BY <1>1, <1>2, <2>1, <2>2, Verdict
<1>3. pc'[t] = l
    BY <1>1 DEF Goto, Types
<1>4. Knows(t)'
    BY <1>3 DEF Knows, Uses
<1>5. l \in {"head", "name", "value", "founds", "plain"}
    OBVIOUS
<1> QED  BY <1>1, <1>2, <1>4, <1>5, MoveStep

LEMMA ReturnStep == ASSUME IInv, NEW t \in Tasks, Return(t) PROVE IInv'
<1> USE DEF IInv
<1>1. Types'
    BY BufferAssumption DEF Types, Return, Goto
<1>2. pc'[t] = "user"
    BY DEF Return, Goto, Types
<1>3. Knows(t)'
    BY <1>2 DEF Knows, Uses
<1> QED  BY <1>1, <1>2, <1>3, OneTaskStep DEF Return, Goto, Types, Uses

LEMMA StutterStep == ASSUME IInv, UNCHANGED vars PROVE IInv'
BY DEF IInv, vars, Types, PlaceInv, SearchInv, Knows, Clear, Undecided, Uses, String, Fits, IsZoneVariable,
       UndisturbedSearchIsRight

\* The invariant of the search.
LEMMA SearchInvariance == Spec => []IInv
<1>1. Init => IInv
    BY InitIInv
<1>2. IInv /\ [Next]_vars => IInv'
  <2> SUFFICES ASSUME IInv, [Next]_vars PROVE IInv'
      OBVIOUS
  <2>1. CASE UNCHANGED vars
      BY <2>1, StutterStep
  <2>2. ASSUME NEW t \in Tasks, NEW e \in Environments, Execve(t, e) PROVE IInv'
      BY <2>2, ExecveStep
  <2>3. ASSUME NEW t \in Tasks, NextString(t) PROVE IInv'
      BY <2>3, NextStringStep
  <2>4. ASSUME NEW t \in Tasks, CopyCell(t) PROVE IInv'
      BY <2>4, CopyCellStep
  <2>5. ASSUME NEW t \in Tasks, Copied(t) PROVE IInv'
      BY <2>5, CopiedStep
  <2>6. ASSUME NEW t \in Tasks, TestHead(t) PROVE IInv'
      BY <2>6, TestHeadStep
  <2>7. ASSUME NEW t \in Tasks, TestName(t) PROVE IInv'
      BY <2>7, TestNameStep
  <2>8. ASSUME NEW t \in Tasks, TestValue(t) PROVE IInv'
      BY <2>8, TestValueStep
  <2>9. ASSUME NEW t \in Tasks, Return(t) PROVE IInv'
      BY <2>9, ReturnStep
  <2> QED  BY <2>1, <2>2, <2>3, <2>4, <2>5, <2>6, <2>7, <2>8, <2>9 DEF Next
<1> QED  BY <1>1, <1>2, PTL DEF Spec

\* A search that no other task disturbs gives the answer of the task's own
\* environment (new_job), for any number of tasks and any environments,
\* whatever earlier searches left in envbuf, up to a string "YA_SCHED".
THEOREM UndisturbedSearches == Spec => []UndisturbedSearchIsRight
<1>1. IInv => UndisturbedSearchIsRight
    BY DEF IInv
<1> QED  BY SearchInvariance, <1>1, PTL

\* The cells of the buffer are cells of strings, or still blank.
Cells == [text : STRING, digits : Seq(Int)]

BufferType == envbuf \in [1 .. ENV_CELLS -> {Blank} \cup Cells]

\* What is copied is a cell of the task's string, and goes into the buffer.
LEMMA BufferStep == IInv /\ BufferType /\ [Next]_vars => BufferType'
<1> SUFFICES ASSUME IInv, BufferType, [Next]_vars PROVE BufferType'
    OBVIOUS
<1>1. ASSUME NEW t \in Tasks, CopyCell(t) PROVE BufferType'
  <2> DEFINE s == String(t)
             n == copied[t] + 1
  <2>1. Types /\ PlaceInv /\ Uses(t) /\ copied[t] < Fits(s) /\ envbuf' = [envbuf EXCEPT ![n] = s.cells[n]]
      BY <1>1 DEF CopyCell, Uses, IInv
  <2>2. s \in Strings /\ Fits(s) \in 0 .. ENV_CELLS /\ Fits(s) <= Len(s.cells)
      BY <2>1, StringType
  <2>3. s.cells \in Seq(Cells)
      BY <2>2 DEF Strings, Cells
  <2>4. copied[t] \in Nat
      BY <2>1 DEF Types
  <2>5. n \in DOMAIN s.cells
      BY <2>1, <2>2, <2>3, <2>4, BufferAssumption
  <2>6. s.cells[n] \in Cells
      BY <2>3, <2>5, SeqElement
  <2> QED  BY <2>1, <2>6 DEF BufferType
<1>2. CASE UNCHANGED envbuf
    BY <1>2 DEF BufferType
<1> QED
    BY <1>1, <1>2
       DEF Next, Execve, NextString, Copied, TestHead, TestName, TestValue, Return, vars

(* However the tasks' copies mix in the one buffer, no copy leaves it, and *)
(* each task's place in its environment is a place.                        *)
THEOREM TypeCorrect == Spec => []TypeOK
<1>1. Init => BufferType
    BY DEF Init, BufferType
<1>2. IInv /\ BufferType => TypeOK
    BY DEF IInv, Types, BufferType, Cells, TypeOK
<1>3. Spec => []IInv
    BY SearchInvariance
<1> QED  BY BufferStep, <1>1, <1>2, <1>3, PTL DEF Spec

-----------------------------------------------------------------------------
(* my_atol: the loop over the characters.                                  *)

Acc0 == [end |-> FALSE, val |-> 0]

ReadOne(acc, d) == IF acc.end \/ d \notin 0 .. 9 THEN [acc EXCEPT !.end = TRUE]
                   ELSE [acc EXCEPT !.val = (10 * @ + d) % INT_MOD]

\* The accumulator after a set of characters, the last one read last.
IsLoop(s, D, g) ==
    g = [r \in SUBSET D |-> IF r = {} THEN Acc0 ELSE ReadOne(g[r \ {Max(r)}], s[Max(r)])]

\* There is such a function.
LEMMA LoopExists ==
    ASSUME NEW s, NEW n \in Nat
    PROVE  \E g : IsLoop(s, 1 .. n, g)
<1> DEFINE T == {k \in Nat : \E g : IsLoop(s, 1 .. k, g)}
<1>1. 0 \in T
  <2> DEFINE g == [r \in SUBSET (1 .. 0) |-> Acc0]
  <2>1. \A r \in SUBSET (1 .. 0) : r = {}
      OBVIOUS
  <2>2. IsLoop(s, 1 .. 0, g)
      BY <2>1 DEF IsLoop
  <2> QED  BY <2>2
<1>2. ASSUME NEW k \in T PROVE k + 1 \in T
  <2>1. PICK g : IsLoop(s, 1 .. k, g)
      OBVIOUS
  <2> DEFINE h == [r \in SUBSET (1 .. k + 1) |->
                     IF k + 1 \in r THEN ReadOne(g[r \ {k + 1}], s[k + 1]) ELSE g[r]]
  <2>2. ASSUME NEW r \in SUBSET (1 .. k + 1)
        PROVE  h[r] = IF r = {} THEN Acc0 ELSE ReadOne(h[r \ {Max(r)}], s[Max(r)])
    <3>1. CASE k + 1 \in r
      <4>1. Max(r) = k + 1
          BY <3>1, MaxIs
      <4>2. h[r \ {k + 1}] = g[r \ {k + 1}]
          OBVIOUS
      <4> QED  BY <3>1, <4>1, <4>2
    <3>2. CASE k + 1 \notin r
      <4>1. r \in SUBSET (1 .. k)
          BY <3>2
      <4>2. h[r] = g[r]
          BY <3>2
      <4>3. g[r] = IF r = {} THEN Acc0 ELSE ReadOne(g[r \ {Max(r)}], s[Max(r)])
          BY <2>1, <4>1 DEF IsLoop
      <4>4. h[r \ {Max(r)}] = g[r \ {Max(r)}]
          BY <3>2
      <4> QED  BY <4>2, <4>3, <4>4
    <3> QED  BY <3>1, <3>2
  <2> HIDE DEF h
  <2>3. h = [r \in SUBSET (1 .. k + 1) |-> h[r]]
      BY DEF h
  <2>4. IsLoop(s, 1 .. k + 1, h)
      BY <2>2, <2>3 DEF IsLoop
  <2> QED  BY <2>4
<1>3. T = Nat
    BY <1>1, <1>2, NatSetInd
<1> QED  BY <1>3

\* my_atol reads no more than the first ATOL_DIGITS characters, in turn.
LEMMA AtolTurns ==
    ASSUME NEW s \in Seq(Int), NEW m \in Nat, m = Min({Len(s), ATOL_DIGITS})
    PROVE  \E g : /\ my_atol(s) = g[1 .. m].val
                  /\ g[1 .. 0] = Acc0
                  /\ \A k \in 0 .. m - 1 : g[1 .. k + 1] = ReadOne(g[1 .. k], s[k + 1])
<1> DEFINE r == SubSeq(s, 1, m)
           g == CHOOSE f : IsLoop(r, DOMAIN r, f)
<1>1. m <= Len(s)
  <2> DEFINE S == {Len(s), ATOL_DIGITS}
  <2>1. S \in SUBSET Nat /\ S # {} /\ Len(s) \in S
      BY NumbersAssumption
  <2> HIDE DEF S
  <2>2. Min(S) <= Len(s)
      BY <2>1, MinOfNat
  <2> QED  BY <2>2 DEF S
<1>2. DOMAIN r = 1 .. m /\ \A k \in 1 .. m : r[k] = s[k]
  <2>1. (\A k \in 1 .. m : s[k] \in Int) /\ 1 \in Int /\ m \in Int
      BY <1>1
  <2>2. r \in Seq(Int) /\ Len(r) = m
    <3>1. SubSeq(s, 1, m) \in Seq(Int)
        BY <2>1, SubSeqProperties
    <3>2. Len(SubSeq(s, 1, m)) = IF 1 <= m THEN m - 1 + 1 ELSE 0
        BY <2>1, SubSeqProperties
    <3>3. (IF 1 <= m THEN m - 1 + 1 ELSE 0) = m
        OBVIOUS
    <3> QED  BY <3>1, <3>2, <3>3
  <2>3. ASSUME NEW k \in 1 .. m PROVE r[k] = s[k]
    <3>1. 1 + k - 1 = k /\ k \in 1 .. m - 1 + 1
        OBVIOUS
    <3>2. r[k] = s[1 + k - 1]
      <4>1. \A j \in 1 .. m - 1 + 1 : SubSeq(s, 1, m)[j] = s[1 + j - 1]
          BY <2>1, SubSeqProperties
      <4> QED  BY <3>1, <4>1
    <3> QED  BY <3>1, <3>2
  <2> HIDE DEF r
  <2>4. DOMAIN r = 1 .. Len(r)
      BY <2>2
  <2> QED  BY <2>2, <2>3, <2>4
<1>3. my_atol(s) = g[DOMAIN r].val
    BY Zenon DEF my_atol, FoldLeft, MapThenFoldSet, IsLoop, ReadOne, Acc0
<1> HIDE DEF r
<1>4. IsLoop(r, 1 .. m, g)
    BY <1>2, LoopExists
<1> HIDE DEF g
<1>5. g[1 .. 0] = Acc0
    BY <1>4 DEF IsLoop
<1>6. ASSUME NEW k \in 0 .. m - 1
      PROVE  g[1 .. k + 1] = ReadOne(g[1 .. k], s[k + 1])
  <2>1. 1 .. k + 1 \in SUBSET (1 .. m) /\ 1 .. k + 1 # {} /\ k + 1 \in 1 .. m
    <3>1. k + 1 \in 1 .. k + 1 /\ \A n \in 1 .. k + 1 : n \in 1 .. m
        OBVIOUS
    <3> QED  BY <3>1
  <2>2. Max(1 .. k + 1) = k + 1
    <3>1. k + 1 \in 1 .. k + 1 /\ 1 .. k + 1 \in SUBSET Int /\ \A n \in 1 .. k + 1 : n <= k + 1
        OBVIOUS
    <3> QED  BY <3>1, MaxIs
  <2>3. (1 .. k + 1) \ {k + 1} = 1 .. k
      OBVIOUS
  <2>4. g[1 .. k + 1] = ReadOne(g[(1 .. k + 1) \ {Max(1 .. k + 1)}], r[Max(1 .. k + 1)])
      BY <1>4, <2>1 DEF IsLoop
  <2> QED  BY <1>2, <2>1, <2>2, <2>3, <2>4
<1>7. my_atol(s) = g[1 .. m].val
    BY <1>2, <1>3
<1> QED  BY <1>5, <1>6, <1>7

-----------------------------------------------------------------------------
(* What the digits are worth.                                              *)

\* The weights are what their definition says.
LEMMA TenIs ==
    /\ ATOL_DIGITS \in Nat
    /\ \A k \in 0 .. ATOL_DIGITS : Ten[k] \in Int /\ Ten[k] = IF k = 0 THEN 1 ELSE 10 * Ten[k - 1]
<1> DEFINE Up(n, f) == f = [k \in 0 .. n |-> IF k = 0 THEN 1 ELSE 10 * f[k - 1]]
           T == {n \in Nat : \E f : Up(n, f)}
<1>1. ATOL_DIGITS \in Nat
    BY NumbersAssumption
<1>2. 0 \in T
  <2> DEFINE f == [k \in 0 .. 0 |-> 1]
  <2>1. Up(0, f)
      OBVIOUS
  <2> QED  BY <2>1
<1>3. ASSUME NEW n \in T PROVE n + 1 \in T
  <2>1. PICK f : Up(n, f)
      OBVIOUS
  <2> DEFINE h == [k \in 0 .. n + 1 |-> IF k = 0 THEN 1 ELSE 10 * f[k - 1]]
  <2>2. ASSUME NEW k \in 0 .. n PROVE h[k] = f[k]
    <3>1. f[k] = IF k = 0 THEN 1 ELSE 10 * f[k - 1]
        BY <2>1
    <3> QED  BY <3>1
  <2>3. \A k \in 0 .. n + 1 : k # 0 => k - 1 \in 0 .. n
      OBVIOUS
  <2>4. \A k \in 0 .. n + 1 : h[k] = IF k = 0 THEN 1 ELSE 10 * h[k - 1]
      BY <2>2, <2>3
  <2>5. h = [k \in 0 .. n + 1 |-> h[k]]
      OBVIOUS
  <2> HIDE DEF h
  <2>6. Up(n + 1, h)
      BY <2>4, <2>5
  <2> QED  BY <2>6
<1>4. T = Nat
  <2> HIDE DEF T
  <2> QED  BY <1>2, <1>3, NatSetInd DEF T
<1>5. PICK f : Up(ATOL_DIGITS, f)
    BY <1>1, <1>4
<1>6. Ten = [k \in 0 .. ATOL_DIGITS |-> IF k = 0 THEN 1 ELSE 10 * Ten[k - 1]]
    BY <1>5 DEF Ten
<1>7. \A k \in 0 .. ATOL_DIGITS : Ten[k] = IF k = 0 THEN 1 ELSE 10 * Ten[k - 1]
    BY <1>6
<1> DEFINE U == {k \in Nat : k <= ATOL_DIGITS => Ten[k] \in Int}
<1>8. 0 \in U
    BY <1>1, <1>7
<1>9. ASSUME NEW k \in U PROVE k + 1 \in U
  <2> SUFFICES ASSUME k + 1 <= ATOL_DIGITS PROVE Ten[k + 1] \in Int
      OBVIOUS
  <2>1. k + 1 \in 0 .. ATOL_DIGITS /\ k + 1 # 0 /\ (k + 1) - 1 = k /\ Ten[k] \in Int
      BY <1>1
  <2>2. Ten[k + 1] = 10 * Ten[k]
      BY <1>7, <2>1
  <2> QED  BY <2>1, <2>2
<1>10. U = Nat
  <2> HIDE DEF U
  <2> QED  BY <1>8, <1>9, NatSetInd DEF U
<1>11. ASSUME NEW k \in 0 .. ATOL_DIGITS PROVE Ten[k] \in Int
  <2>1. k \in U /\ k <= ATOL_DIGITS
      BY <1>1, <1>10
  <2> QED  BY <2>1
<1> QED  BY <1>1, <1>7, <1>11

\* The number that the first n characters write.
Worth(s, n) == MapThenSumSet(LAMBDA k : s[k] * Ten[n - k], 1 .. n)

\* Each digit's share of it.
Shares(s, n) == [k \in 1 .. n |-> s[k] * Ten[n - k]]

\* It is a sum, as a function of the digits summed.
LEMMA WorthIsSum ==
    ASSUME NEW s, NEW n \in Nat, n <= ATOL_DIGITS, \A k \in 1 .. n : s[k] \in Int
    PROVE  \E g : Summed(Shares(s, n), 1 .. n, g) /\ Worth(s, n) = g[1 .. n]
<1> DEFINE D == 1 .. n
           Is(g) == g = [r \in SUBSET D |-> IF r = {} THEN 0
                                            ELSE s[Chosen(r)] * Ten[n - Chosen(r)] + g[r \ {Chosen(r)}]]
<1>1. IsFiniteSet(D)
    BY FS_Interval
<1>2. ASSUME NEW k \in D PROVE Shares(s, n)[k] = s[k] * Ten[n - k] /\ Shares(s, n)[k] \in Int
  <2>1. n - k \in 0 .. ATOL_DIGITS
      BY TenIs
  <2>2. Ten[n - k] \in Int /\ s[k] \in Int
      BY <2>1, TenIs
  <2> QED  BY <2>2 DEF Shares
<1> HIDE DEF D
<1>3. ASSUME NEW r \in SUBSET D, r # {}
      PROVE  Shares(s, n)[Chosen(r)] = s[Chosen(r)] * Ten[n - Chosen(r)]
  <2>1. Chosen(r) \in r
      BY <1>3 DEF Chosen
  <2> QED  BY <1>2, <2>1
<1>4. \A g : Is(g) <=> Sums(Shares(s, n), D, g)
    BY <1>3 DEF Sums
<1>5. \E g : Is(g)
  <2>1. PICK g : Sums(Shares(s, n), D, g)
      BY <1>1, SumsExist
  <2> QED  BY <1>4, <2>1
<1>6. Worth(s, n) = (CHOOSE g : Is(g))[D]
    BY Zenon DEF Worth, MapThenSumSet, MapThenFoldSet, Chosen, D
<1> HIDE DEF Is
<1>7. Is(CHOOSE g : Is(g))
    BY <1>5
<1>8. Summed(Shares(s, n), D, CHOOSE g : Is(g))
    BY <1>1, <1>2, <1>4, <1>7 DEF Summed
<1> QED  BY <1>6, <1>8 DEF D

\* One character more makes it ten times as much and the digit.
LEMMA WorthStep ==
    ASSUME NEW s, NEW n \in Nat, n + 1 <= ATOL_DIGITS, \A k \in 1 .. n + 1 : s[k] \in Int
    PROVE  Worth(s, n) \in Int /\ Worth(s, n + 1) = 10 * Worth(s, n) + s[n + 1]
<1> DEFINE D == 1 .. n + 1
           E == 1 .. n
           F == Shares(s, n + 1)
           G == Shares(s, n)
<1>0. ATOL_DIGITS \in Nat /\ \A k \in E : s[k] \in Int
    BY TenIs
<1>1. PICK g : Summed(F, D, g) /\ Worth(s, n + 1) = g[D]
    BY WorthIsSum
<1>2. PICK h : Summed(G, E, h) /\ Worth(s, n) = h[E]
  <2>1. n <= ATOL_DIGITS
      BY <1>0
  <2> QED  BY <1>0, <2>1, WorthIsSum
<1>3. n + 1 \in D /\ D \ {n + 1} = E /\ E \in SUBSET D
    OBVIOUS
<1>4. F[n + 1] = s[n + 1]
  <2>1. (n + 1) - (n + 1) = 0 /\ Ten[0] = 1 /\ s[n + 1] \in Int
      BY <1>0, TenIs
  <2> QED  BY <1>3, <2>1 DEF Shares
<1>5. ASSUME NEW k \in E PROVE F[k] = 10 * G[k]
  <2>1. n - k \in 0 .. ATOL_DIGITS /\ n + 1 - k \in 0 .. ATOL_DIGITS /\ n + 1 - k # 0 /\ (n + 1 - k) - 1 = n - k
      BY <1>0
  <2>2. Ten[n - k] \in Int /\ Ten[n + 1 - k] = 10 * Ten[n - k] /\ s[k] \in Int
      BY <1>0, <2>1, TenIs
  <2>3. F[k] = s[k] * Ten[n + 1 - k] /\ G[k] = s[k] * Ten[n - k]
      BY <1>3 DEF Shares
  <2>4. \A a, b \in Int : a * (10 * b) = 10 * (a * b)
      OBVIOUS
  <2> QED  BY <2>2, <2>3, <2>4
<1> HIDE DEF D, E, F, G
<1>6. g[D] = F[n + 1] + g[E] /\ g[E] \in Int
  <2>1. \A y \in D : g[D] = F[y] + g[D \ {y}] /\ g[D \ {y}] \in Int
      BY <1>1, SumsWhole
  <2> QED  BY <1>3, <2>1
<1>7. g[E] = 10 * h[E]
    BY <1>1, <1>2, <1>3, <1>5, SumsTenfold
<1>8. h[E] \in Int
  <2>1. PICK r \in SUBSET E : r = E
      OBVIOUS
  <2>2. h[r] \in Int
      BY <1>2, SumsRemove
  <2> QED  BY <2>1, <2>2
<1>9. s[n + 1] \in Int
    BY <1>3 DEF D
<1> QED  BY <1>1, <1>2, <1>4, <1>6, <1>7, <1>8, <1>9

\* No character is worth nothing.
LEMMA WorthNothing == ASSUME NEW s PROVE Worth(s, 0) = 0
<1>1. 1 .. 0 = {} /\ 0 <= ATOL_DIGITS
    BY TenIs
<1>2. PICK g : Summed(Shares(s, 0), 1 .. 0, g) /\ Worth(s, 0) = g[1 .. 0]
    BY <1>1, WorthIsSum
<1>3. g[{}] = 0
    BY <1>2 DEF Summed, Sums
<1> QED  BY <1>1, <1>2, <1>3

-----------------------------------------------------------------------------
\* The first n of the k characters read are digits, and the next is not.
Read(s, k, n, acc) ==
    /\ \A j \in 1 .. n : s[j] \in 0 .. 9
    /\ n < k => acc = [end |-> TRUE, val |-> Worth(s, n) % INT_MOD] /\ s[n + 1] \notin 0 .. 9
    /\ n = k => acc = [end |-> FALSE, val |-> Worth(s, n) % INT_MOD]

\* One character is read as a digit, or it ends the number.
LEMMA ReadOneIs ==
    ASSUME NEW v, NEW d
    PROVE  /\ ReadOne([end |-> TRUE, val |-> v], d) = [end |-> TRUE, val |-> v]
           /\ d \notin 0 .. 9 => ReadOne([end |-> FALSE, val |-> v], d) = [end |-> TRUE, val |-> v]
           /\ d \in 0 .. 9 => ReadOne([end |-> FALSE, val |-> v], d)
                                = [end |-> FALSE, val |-> (10 * v + d) % INT_MOD]
<1>1. ReadOne([end |-> TRUE, val |-> v], d) = [end |-> TRUE, val |-> v]
    BY DEF ReadOne
<1>2. ASSUME d \notin 0 .. 9
      PROVE  ReadOne([end |-> FALSE, val |-> v], d) = [end |-> TRUE, val |-> v]
    BY <1>2 DEF ReadOne
<1>3. ASSUME d \in 0 .. 9
      PROVE  ReadOne([end |-> FALSE, val |-> v], d) = [end |-> FALSE, val |-> (10 * v + d) % INT_MOD]
    BY <1>3 DEF ReadOne
<1> QED  BY <1>1, <1>2, <1>3

\* my_atol (lib.c) reads the number that its first characters write.
LEMMA AtolReads ==
    ASSUME NEW s \in Seq(Int)
    PROVE  my_atol(s) = Written(s) % INT_MOD
<1> DEFINE m == Min({Len(s), ATOL_DIGITS})
<1>1. m \in Nat /\ m <= Len(s) /\ m <= ATOL_DIGITS /\ ATOL_DIGITS \in Nat /\ Len(s) \in Nat
  <2> DEFINE S == {Len(s), ATOL_DIGITS}
  <2>1. S \in SUBSET Nat /\ S # {} /\ Len(s) \in S /\ ATOL_DIGITS \in S
      BY NumbersAssumption
  <2> HIDE DEF S
  <2>2. Min(S) \in S /\ Min(S) <= Len(s) /\ Min(S) <= ATOL_DIGITS
      BY <2>1, MinOfNat
  <2>3. m = Min(S)
      BY DEF S
  <2> HIDE DEF m
  <2> QED  BY <2>1, <2>2, <2>3, NumbersAssumption
<1>2. INT_MOD \in Nat \ {0}
    BY NumbersAssumption
<1>3. Written(s) = Worth(s, Max({n \in 0 .. m : \A k \in 1 .. n : s[k] \in 0 .. 9}))
    BY Zenon DEF Written, Worth
<1>4. PICK g : /\ my_atol(s) = g[1 .. m].val
               /\ g[1 .. 0] = Acc0
               /\ \A k \in 0 .. m - 1 : g[1 .. k + 1] = ReadOne(g[1 .. k], s[k + 1])
    BY <1>1, AtolTurns
<1> HIDE DEF m
<1> DEFINE T == {k \in Nat : k <= m => \E n \in 0 .. k : Read(s, k, n, g[1 .. k])}
<1>5. 0 \in T
  <2>1. 0 % INT_MOD = 0
      BY <1>2
  <2>2. Read(s, 0, 0, Acc0)
    <3>1. Acc0 = [end |-> FALSE, val |-> Worth(s, 0) % INT_MOD]
        BY <2>1, WorthNothing DEF Acc0
    <3>2. ~(0 < 0) /\ 1 .. 0 = {}
        OBVIOUS
    <3> QED  BY <3>1, <3>2 DEF Read
  <2>3. 0 \in 0 .. 0
      OBVIOUS
  <2> QED  BY <1>4, <2>2, <2>3
<1>6. ASSUME NEW k \in T PROVE k + 1 \in T
  <2> SUFFICES ASSUME k + 1 <= m PROVE \E n \in 0 .. k + 1 : Read(s, k + 1, n, g[1 .. k + 1])
      OBVIOUS
  <2>1. k \in 0 .. m - 1 /\ k \in Nat
      BY <1>1
  <2>2. PICK n \in 0 .. k : Read(s, k, n, g[1 .. k])
      BY <1>1, <2>1
  <2>3. g[1 .. k + 1] = ReadOne(g[1 .. k], s[k + 1])
      BY <1>4, <2>1
  <2>4. /\ n < k => g[1 .. k] = [end |-> TRUE, val |-> Worth(s, n) % INT_MOD]
        /\ n = k => g[1 .. k] = [end |-> FALSE, val |-> Worth(s, n) % INT_MOD]
      BY <2>2 DEF Read
  <2>5. CASE n < k \/ s[k + 1] \notin 0 .. 9
    <3>2. n < k + 1 /\ n \in 0 .. k + 1 /\ (n = k \/ n < k) /\ n # k + 1
        BY <2>1
    <3>1. g[1 .. k + 1] = [end |-> TRUE, val |-> Worth(s, n) % INT_MOD]
      <4>1. CASE n < k
          BY <2>3, <2>4, <4>1, ReadOneIs
      <4>2. CASE n = k
        <5>1. s[k + 1] \notin 0 .. 9
            BY <2>1, <2>5, <4>2
        <5> QED  BY <2>3, <2>4, <4>2, <5>1, ReadOneIs
      <4> QED  BY <3>2, <4>1, <4>2
    <3>3. Read(s, k + 1, n, g[1 .. k + 1])
        BY <2>2, <2>5, <3>1, <3>2 DEF Read
    <3> QED  BY <3>2, <3>3
  <2>6. CASE ~(n < k) /\ s[k + 1] \in 0 .. 9
    <3>1. n = k /\ k + 1 \in 0 .. k + 1
        BY <2>1, <2>6
    <3>2. \A j \in 1 .. k + 1 : s[j] \in 0 .. 9
      <4>1. \A j \in 1 .. k + 1 : j \in 1 .. k \/ j = k + 1
          BY <2>1
      <4> QED  BY <2>2, <2>6, <3>1, <4>1 DEF Read
    <3>3. Worth(s, k) \in Int /\ Worth(s, k + 1) = 10 * Worth(s, k) + s[k + 1]
      <4>1. k + 1 <= ATOL_DIGITS /\ \A j \in 1 .. k + 1 : s[j] \in Int
          BY <1>1, <2>1, <3>2
      <4> QED  BY <2>1, <4>1, WorthStep
    <3>4. g[1 .. k + 1] = [end |-> FALSE, val |-> (10 * (Worth(s, k) % INT_MOD) + s[k + 1]) % INT_MOD]
      <4> DEFINE v == Worth(s, k) % INT_MOD
                 d == s[k + 1]
      <4>1. g[1 .. k] = [end |-> FALSE, val |-> v]
          BY <2>4, <3>1
      <4>2. d \in 0 .. 9
          BY <2>6
      <4>3. g[1 .. k + 1] = ReadOne([end |-> FALSE, val |-> v], d)
          BY <2>3, <4>1
      <4> HIDE DEF v, d
      <4>4. ReadOne([end |-> FALSE, val |-> v], d) = [end |-> FALSE, val |-> (10 * v + d) % INT_MOD]
          BY <4>2, ReadOneIs
      <4>5. g[1 .. k + 1] = [end |-> FALSE, val |-> (10 * v + d) % INT_MOD]
          BY <4>3, <4>4
      <4> QED  BY <4>5 DEF v, d
    <3>5. (10 * (Worth(s, k) % INT_MOD) + s[k + 1]) % INT_MOD = Worth(s, k + 1) % INT_MOD
      <4>1. s[k + 1] \in Int
          BY <2>6
      <4> QED  BY <1>2, <3>3, <4>1, DigitModulo
    <3>6. ~(k + 1 < k + 1)
        BY <2>1
    <3>7. Read(s, k + 1, k + 1, g[1 .. k + 1])
        BY <3>2, <3>4, <3>5, <3>6 DEF Read
    <3> QED  BY <3>1, <3>7
  <2> QED  BY <2>5, <2>6
<1>7. T = Nat
  <2> HIDE DEF T
  <2> QED  BY <1>5, <1>6, NatSetInd DEF T
<1>8. PICK n \in 0 .. m : Read(s, m, n, g[1 .. m])
  <2>1. m \in T /\ m <= m
      BY <1>1, <1>7
  <2> QED  BY <2>1
<1>9. Max({j \in 0 .. m : \A k \in 1 .. j : s[k] \in 0 .. 9}) = n
  <2> DEFINE Lengths == {j \in 0 .. m : \A k \in 1 .. j : s[k] \in 0 .. 9}
  <2>1. Lengths \in SUBSET Int /\ n \in Lengths
      BY <1>8 DEF Read
  <2>2. ASSUME NEW j \in Lengths PROVE j <= n
    <3>1. SUFFICES ASSUME n < j PROVE FALSE
        BY <1>1
    <3>2. n < m /\ n + 1 \in 1 .. j
        BY <1>1, <3>1
    <3> QED  BY <1>8, <3>2 DEF Read
  <2> HIDE DEF Lengths
  <2>3. Max(Lengths) = n
      BY <2>1, <2>2, MaxIs
  <2> QED  BY <2>3 DEF Lengths
<1>10. my_atol(s) = Worth(s, n) % INT_MOD
  <2>1. g[1 .. m].val = Worth(s, n) % INT_MOD
    <3>1. n < m \/ n = m
        BY <1>1
    <3>2. g[1 .. m] = [end |-> TRUE, val |-> Worth(s, n) % INT_MOD]
          \/ g[1 .. m] = [end |-> FALSE, val |-> Worth(s, n) % INT_MOD]
        BY <1>8, <3>1 DEF Read
    <3> QED  BY <3>2
  <2> QED  BY <1>4, <2>1
<1> QED  BY <1>3, <1>9, <1>10

(* The zone that a search decides on is the number written in the buffer's *)
(* fourth cell (my_atol, lib.c), modulo the size of an int, of which no    *)
(* more than ATOL_DIGITS digits count.                                     *)
THEOREM ZoneNumbers == Spec => []ZoneNumberAsWritten
<1>1. TypeOK => ZoneNumberAsWritten
  <2> SUFFICES ASSUME TypeOK PROVE my_atol(envbuf[4].digits) = Written(envbuf[4].digits) % INT_MOD
      BY DEF ZoneNumberAsWritten
  <2>1. envbuf[4] \in {Blank} \cup [text : STRING, digits : Seq(Int)]
      BY BufferAssumption DEF TypeOK
  <2>2. envbuf[4].digits \in Seq(Int)
    <3>1. CASE envbuf[4] = Blank
        BY <3>1 DEF Blank
    <3>2. CASE envbuf[4] \in [text : STRING, digits : Seq(Int)]
        BY <3>2
    <3> QED  BY <2>1, <3>1, <3>2
  <2> QED  BY <2>2, AtolReads
<1> QED  BY <1>1, TypeCorrect, PTL
=============================================================================
