--------------------------- MODULE ProgressProofs ---------------------------
(***************************************************************************)
(* Proofs about MCProgress: the types of the repair, the rescue and the    *)
(* migration, and the bound on the scans of a rescue, for any number of    *)
(* attempts and of mishaps. They begin with the rescue (Rescue!).          *)
(***************************************************************************)
EXTENDS MCProgress, FiniteSetTheorems, TLAPS

RunType == [pc : {"idle", "history", "scan", "prune", "save"}, dry : BOOLEAN,
            tries : 0 .. MAX, active : BOOLEAN, listed : BOOLEAN]

\* A run that is not under way is a run.
LEMMA IdleType == Rescue!RescueAssumption => Rescue!Idle \in RunType /\ 0 \in 0 .. MAX
  BY DEF Rescue!RescueAssumption, Rescue!Idle, RunType

\* Nothing was scanned, and the whole budget is left.
LEMMA RescueInitInv ==
  ASSUME Rescue!RescueAssumption, Rescue!Init
  PROVE  Rescue!Inv
  <1>1. Rescue!Bound \in Nat
    BY DEF Rescue!RescueAssumption, Rescue!Bound
  <1>2. run \in [Rescue!Runs -> RunType] /\ \A w \in Rescue!Runs : run[w] = Rescue!Idle
    BY IdleType DEF Rescue!Init
  <1>3. scans \in 0 .. Rescue!Bound + 1
    BY <1>1 DEF Rescue!Init
  <1>4. /\ download \in Rescue!Labelled \union {"lane"}
        /\ attempts \in 0 .. MAX /\ mishaps \in 0 .. Mishaps
        /\ saved \in [attempts : 0 .. MAX, gaveUp : BOOLEAN]
    BY DEF Rescue!RescueAssumption, Rescue!Init, Rescue!Labelled
  <1>5. Rescue!TypeOK
    BY <1>2, <1>3, <1>4 DEF Rescue!Init, Rescue!TypeOK, RunType
  <1>6. Rescue!TypeOK /\ Rescue!TriesSound
    BY <1>5, <1>2 DEF Rescue!RescueAssumption, Rescue!Init, Rescue!TriesSound, Rescue!Idle
  <1>7. Rescue!ScansLeft = MAX /\ MAX * (1 + mishaps) = MAX
    BY DEF Rescue!RescueAssumption, Rescue!Init, Rescue!ScansLeft, Rescue!ByTimer,
       Rescue!ByHand, Rescue!Forgets, Rescue!Runs, Rescue!Idle
  <1>8. Rescue!Budget
    BY <1>7 DEF Rescue!RescueAssumption, Rescue!Init, Rescue!Budget
  <1> QED
    BY <1>6, <1>8 DEF Rescue!Inv

\* A mishap allows one more round of scans.
LEMMA OneMoreRound ==
  ASSUME Rescue!RescueAssumption, Rescue!TypeOK
  PROVE  /\ MAX * (1 + mishaps) \in Nat
         /\ \A m : m = mishaps + 1 => MAX * (1 + m) = MAX * (1 + mishaps) + MAX
  BY DEF Rescue!RescueAssumption, Rescue!TypeOK

\* The two runs, each with its type.
LEMMA RunTypes ==
  ASSUME Rescue!TypeOK
  PROVE  /\ run["timer"] \in RunType /\ run["hand"] \in RunType
         /\ DOMAIN run = {"timer", "hand"} /\ Rescue!Runs = {"timer", "hand"}
  BY DEF Rescue!TypeOK, Rescue!Runs, RunType

\* What is left of the scans is a number, so that steps can be compared.
LEMMA ScansLeftType ==
  Rescue!RescueAssumption /\ Rescue!TypeOK => /\ Rescue!ScansLeft \in Nat /\ scans \in Nat
                                /\ Rescue!ByTimer \in Nat /\ Rescue!ByHand \in {0, MAX}
  <1> SUFFICES ASSUME Rescue!RescueAssumption, Rescue!TypeOK
               PROVE  /\ Rescue!ScansLeft \in Nat /\ Rescue!ByTimer \in Nat
                      /\ Rescue!ByHand \in {0, MAX} /\ scans \in Nat
    OBVIOUS
  <1>1. Rescue!ByTimer \in Nat /\ Rescue!ByHand \in {0, MAX}
    BY RunTypes DEF Rescue!RescueAssumption, Rescue!TypeOK, Rescue!ByTimer, Rescue!ByHand,
       RunType
  <1>2. Rescue!ScansLeft \in Nat
    BY <1>1 DEF Rescue!RescueAssumption, Rescue!TypeOK, Rescue!ScansLeft, Rescue!UnderWay
  <1> QED
    BY <1>1, <1>2 DEF Rescue!TypeOK

\* The scans that are left after a step are a number.
LEMMA LeftThen == Rescue!RescueAssumption /\ Rescue!TypeOK' => Rescue!ScansLeft' \in Nat
  <1>1. (Rescue!RescueAssumption /\ Rescue!TypeOK => /\ Rescue!ScansLeft \in Nat /\ scans \in Nat
                                      /\ Rescue!ByTimer \in Nat /\ Rescue!ByHand \in {0, MAX})'
    BY ScansLeftType, PTL
  <1> QED
    BY <1>1

\* A step keeps the budget when it takes the scan that it fires from what was
\* left, or when it is a mishap and leaves a round more than it found at most.
LEMMA BudgetStep ==
  ASSUME Rescue!RescueAssumption, Rescue!Inv, Rescue!TypeOK', Rescue!TriesSound',
         NEW fired \in {0, 1}, scans' = scans + fired,
         NEW left \in Nat, Rescue!ScansLeft' = left,
         \/ mishaps' = mishaps /\ fired + left <= Rescue!ScansLeft
         \/ mishaps' = mishaps + 1 /\ fired + left <= Rescue!ScansLeft + MAX
  PROVE  Rescue!Inv'
  <1> DEFINE Allowed == MAX * (1 + mishaps)
             AllowedThen == MAX * (1 + mishaps')
  <1>1. PICK before \in Nat : before = Rescue!ScansLeft
    BY ScansLeftType DEF Rescue!Inv
  <1>2. scans + before <= Allowed /\ Allowed \in Nat /\ scans \in Nat
    BY <1>1, OneMoreRound, ScansLeftType DEF Rescue!Inv, Rescue!Budget
  <1>3. \/ AllowedThen = Allowed /\ fired + left <= before
        \/ AllowedThen = Allowed + MAX /\ fired + left <= before + MAX
    BY <1>1, OneMoreRound DEF Rescue!Inv
  <1> HIDE DEF Allowed, AllowedThen
  <1>4. scans + fired + left <= AllowedThen
    BY <1>2, <1>3 DEF Rescue!RescueAssumption
  <1>5. Rescue!Budget'
    BY <1>4 DEF AllowedThen, Rescue!Budget
  <1> QED
    BY <1>5 DEF Rescue!Inv

\* What the *arr and the poller do touches no count and no run.
LEMMA ArrInv ==
  ASSUME Rescue!RescueAssumption, Rescue!Inv,
         \/ Rescue!ArrStep \/ Rescue!Poll \/ Rescue!ManualImport \/ Rescue!Notify \/ Rescue!NextDay
  PROVE  Rescue!Inv'
  <1>1. Rescue!TypeOK'
    BY DEF Rescue!RescueAssumption, Rescue!Inv, Rescue!TypeOK, Rescue!Runs, Rescue!Mishap,
       Rescue!Goes, Rescue!Idle, Rescue!Labelled, Rescue!Finish, Rescue!Command, Rescue!ArrStep,
       Rescue!Poll, Rescue!ManualImport, Rescue!Notify, Rescue!NextDay
  <1>2. Rescue!TriesSound'
    BY DEF Rescue!RescueAssumption, Rescue!Inv, Rescue!TypeOK, Rescue!TriesSound, Rescue!Runs,
       Rescue!Mishap, Rescue!Goes, Rescue!Idle, Rescue!Labelled, Rescue!Finish, Rescue!Command,
       Rescue!ArrStep, Rescue!Poll, Rescue!ManualImport, Rescue!Notify, Rescue!NextDay
  <1>3. scans' = scans + 0 /\ mishaps' = mishaps
    BY ScansLeftType DEF Rescue!Inv, Rescue!Mishap, Rescue!Finish, Rescue!Command,
       Rescue!ArrStep, Rescue!Poll, Rescue!ManualImport, Rescue!Notify, Rescue!NextDay
  <1>4. PICK left \in Nat : Rescue!ScansLeft' = left
    BY <1>1, LeftThen
  <1>5. left <= Rescue!ScansLeft
    BY <1>4, RunTypes DEF Rescue!Inv, Rescue!TypeOK, Rescue!TriesSound, Rescue!Goes,
       Rescue!Idle, Rescue!Labelled, Rescue!ScansLeft, Rescue!ByTimer, Rescue!ByHand,
       Rescue!UnderWay, Rescue!Forgets, RunType, Rescue!RescueAssumption, Rescue!Finish,
       Rescue!Command, Rescue!ArrStep, Rescue!Poll, Rescue!ManualImport, Rescue!Notify,
       Rescue!NextDay
  <1> QED
    BY <1>1, <1>2, <1>3, <1>4, <1>5, ScansLeftType, BudgetStep DEF Rescue!Inv

\* The lookup that finds no import.
LEMMA HistoryStep ==
  ASSUME Rescue!RescueAssumption, Rescue!Inv, NEW w \in Rescue!Runs, Rescue!History(w)
  PROVE  Rescue!Inv'
  <1>1. Rescue!TypeOK'
    BY DEF Rescue!RescueAssumption, Rescue!Inv, Rescue!TypeOK, Rescue!Runs, Rescue!Mishap,
       Rescue!Goes, Rescue!Idle, Rescue!Labelled, Rescue!History
  <1>2. Rescue!TriesSound'
    BY DEF Rescue!RescueAssumption, Rescue!Inv, Rescue!TypeOK, Rescue!TriesSound, Rescue!Runs,
       Rescue!Mishap, Rescue!Goes, Rescue!Idle, Rescue!Labelled, Rescue!History
  <1>3. scans' = scans + 0 /\ mishaps' = mishaps
    BY ScansLeftType DEF Rescue!Inv, Rescue!Mishap, Rescue!History
  <1>4. PICK left \in Nat : Rescue!ScansLeft' = left
    BY <1>1, LeftThen
  <1>5. left <= Rescue!ScansLeft
    BY <1>4, RunTypes DEF Rescue!Inv, Rescue!TypeOK, Rescue!TriesSound, Rescue!Goes,
       Rescue!Idle, Rescue!Labelled, Rescue!ScansLeft, Rescue!ByTimer, Rescue!ByHand,
       Rescue!UnderWay, Rescue!Forgets, RunType, Rescue!RescueAssumption, Rescue!History
  <1> QED
    BY <1>1, <1>2, <1>3, <1>4, <1>5, ScansLeftType, BudgetStep DEF Rescue!Inv

\* The lookup that finds the import.
LEMMA ImportedStep ==
  ASSUME Rescue!RescueAssumption, Rescue!Inv, NEW w \in Rescue!Runs, Rescue!Imported(w)
  PROVE  Rescue!Inv'
  <1>0. attempts' \in 0 .. MAX
    BY DEF Rescue!RescueAssumption, Rescue!Inv, Rescue!TypeOK, Rescue!Runs, Rescue!Mishap,
       Rescue!Goes, Rescue!Idle, Rescue!Labelled, Rescue!Imported
  <1>1. Rescue!TypeOK'
    BY <1>0 DEF Rescue!Inv, Rescue!TypeOK, Rescue!Runs, Rescue!Mishap, Rescue!Goes,
       Rescue!Idle, Rescue!Labelled, Rescue!Imported
  <1>2. Rescue!TriesSound'
    BY DEF Rescue!RescueAssumption, Rescue!Inv, Rescue!TypeOK, Rescue!TriesSound, Rescue!Runs,
       Rescue!Mishap, Rescue!Goes, Rescue!Idle, Rescue!Labelled, Rescue!Imported
  <1>3. scans' = scans + 0 /\ mishaps' = mishaps
    BY ScansLeftType DEF Rescue!Inv, Rescue!Mishap, Rescue!Imported
  <1>4. PICK left \in Nat : Rescue!ScansLeft' = left
    BY <1>1, LeftThen
  <1>5. left <= Rescue!ScansLeft
    BY <1>4, RunTypes DEF Rescue!Inv, Rescue!TypeOK, Rescue!TriesSound, Rescue!Goes,
       Rescue!Idle, Rescue!Labelled, Rescue!ScansLeft, Rescue!ByTimer, Rescue!ByHand,
       Rescue!UnderWay, Rescue!Forgets, RunType, Rescue!RescueAssumption, Rescue!Imported
  <1> QED
    BY <1>1, <1>2, <1>3, <1>4, <1>5, ScansLeftType, BudgetStep DEF Rescue!Inv

\* A lookup or a scan that fails.
LEMMA FailStep ==
  ASSUME Rescue!RescueAssumption, Rescue!Inv, NEW w \in Rescue!Runs,
         Rescue!HistoryFails(w) \/ Rescue!ScanFails(w)
  PROVE  Rescue!Inv'
  <1>1. Rescue!TypeOK'
    BY DEF Rescue!RescueAssumption, Rescue!Inv, Rescue!TypeOK, Rescue!Runs, Rescue!Mishap,
       Rescue!Goes, Rescue!Idle, Rescue!Labelled, Rescue!HistoryFails, Rescue!ScanFails
  <1>2. Rescue!TriesSound'
    BY DEF Rescue!RescueAssumption, Rescue!Inv, Rescue!TypeOK, Rescue!TriesSound, Rescue!Runs,
       Rescue!Mishap, Rescue!Goes, Rescue!Idle, Rescue!Labelled, Rescue!HistoryFails,
       Rescue!ScanFails
  <1>3. scans' = scans + 0 /\ mishaps' = mishaps + 1
    BY ScansLeftType DEF Rescue!Inv, Rescue!Mishap, Rescue!HistoryFails, Rescue!ScanFails
  <1>4. PICK left \in Nat : Rescue!ScansLeft' = left
    BY <1>1, LeftThen
  <1>5. left <= Rescue!ScansLeft + MAX
    BY <1>4, RunTypes DEF Rescue!Inv, Rescue!TypeOK, Rescue!TriesSound, Rescue!Goes,
       Rescue!Idle, Rescue!Labelled, Rescue!ScansLeft, Rescue!ByTimer, Rescue!ByHand,
       Rescue!UnderWay, Rescue!Forgets, RunType, Rescue!RescueAssumption, Rescue!HistoryFails,
       Rescue!ScanFails
  <1> QED
    BY <1>1, <1>2, <1>3, <1>4, <1>5, ScansLeftType, BudgetStep DEF Rescue!Inv

\* The end of a pass.
LEMMA PruneStep ==
  ASSUME Rescue!RescueAssumption, Rescue!Inv, NEW w \in Rescue!Runs,
         Rescue!Prune(w) \/ Rescue!Save(w)
  PROVE  Rescue!Inv'
  <1>0. attempts' \in 0 .. MAX
    BY DEF Rescue!RescueAssumption, Rescue!Inv, Rescue!TypeOK, Rescue!Runs, Rescue!Mishap,
       Rescue!Goes, Rescue!Idle, Rescue!Labelled, Rescue!Prune, Rescue!Save
  <1>1. Rescue!TypeOK'
    <2>1. CASE Rescue!Prune(w)
      <3>1. run' \in [Rescue!Runs -> RunType]
        BY <2>1, IdleType DEF Rescue!Inv, Rescue!TypeOK, RunType, Rescue!Runs, Rescue!Mishap,
           Rescue!Goes, Rescue!Prune
      <3>2. saved' \in [attempts : 0 .. MAX, gaveUp : BOOLEAN] /\ gaveUp' \in BOOLEAN
            /\ mishaps' \in 0 .. Mishaps
        BY <2>1, IdleType DEF Rescue!Inv, Rescue!TypeOK, RunType, Rescue!Runs, Rescue!Mishap,
           Rescue!Goes, Rescue!Prune, Rescue!RescueAssumption
      <3> QED
        BY <1>0, <2>1, <3>1, <3>2 DEF Rescue!Inv, Rescue!TypeOK, RunType, Rescue!Prune
    <2>2. CASE Rescue!Save(w)
      <3>1. run' \in [Rescue!Runs -> RunType]
        BY <2>2, IdleType DEF Rescue!Inv, Rescue!TypeOK, RunType, Rescue!Runs, Rescue!Mishap,
           Rescue!Goes, Rescue!Save
      <3>2. saved' \in [attempts : 0 .. MAX, gaveUp : BOOLEAN] /\ gaveUp' \in BOOLEAN
            /\ mishaps' \in 0 .. Mishaps
        BY <2>2, IdleType DEF Rescue!Inv, Rescue!TypeOK, RunType, Rescue!Runs, Rescue!Mishap,
           Rescue!Goes, Rescue!Save, Rescue!RescueAssumption
      <3> QED
        BY <1>0, <2>2, <3>1, <3>2 DEF Rescue!Inv, Rescue!TypeOK, RunType, Rescue!Save
    <2> QED
      BY <2>1, <2>2
  <1>2. Rescue!TriesSound'
    BY DEF Rescue!RescueAssumption, Rescue!Inv, Rescue!TypeOK, Rescue!TriesSound, Rescue!Runs,
       Rescue!Mishap, Rescue!Goes, Rescue!Idle, Rescue!Labelled, Rescue!Prune, Rescue!Save
  <1>3. scans' = scans + 0 /\ mishaps' = mishaps
    BY ScansLeftType DEF Rescue!Inv, Rescue!Mishap, Rescue!Prune, Rescue!Save
  <1>4. PICK left \in Nat : Rescue!ScansLeft' = left
    BY <1>1, LeftThen
  <1>5. left <= Rescue!ScansLeft
    BY <1>4, RunTypes DEF Rescue!Inv, Rescue!TypeOK, Rescue!TriesSound, Rescue!Goes,
       Rescue!Idle, Rescue!Labelled, Rescue!ScansLeft, Rescue!ByTimer, Rescue!ByHand,
       Rescue!UnderWay, Rescue!Forgets, RunType, Rescue!RescueAssumption, Rescue!Prune,
       Rescue!Save
  <1> QED
    BY <1>1, <1>2, <1>3, <1>4, <1>5, ScansLeftType, BudgetStep DEF Rescue!Inv

\* The reset and the restart.
LEMMA ResetStep ==
  ASSUME Rescue!RescueAssumption, Rescue!Inv, Rescue!Reset \/ Rescue!Restart
  PROVE  Rescue!Inv'
  <1>0. attempts' \in 0 .. MAX
    BY DEF Rescue!RescueAssumption, Rescue!Inv, Rescue!TypeOK, Rescue!Runs, Rescue!Mishap,
       Rescue!Goes, Rescue!Idle, Rescue!Labelled, Rescue!Reset, Rescue!Restart
  <1>1. Rescue!TypeOK'
    <2>1. CASE Rescue!Reset
      <3>1. run' \in [Rescue!Runs -> RunType]
        BY <2>1, IdleType DEF Rescue!Inv, Rescue!TypeOK, RunType, Rescue!Runs, Rescue!Mishap,
           Rescue!Goes, Rescue!Reset
      <3>2. saved' \in [attempts : 0 .. MAX, gaveUp : BOOLEAN]
        BY <2>1, IdleType DEF Rescue!Reset
      <3>3. mishaps' = mishaps + 1 /\ mishaps < Mishaps
        BY <2>1 DEF Rescue!Mishap, Rescue!Reset
      <3>4. gaveUp' \in BOOLEAN /\ mishaps' \in 0 .. Mishaps
        <4>1. gaveUp' \in BOOLEAN
          BY <2>1 DEF Rescue!Reset
        <4>2. mishaps' \in 0 .. Mishaps
          BY <3>3 DEF Rescue!Inv, Rescue!TypeOK, Rescue!RescueAssumption
        <4> QED
          BY <4>1, <4>2
      <3> QED
        BY <1>0, <2>1, <3>1, <3>2, <3>4 DEF Rescue!Inv, Rescue!TypeOK, RunType, Rescue!Reset
    <2>2. CASE Rescue!Restart
      <3>1. run' \in [Rescue!Runs -> RunType]
        BY <2>2, IdleType DEF Rescue!Inv, Rescue!TypeOK, RunType, Rescue!Runs, Rescue!Mishap,
           Rescue!Goes, Rescue!Restart
      <3>2. saved' \in [attempts : 0 .. MAX, gaveUp : BOOLEAN] /\ gaveUp' \in BOOLEAN
            /\ mishaps' \in 0 .. Mishaps
        BY <2>2, IdleType DEF Rescue!Inv, Rescue!TypeOK, RunType, Rescue!Runs, Rescue!Mishap,
           Rescue!Goes, Rescue!Restart, Rescue!RescueAssumption
      <3> QED
        BY <1>0, <2>2, <3>1, <3>2 DEF Rescue!Inv, Rescue!TypeOK, RunType, Rescue!Restart
    <2> QED
      BY <2>1, <2>2
  <1>2. Rescue!TriesSound'
    BY DEF Rescue!RescueAssumption, Rescue!Inv, Rescue!TypeOK, Rescue!TriesSound, Rescue!Runs,
       Rescue!Mishap, Rescue!Goes, Rescue!Idle, Rescue!Labelled, Rescue!Reset, Rescue!Restart
  <1>3. scans' = scans + 0 /\ mishaps' = mishaps + 1
    BY ScansLeftType DEF Rescue!Inv, Rescue!Mishap, Rescue!Reset, Rescue!Restart
  <1>4. PICK left \in Nat : Rescue!ScansLeft' = left
    BY <1>1, LeftThen
  <1>5. left <= Rescue!ScansLeft + MAX
    BY <1>4, RunTypes DEF Rescue!Inv, Rescue!TypeOK, Rescue!TriesSound, Rescue!Goes,
       Rescue!Idle, Rescue!Labelled, Rescue!ScansLeft, Rescue!ByTimer, Rescue!ByHand,
       Rescue!UnderWay, Rescue!Forgets, RunType, Rescue!RescueAssumption, Rescue!Reset,
       Rescue!Restart
  <1> QED
    BY <1>1, <1>2, <1>3, <1>4, <1>5, ScansLeftType, BudgetStep DEF Rescue!Inv

\* The start of a pass: the timer's adds nothing, a run by hand is a mishap.
LEMMA StartStep ==
  ASSUME Rescue!RescueAssumption, Rescue!Inv, NEW w \in Rescue!Runs, Rescue!Start(w)
  PROVE  Rescue!Inv'
  <1>0. PICK dry \in BOOLEAN :
          run' = [run EXCEPT ![w] =
            [pc |-> IF download \in {"waiting", "blocked", "imported"} THEN "history" ELSE "prune",
             dry |-> dry, tries |-> 0, active |-> FALSE, listed |-> download \in Rescue!Labelled]]
    BY DEF Rescue!Start, Rescue!Idle
  <1>1. Rescue!TypeOK'
    <2>1. run' \in [Rescue!Runs -> RunType]
      BY <1>0, IdleType DEF Rescue!Inv, Rescue!TypeOK, RunType
    <2>2. mishaps' \in 0 .. Mishaps
      BY DEF Rescue!Inv, Rescue!TypeOK, Rescue!Start, Rescue!Mishap, Rescue!RescueAssumption
    <2> QED
      BY <2>1, <2>2 DEF Rescue!Inv, Rescue!TypeOK, RunType, Rescue!Start
  <1>2. Rescue!TriesSound'
    BY <1>0 DEF Rescue!RescueAssumption, Rescue!Inv, Rescue!TypeOK, Rescue!TriesSound,
       Rescue!Start
  <1>3. /\ scans' = scans + 0
        /\ w = "timer" => mishaps' = mishaps
        /\ w = "hand" => mishaps' = mishaps + 1
    BY ScansLeftType DEF Rescue!Inv, Rescue!Start, Rescue!Mishap, Rescue!Runs
  <1>4. PICK left \in Nat : Rescue!ScansLeft' = left
    BY <1>1, LeftThen
  <1>5. CASE w = "timer"
    <2>1. left <= Rescue!ScansLeft
      BY <1>0, <1>4, <1>5, RunTypes DEF Rescue!Inv, Rescue!TypeOK, Rescue!TriesSound,
         Rescue!Labelled, Rescue!ScansLeft, Rescue!ByTimer, Rescue!ByHand, Rescue!UnderWay,
         Rescue!Forgets, RunType, Rescue!RescueAssumption, Rescue!Start
    <2> QED
      BY <1>1, <1>2, <1>3, <1>4, <1>5, <2>1, ScansLeftType, BudgetStep DEF Rescue!Inv
  <1>6. CASE w = "hand"
    <2>1. left <= Rescue!ScansLeft + MAX
      BY <1>0, <1>4, <1>6, RunTypes DEF Rescue!Inv, Rescue!TypeOK, Rescue!TriesSound,
         Rescue!Labelled, Rescue!ScansLeft, Rescue!ByTimer, Rescue!ByHand, Rescue!UnderWay,
         Rescue!Forgets, RunType, Rescue!RescueAssumption, Rescue!Start
    <2> QED
      BY <1>1, <1>2, <1>3, <1>4, <1>6, <2>1, ScansLeftType, BudgetStep DEF Rescue!Inv
  <1> QED
    BY <1>5, <1>6 DEF Rescue!Runs

\* A scan is counted by the number its run has read, or dropped beyond the
\* bound, where no scan is.
LEMMA ScanStep ==
  ASSUME Rescue!RescueAssumption, Rescue!Inv, NEW w \in Rescue!Runs, Rescue!Scan(w)
  PROVE  Rescue!Inv'
  <1>0. run[w] \in RunType /\ run[w].tries < MAX /\ run[w].active
    BY DEF Rescue!Inv, Rescue!TypeOK, Rescue!TriesSound, Rescue!Scan, RunType
  <1>1. Rescue!TypeOK'
    <2>1. run' \in [Rescue!Runs -> RunType]
      BY DEF Rescue!Inv, Rescue!TypeOK, RunType, Rescue!Scan, Rescue!Goes
    <2>2. attempts' \in 0 .. MAX
      BY <1>0 DEF Rescue!RescueAssumption, RunType, Rescue!Scan
    <2>3. scans' \in 0 .. Rescue!Bound + 1
      <3>1. Rescue!Bound \in Nat
        BY DEF Rescue!RescueAssumption, Rescue!Bound
      <3> QED
        BY <3>1 DEF Rescue!Inv, Rescue!TypeOK, Rescue!Scan
    <2> QED
      BY <2>1, <2>2, <2>3 DEF Rescue!Inv, Rescue!TypeOK, RunType, Rescue!Scan
  <1>2. Rescue!TriesSound'
    BY <1>0 DEF Rescue!RescueAssumption, Rescue!Inv, Rescue!TypeOK, Rescue!TriesSound,
       Rescue!Scan, Rescue!Goes, RunType
  <1>3. PICK fired \in {0, 1} : scans' = scans + fired
    BY ScansLeftType DEF Rescue!Inv, Rescue!Scan
  <1>4. PICK left \in Nat : Rescue!ScansLeft' = left
    BY <1>1, LeftThen
  <1>5. 1 + left <= Rescue!ScansLeft
    BY <1>0, <1>4, RunTypes DEF Rescue!Inv, Rescue!TypeOK, Rescue!TriesSound, Rescue!Goes,
       Rescue!ScansLeft, Rescue!ByTimer, Rescue!ByHand, Rescue!UnderWay, Rescue!Forgets, RunType,
       Rescue!RescueAssumption, Rescue!Scan
  <1>6. fired + left <= Rescue!ScansLeft /\ mishaps' = mishaps
    BY <1>5, ScansLeftType DEF Rescue!Inv, Rescue!Scan
  <1> QED
    BY <1>1, <1>2, <1>3, <1>4, <1>6, BudgetStep

\* An accepted scan without an answer: fired and not counted, it is a mishap.
LEMMA UnansweredStep ==
  ASSUME Rescue!RescueAssumption, Rescue!Inv, NEW w \in Rescue!Runs, Rescue!ScanUnanswered(w)
  PROVE  Rescue!Inv'
  <1>0. run[w] \in RunType /\ run[w].tries < MAX /\ run[w].active
    BY DEF Rescue!Inv, Rescue!TypeOK, Rescue!TriesSound, Rescue!ScanUnanswered, RunType
  <1>1. Rescue!TypeOK'
    <2>1. run' \in [Rescue!Runs -> RunType]
      BY DEF Rescue!Inv, Rescue!TypeOK, RunType, Rescue!ScanUnanswered, Rescue!Goes
    <2>2. mishaps' \in 0 .. Mishaps
      BY DEF Rescue!Inv, Rescue!TypeOK, Rescue!RescueAssumption, Rescue!ScanUnanswered,
         Rescue!Mishap
    <2>3. scans' \in 0 .. Rescue!Bound + 1
      <3>1. Rescue!Bound \in Nat
        BY DEF Rescue!RescueAssumption, Rescue!Bound
      <3> QED
        BY <3>1 DEF Rescue!Inv, Rescue!TypeOK, Rescue!ScanUnanswered
    <2> QED
      BY <2>1, <2>2, <2>3 DEF Rescue!Inv, Rescue!TypeOK, RunType, Rescue!ScanUnanswered
  <1>2. Rescue!TriesSound'
    BY <1>0 DEF Rescue!RescueAssumption, Rescue!Inv, Rescue!TypeOK, Rescue!TriesSound,
       Rescue!ScanUnanswered, Rescue!Goes, RunType
  <1>3. PICK fired \in {0, 1} : scans' = scans + fired
    BY ScansLeftType DEF Rescue!Inv, Rescue!ScanUnanswered
  <1>4. PICK left \in Nat : Rescue!ScansLeft' = left
    BY <1>1, LeftThen
  <1>5. left <= Rescue!ScansLeft
    BY <1>0, <1>4, RunTypes DEF Rescue!Inv, Rescue!TypeOK, Rescue!TriesSound, Rescue!Goes,
       Rescue!ScansLeft, Rescue!ByTimer, Rescue!ByHand, Rescue!UnderWay, Rescue!Forgets, RunType,
       Rescue!RescueAssumption, Rescue!ScanUnanswered
  <1>6. fired + left <= Rescue!ScansLeft + MAX /\ mishaps' = mishaps + 1
    BY <1>0, <1>5, ScansLeftType
       DEF Rescue!Inv, Rescue!ScanUnanswered, Rescue!Mishap, Rescue!RescueAssumption, RunType
  <1> QED
    BY <1>1, <1>2, <1>3, <1>4, <1>6, BudgetStep

\* Every step keeps the types, the counts and the budget.
LEMMA RescueStepInv ==
  ASSUME Rescue!RescueAssumption, Rescue!Inv, [Rescue!Next]_rescue
  PROVE  Rescue!Inv'
  <1>1. CASE UNCHANGED rescue
    <2>1. Rescue!TypeOK' /\ Rescue!TriesSound' /\ Rescue!ScansLeft' = Rescue!ScansLeft
      BY <1>1 DEF rescue, Rescue!Inv, Rescue!TypeOK, Rescue!TriesSound, Rescue!ScansLeft,
         Rescue!ByTimer, Rescue!ByHand, Rescue!Forgets, Rescue!UnderWay
    <2> QED
      BY <1>1, <2>1 DEF rescue, Rescue!Inv, Rescue!Budget
  <1> QED
    BY <1>1, ArrInv, HistoryStep, ImportedStep, FailStep, PruneStep, ResetStep, StartStep,
       ScanStep, UnansweredStep DEF Rescue!Next, Rescue!RunStep

\* What the service does is a step of the rescue's, or does not concern it.
LEMMA RescueMove == [Next]_vars => [Rescue!Next]_rescue
  BY DEF Next, vars, OnlyRepair, OnlyRescue, OnlyMigration

\* Types, counts and the budget of scans hold in every state.
THEOREM RescueInvariant == Spec => []Rescue!Inv
  <1>1. Init => Rescue!Inv
    BY ProgressAssumption, RescueInitInv DEF Init
  <1>2. Rescue!Inv /\ [Next]_vars => Rescue!Inv'
    BY ProgressAssumption, RescueStepInv, RescueMove
  <1> QED
    BY <1>1, <1>2, PTL DEF Spec

\* Runs may overlap, fail, be started by hand and be cut off by a restart:
\* the scans of a download stay within MAX for each such mishap, and MAX.
THEOREM ScansAreBounded == Spec => []RescueBounded
  <1>1. Rescue!Inv => RescueBounded
    BY ProgressAssumption, OneMoreRound, ScansLeftType
       DEF Rescue!Inv, Rescue!Budget, RescueBounded, Rescue!RescueBounded
  <1> QED
    BY <1>1, RescueInvariant, PTL

-----------------------------------------------------------------------------
\* The migration that is checked beside the rescue is one that the theorems
\* of SeasonMigrationProofs are about.
MigrationProofs == INSTANCE SeasonMigrationProofs WITH
  Workers <- {"w1"}, Batch <- 2, Faults <- {"copy", "timeout", "error"}

\* Its constants meet MigrationAssumption.
LEMMA MigrationFits == MigrationProofs!MigrationAssumption
  <1>1. /\ IsFiniteSet({}) /\ IsFiniteSet({} \union {1}) /\ IsFiniteSet({1} \union {2})
        /\ IsFiniteSet({1, 2} \union {3})
    BY FS_EmptySet, FS_AddElement
  <1>2. Packs = {1, 2} \union {3}
    BY DEF Packs
  <1>3. IsFiniteSet(Packs) => MigrationProofs!IsFiniteSet(Packs)
    BY DEF IsFiniteSet, MigrationProofs!IsFiniteSet
  <1> QED
    BY <1>1, <1>2, <1>3 DEF MigrationProofs!MigrationAssumption, Packs

\* It begins in its invariant.
LEMMA MigrationInit == Migration!Init => MigrationProofs!Inv
  BY MigrationFits, MigrationProofs!InitInv
     DEF MigrationProofs!InitInv, Migration!Init, MigrationProofs!Init

\* The module's actions under the two names are the same: those of its workers ...
LEMMA SameWork ==
  ASSUME NEW w \in {"w1"}
  PROVE  /\ Migration!Do(w) <=> MigrationProofs!Do(w)
         /\ Migration!CopyFails(w) <=> MigrationProofs!CopyFails(w)
         /\ Migration!RequestFails(w) <=> MigrationProofs!RequestFails(w)
  <1> USE DEF Migration!Pack, MigrationProofs!Pack, Migration!Goto, MigrationProofs!Goto,
      Migration!SetTor, MigrationProofs!SetTor, Migration!Disk, MigrationProofs!Disk,
      Migration!Control, MigrationProofs!Control
  <1>1. \A S, limit : Migration!FirstOf(S, limit) = MigrationProofs!FirstOf(S, limit)
    BY
       DEF Migration!FirstOf, MigrationProofs!FirstOf, Migration!Cardinality,
           MigrationProofs!Cardinality
  <1>2. /\ Migration!Fetch(w) <=> MigrationProofs!Fetch(w)
        /\ Migration!NextPack(w) <=> MigrationProofs!NextPack(w)
    BY <1>1
       DEF Migration!Fetch, MigrationProofs!Fetch, Migration!NextPack,
           MigrationProofs!NextPack, Migration!Candidates, MigrationProofs!Candidates,
           Migration!Pilot, MigrationProofs!Pilot
  <1>3. /\ Migration!Acquire(w) <=> MigrationProofs!Acquire(w)
        /\ Migration!NoPack(w) <=> MigrationProofs!NoPack(w)
        /\ Migration!ReadLimit(w) <=> MigrationProofs!ReadLimit(w)
        /\ Migration!End(w) <=> MigrationProofs!End(w)
        /\ Migration!Restore(w) <=> MigrationProofs!Restore(w)
    BY
       DEF Migration!Acquire, MigrationProofs!Acquire, Migration!NoPack,
           MigrationProofs!NoPack, Migration!ReadLimit, MigrationProofs!ReadLimit,
           Migration!End, MigrationProofs!End, Migration!Restore,
           MigrationProofs!Restore
  <1>4. /\ Migration!Wait(w) <=> MigrationProofs!Wait(w)
        /\ Migration!GiveUp(w) <=> MigrationProofs!GiveUp(w)
        /\ Migration!Cap(w) <=> MigrationProofs!Cap(w)
        /\ Migration!Copy(w) <=> MigrationProofs!Copy(w)
    BY
       DEF Migration!Wait, MigrationProofs!Wait, Migration!GiveUp,
           MigrationProofs!GiveUp, Migration!Cap, MigrationProofs!Cap, Migration!Copy,
           MigrationProofs!Copy
  <1>5. /\ Migration!CopyFails(w) <=> MigrationProofs!CopyFails(w)
        /\ Migration!RequestFails(w) <=> MigrationProofs!RequestFails(w)
    BY
       DEF Migration!CopyFails, MigrationProofs!CopyFails, Migration!RequestFails,
           MigrationProofs!RequestFails
  <1>6. /\ Migration!Compare(w) <=> MigrationProofs!Compare(w)
        /\ Migration!Verify(w) <=> MigrationProofs!Verify(w)
    BY
       DEF Migration!Compare, MigrationProofs!Compare, Migration!Verify,
           MigrationProofs!Verify, Migration!SameInodes, MigrationProofs!SameInodes
  <1>7. /\ Migration!Pause(w) <=> MigrationProofs!Pause(w)
        /\ Migration!Resume(w) <=> MigrationProofs!Resume(w)
    BY
       DEF Migration!Pause, MigrationProofs!Pause, Migration!Resume,
           MigrationProofs!Resume, Migration!Paused, MigrationProofs!Paused
  <1>8. /\ Migration!Move(w) <=> MigrationProofs!Move(w)
        /\ Migration!Poll(w) <=> MigrationProofs!Poll(w)
        /\ Migration!Recheck(w) <=> MigrationProofs!Recheck(w)
    BY
       DEF Migration!Move, MigrationProofs!Move, Migration!Poll, MigrationProofs!Poll,
           Migration!Recheck, MigrationProofs!Recheck
  <1> QED
    BY <1>2, <1>3, <1>4, <1>5, <1>6, <1>7, <1>8
       DEF Migration!Do, MigrationProofs!Do

\* ... and those of Deluge and the restart.
LEMMA SameWorld ==
  /\ Migration!Restart <=> MigrationProofs!Restart
  /\ \A h \in Packs : /\ Migration!MoveEnds(h) <=> MigrationProofs!MoveEnds(h)
                      /\ Migration!CheckEnds(h) <=> MigrationProofs!CheckEnds(h)
                      /\ Migration!Err(h) <=> MigrationProofs!Err(h)
    BY
       DEF Migration!Restart, MigrationProofs!Restart, Migration!MoveEnds,
           MigrationProofs!MoveEnds, Migration!CheckEnds, MigrationProofs!CheckEnds,
           Migration!Err, MigrationProofs!Err, Migration!Pack, MigrationProofs!Pack,
           Migration!SetTor, MigrationProofs!SetTor, Migration!Disk,
           MigrationProofs!Disk, Migration!Control, MigrationProofs!Control

\* Its steps keep it.
LEMMA MigrationStep == MigrationProofs!Inv /\ [Migration!Next]_migration => MigrationProofs!Inv'
  <1>1. [Migration!Next]_migration => [MigrationProofs!Next]_(MigrationProofs!vars)
    BY SameWork, SameWorld DEF Migration!Next, MigrationProofs!Next, migration,
       MigrationProofs!vars
  <1> QED
    BY <1>1, MigrationFits, MigrationProofs!StepInv

-----------------------------------------------------------------------------
\* The repair begins with no pass under way.
LEMMA RepairInit == Repair!Init => Repair!Inv
  <1> SUFFICES ASSUME Repair!Init PROVE Repair!Inv
    OBVIOUS
  <1>1. torrent \in Repair!Torrent
    BY DEF Repair!Init, Repair!Torrent, Repair!States
  <1>2. worker \in [Repair!Workers -> Repair!Passes]
    BY DEF Repair!Init, Repair!Passes, Repair!Snapshots, Repair!NoSnapshot, Repair!Idle,
       Repair!States
  <1>3. Repair!LibraryLeftAlone
    BY DEF Repair!Init, Repair!LibraryLeftAlone, Repair!Idle
  <1>4. /\ disk \in {"whole", "short", "missing", "elsewhere", "shelved"}
        /\ event \in {"none", "recent", "old", "replaced"}
    BY DEF Repair!Init
  <1>5. lock \in Repair!Workers \union {"free"} /\ failed \in SUBSET Repair!Mischances
    BY DEF Repair!Init
  <1> QED
    BY <1>1, <1>2, <1>3, <1>4, <1>5 DEF Repair!Init, Repair!Inv, Repair!TypeOK

\* What Deluge does, and an import that moves a file out of the torrent.
LEMMA RepairWorldStep ==
  ASSUME Repair!Inv,
         Repair!DelugeStep \/ Repair!MoveOut
  PROVE  Repair!Inv'
  <1> USE DEF Repair!Inv, Repair!TypeOK, Repair!Torrent, Repair!Passes, Repair!Snapshots,
     Repair!States
  <1>1. CASE Repair!DelugeStep
    <2>1. torrent' \in Repair!Torrent
      BY <1>1 DEF Repair!DelugeStep, Repair!FinishCheck, Repair!FinishMove, Repair!Download,
         Repair!FindFault
    <2>2. worker' \in [Repair!Workers -> Repair!Passes]
      BY <1>1 DEF Repair!DelugeStep, Repair!FinishCheck, Repair!FinishMove, Repair!Download,
         Repair!FindFault
    <2>3. torrent'.library = torrent.library /\ worker' = worker /\ rechecked' = rechecked
      BY <1>1 DEF Repair!DelugeStep, Repair!FinishCheck, Repair!FinishMove, Repair!Download,
         Repair!FindFault
    <2>4. Repair!LibraryLeftAlone'
      BY <2>3 DEF Repair!LibraryLeftAlone
    <2> QED
      BY <1>1, <2>1, <2>2, <2>3, <2>4 DEF Repair!DelugeStep, Repair!FinishCheck,
         Repair!FinishMove, Repair!Download, Repair!FindFault
  <1>2. CASE Repair!MoveOut
    <2>1. torrent' \in Repair!Torrent
      BY <1>2 DEF Repair!MoveOut
    <2>2. worker' \in [Repair!Workers -> Repair!Passes]
      BY <1>2 DEF Repair!MoveOut
    <2>3. Repair!LibraryLeftAlone' /\ (rechecked' => ~ torrent'.library)
      BY <1>2, <2>1, <2>2 DEF Repair!LibraryLeftAlone, Repair!MoveOut
    <2> QED
      BY <1>2, <2>1, <2>2, <2>3 DEF Repair!MoveOut
  <1> QED
    BY <1>1, <1>2

\* A pass that goes back to its caller is a pass.
LEMMA PassReturns ==
  ASSUME worker \in [Repair!Workers -> Repair!Passes], NEW w \in Repair!Workers,
         Repair!Returns(w) \/ Repair!Leaves(w)
  PROVE  worker' \in [Repair!Workers -> Repair!Passes]
  <1>0. Repair!NoSnapshot \in Repair!Snapshots
    BY DEF Repair!NoSnapshot, Repair!Snapshots, Repair!States
  <1>1. worker[w] \in Repair!Passes /\ DOMAIN worker = Repair!Workers
    OBVIOUS
  <1>2. CASE Repair!Returns(w)
    BY <1>0, <1>1, <1>2 DEF Repair!Returns, Repair!Passes
  <1>3. CASE Repair!Leaves(w)
    <2>1. PICK p : p = [worker[w] EXCEPT !.pc = worker[w].then, !.own = Repair!NoSnapshot,
                                         !.then = "idle"]
      OBVIOUS
    <2>2. p \in Repair!Passes
      BY <1>0, <1>1, <2>1 DEF Repair!Passes
    <2>3. worker' = [worker EXCEPT ![w] = p]
      BY <1>1, <1>3, <2>1 DEF Repair!Leaves
    <2> QED
      BY <2>2, <2>3
  <1> QED
    BY <1>2, <1>3

\* A restoring.
LEMMA RestoreStep ==
  ASSUME Repair!Inv, NEW w \in Repair!Workers,
         \/ Repair!Acquire(w) \/ Repair!Look(w) \/ Repair!LookFails(w)
         \/ Repair!Link(w) \/ Repair!Reverify(w) \/ Repair!ReverifyFails(w)
  PROVE  Repair!Inv'
  <1> USE DEF Repair!Inv, Repair!TypeOK, Repair!Torrent, Repair!Passes, Repair!Snapshots,
     Repair!States, Repair!NoSnapshot, Repair!Goes, Repair!Returns
  <1>1. CASE Repair!Acquire(w)
    <2>1. torrent' \in Repair!Torrent
      BY <1>1 DEF Repair!Acquire
    <2>2. worker' \in [Repair!Workers -> Repair!Passes]
      BY <1>1 DEF Repair!Acquire
    <2>3. Repair!LibraryLeftAlone' /\ (rechecked' => ~ torrent'.library)
      BY <1>1, <2>1, <2>2 DEF Repair!LibraryLeftAlone, Repair!Acquire
    <2> QED
      BY <1>1, <2>1, <2>2, <2>3 DEF Repair!Acquire
  <1>2. CASE Repair!Look(w)
    <2>1. torrent' \in Repair!Torrent
      BY <1>2 DEF Repair!Look, Repair!Listed, Repair!Snapshot
    <2>2. worker' \in [Repair!Workers -> Repair!Passes]
      BY <1>2 DEF Repair!Look, Repair!Listed, Repair!Snapshot
    <2>3. Repair!LibraryLeftAlone' /\ (rechecked' => ~ torrent'.library)
      BY <1>2, <2>1, <2>2 DEF Repair!LibraryLeftAlone, Repair!Look, Repair!Listed,
         Repair!Snapshot
    <2> QED
      BY <1>2, <2>1, <2>2, <2>3 DEF Repair!Look, Repair!Listed, Repair!Snapshot
  <1>3. CASE Repair!LookFails(w)
    <2>1. torrent' \in Repair!Torrent
      BY <1>3 DEF Repair!LookFails, Repair!Mishap, Repair!Mischances
    <2>2. worker' \in [Repair!Workers -> Repair!Passes]
      BY <1>3, PassReturns DEF Repair!LookFails
    <2>3. Repair!LibraryLeftAlone' /\ (rechecked' => ~ torrent'.library)
      BY <1>3, <2>1, <2>2 DEF Repair!LibraryLeftAlone, Repair!LookFails, Repair!Mishap,
         Repair!Mischances
    <2> QED
      BY <1>3, <2>1, <2>2, <2>3 DEF Repair!LookFails, Repair!Mishap, Repair!Mischances
  <1>4. CASE Repair!Link(w)
    <2>1. torrent' \in Repair!Torrent
      BY <1>4 DEF Repair!Link
    <2>2. worker' \in [Repair!Workers -> Repair!Passes]
      BY <1>4 DEF Repair!Link
    <2>3. Repair!LibraryLeftAlone' /\ (rechecked' => ~ torrent'.library)
      BY <1>4, <2>1, <2>2 DEF Repair!LibraryLeftAlone, Repair!Link
    <2> QED
      BY <1>4, <2>1, <2>2, <2>3 DEF Repair!Link
  <1>5. CASE Repair!Reverify(w)
    <2>1. torrent' \in Repair!Torrent
      BY <1>5 DEF Repair!Reverify, Repair!ForceRecheck
    <2>2. worker' \in [Repair!Workers -> Repair!Passes]
      BY <1>5, PassReturns DEF Repair!Reverify
    <2>3. Repair!LibraryLeftAlone' /\ (rechecked' => ~ torrent'.library)
      BY <1>5, <2>1, <2>2 DEF Repair!LibraryLeftAlone, Repair!Reverify, Repair!ForceRecheck
    <2> QED
      BY <1>5, <2>1, <2>2, <2>3 DEF Repair!Reverify, Repair!ForceRecheck
  <1>6. CASE Repair!ReverifyFails(w)
    <2>1. torrent' \in Repair!Torrent
      BY <1>6 DEF Repair!ReverifyFails, Repair!ForceRecheck
    <2>2. worker' \in [Repair!Workers -> Repair!Passes]
      BY <1>6, PassReturns DEF Repair!ReverifyFails
    <2>3. Repair!LibraryLeftAlone' /\ (rechecked' => ~ torrent'.library)
      BY <1>6, <2>1, <2>2 DEF Repair!LibraryLeftAlone, Repair!ReverifyFails, Repair!ForceRecheck
    <2> QED
      BY <1>6, <2>1, <2>2, <2>3 DEF Repair!ReverifyFails, Repair!ForceRecheck, Repair!Mishap,
         Repair!Mischances
  <1> QED
    BY <1>1, <1>2, <1>3, <1>4, <1>5, <1>6

\* The pause and the recheck, in either pass.
LEMMA RecheckStep ==
  ASSUME Repair!Inv, NEW w \in Repair!Workers,
         Repair!Pause(w) \/ Repair!Recheck(w) \/ Repair!RequestFails(w)
  PROVE  Repair!Inv'
  <1> USE DEF Repair!Inv, Repair!TypeOK, Repair!Torrent, Repair!Passes, Repair!Snapshots,
     Repair!States, Repair!NoSnapshot, Repair!Goes, Repair!Leaves
  <1>1. CASE Repair!Pause(w)
    <2>1. torrent' \in Repair!Torrent
      BY <1>1 DEF Repair!Pause, Repair!PauseTorrent
    <2>2. worker' \in [Repair!Workers -> Repair!Passes]
      BY <1>1 DEF Repair!Pause, Repair!PauseTorrent
    <2>3. Repair!LibraryLeftAlone' /\ (rechecked' => ~ torrent'.library)
      BY <1>1, <2>1, <2>2 DEF Repair!LibraryLeftAlone, Repair!Pause, Repair!PauseTorrent
    <2> QED
      BY <1>1, <2>1, <2>2, <2>3 DEF Repair!Pause, Repair!PauseTorrent
  <1>2. CASE Repair!Recheck(w)
    <2>1. torrent' \in Repair!Torrent
      BY <1>2 DEF Repair!Recheck, Repair!ForceRecheck
    <2>2. worker' \in [Repair!Workers -> Repair!Passes]
      BY <1>2, PassReturns DEF Repair!Recheck
    <2>3. Repair!LibraryLeftAlone' /\ (rechecked' => ~ torrent'.library)
      BY <1>2, <2>1, <2>2 DEF Repair!LibraryLeftAlone, Repair!Recheck, Repair!ForceRecheck
    <2> QED
      BY <1>2, <2>1, <2>2, <2>3 DEF Repair!Recheck, Repair!ForceRecheck
  <1>3. CASE Repair!RequestFails(w)
    <2>1. torrent' \in Repair!Torrent /\ torrent'.library = torrent.library
      BY <1>3 DEF Repair!RequestFails, Repair!PauseFails, Repair!PauseTorrent, Repair!ForceRecheck
    <2>2. worker' \in [Repair!Workers -> Repair!Passes]
      BY <1>3, PassReturns DEF Repair!RequestFails
    <2>3. Repair!LibraryLeftAlone' /\ (rechecked' => ~ torrent'.library)
      BY <1>3, <2>1, <2>2 DEF Repair!LibraryLeftAlone, Repair!RequestFails
    <2>4. failed' \in SUBSET Repair!Mischances
      BY <1>3 DEF Repair!RequestFails, Repair!PauseFails, Repair!Mishap, Repair!Mischances
    <2> QED
      BY <1>3, <2>1, <2>2, <2>3, <2>4 DEF Repair!RequestFails
  <1> QED
    BY <1>1, <1>2, <1>3

\* The repair's own steps, and the restart.
LEMMA ErrorStep ==
  ASSUME Repair!Inv,
         \/ Repair!Scan \/ Repair!ResumePass \/ Repair!ResumeFails
         \/ Repair!ErrorPass \/ Repair!Restart
  PROVE  Repair!Inv'
  <1> USE DEF Repair!Inv, Repair!TypeOK, Repair!Torrent, Repair!Passes, Repair!Snapshots,
     Repair!States, Repair!Workers, Repair!NoSnapshot, Repair!Idle, Repair!Goes
  <1>1. CASE Repair!Scan
    <2>1. torrent' \in Repair!Torrent
      BY <1>1 DEF Repair!Scan, Repair!Snapshot
    <2>2. worker' \in [Repair!Workers -> Repair!Passes]
      BY <1>1 DEF Repair!Scan, Repair!Snapshot
    <2>3. Repair!LibraryLeftAlone' /\ (rechecked' => ~ torrent'.library)
      BY <1>1, <2>1, <2>2 DEF Repair!LibraryLeftAlone, Repair!Scan, Repair!Snapshot
    <2> QED
      BY <1>1, <2>1, <2>2, <2>3 DEF Repair!Scan, Repair!Snapshot
  <1>2. CASE Repair!ResumePass
    <2>0. torrent' = torrent \/ Repair!ResumeTorrent
      BY <1>2 DEF Repair!ResumePass
    <2>1. torrent' \in Repair!Torrent
      BY <2>0 DEF Repair!ResumeTorrent
    <2>2. worker' \in [Repair!Workers -> Repair!Passes]
      BY <1>2 DEF Repair!ResumePass
    <2>3. torrent'.library = torrent.library /\ (rechecked' => rechecked)
      BY <1>2 DEF Repair!ResumePass, Repair!ResumeTorrent
    <2>4. \A w \in Repair!Workers :
            worker'[w].pc = worker[w].pc \/ worker'[w].pc \in {"wait", "idle"}
      BY <1>2 DEF Repair!ResumePass
    <2>5. Repair!LibraryLeftAlone'
      BY <2>3, <2>4 DEF Repair!LibraryLeftAlone
    <2>6. /\ rechecked' \in BOOLEAN /\ failed' \in SUBSET Repair!Mischances
          /\ reported' \in SUBSET {"partial", "library", "missing", "match", "candidate"}
      BY <1>2 DEF Repair!ResumePass, Repair!Mischances
    <2> QED
      BY <1>2, <2>1, <2>2, <2>3, <2>5, <2>6 DEF Repair!ResumePass
  <1>3. CASE Repair!ResumeFails
    <2>0. torrent' = torrent \/ Repair!ResumeTorrent
      BY <1>3 DEF Repair!ResumeFails
    <2>1. torrent' \in Repair!Torrent /\ torrent'.library = torrent.library
      BY <2>0 DEF Repair!ResumeTorrent
    <2>2. worker' \in [Repair!Workers -> Repair!Passes]
      BY <1>3 DEF Repair!ResumeFails
    <2>3. Repair!LibraryLeftAlone' /\ (rechecked' => ~ torrent'.library)
      BY <1>3, <2>1, <2>2 DEF Repair!LibraryLeftAlone, Repair!ResumeFails
    <2> QED
      BY <1>3, <2>1, <2>2, <2>3 DEF Repair!ResumeFails, Repair!Mishap, Repair!Mischances
  <1>4. CASE Repair!ErrorPass
    <2>1. torrent' \in Repair!Torrent
      BY <1>4 DEF Repair!ErrorPass, Repair!PauseTorrent, Repair!Report
    <2>2. worker' \in [Repair!Workers -> Repair!Passes]
      BY <1>4 DEF Repair!ErrorPass, Repair!PauseTorrent, Repair!Report
    <2>3. Repair!LibraryLeftAlone' /\ (rechecked' => ~ torrent'.library)
      BY <1>4, <2>1, <2>2 DEF Repair!LibraryLeftAlone, Repair!ErrorPass, Repair!PauseTorrent,
         Repair!Report
    <2> QED
      BY <1>4, <2>1, <2>2, <2>3 DEF Repair!ErrorPass, Repair!PauseTorrent, Repair!Report
  <1>5. CASE Repair!Restart
    <2>1. torrent' \in Repair!Torrent
      BY <1>5 DEF Repair!Restart, Repair!Mishap, Repair!Mischances
    <2>2. worker' \in [Repair!Workers -> Repair!Passes]
      BY <1>5 DEF Repair!Restart, Repair!Mishap, Repair!Mischances
    <2>3. Repair!LibraryLeftAlone' /\ (rechecked' => ~ torrent'.library)
      BY <1>5, <2>1, <2>2 DEF Repair!LibraryLeftAlone, Repair!Restart, Repair!Mishap,
         Repair!Mischances
    <2> QED
      BY <1>5, <2>1, <2>2, <2>3 DEF Repair!Restart, Repair!Mishap, Repair!Mischances
  <1> QED
    BY <1>1, <1>2, <1>3, <1>4, <1>5

\* Every step of the repair keeps its invariant.
LEMMA RepairStep == Repair!Inv /\ [Repair!Next]_repair => Repair!Inv'
  <1> SUFFICES ASSUME Repair!Inv, [Repair!Next]_repair PROVE Repair!Inv'
    OBVIOUS
  <1>1. CASE UNCHANGED repair
    BY <1>1 DEF repair, Repair!Inv, Repair!TypeOK, Repair!LibraryLeftAlone
  <1> QED
    BY <1>1, RepairWorldStep, RestoreStep, RecheckStep, ErrorStep DEF Repair!Next,
       Repair!PassStep

-----------------------------------------------------------------------------
\* What the service does is a step of the repair's, or does not concern it, and
\* so it is with the migration.
LEMMA OthersMove == [Next]_vars => [Repair!Next]_repair /\ [Migration!Next]_migration
  BY DEF Next, vars, OnlyRepair, OnlyRescue, OnlyMigration

\* A torrent that seeds from the library is never remembered as one to resume,
\* nor linked to or rechecked, whatever passes overlap.
THEOREM RepairInvariant == Spec => []Repair!Inv
  <1>1. Init => Repair!Inv
    BY RepairInit DEF Init
  <1>2. Repair!Inv /\ [Next]_vars => Repair!Inv'
    BY RepairStep, OthersMove
  <1> QED
    BY <1>1, <1>2, PTL DEF Spec

\* The repair, the rescue and the migration keep their types.
THEOREM ProgressTypeCorrect == Spec => []TypeOK
  <1>1. Init => MigrationProofs!Inv
    BY MigrationInit DEF Init
  <1>2. MigrationProofs!Inv /\ [Next]_vars => MigrationProofs!Inv'
    BY MigrationStep, OthersMove
  <1>3. Repair!Inv /\ Rescue!Inv /\ MigrationProofs!Inv => TypeOK
    BY DEF TypeOK, Repair!Inv, Rescue!Inv, MigrationProofs!Inv, MigrationProofs!TypeOK,
       MigrationProofs!Torrent, MigrationProofs!Ticks, MigrationProofs!Steps,
       Migration!TypeOK, Migration!Torrent, Migration!Ticks, Migration!Steps
  <1> QED
    BY <1>1, <1>2, <1>3, RepairInvariant, RescueInvariant, PTL DEF Spec
=============================================================================
