---------------------------- MODULE MigrateProofs ----------------------------
(***************************************************************************)
(* Proofs about Migrate: its type invariant, CheckpointExact, AlwaysWorks  *)
(* and CommitsAsAsked, for any scripts, names and number of runs.          *)
(***************************************************************************)
EXTENDS Migrate, TLAPS

-----------------------------------------------------------------------------
(* The inductive invariant. *)

UpNames == {UpName[i] : i \in 1 .. N} \cup {NoName}

\* A run that executes has seen or made the table.
TableInv == \A r \in Runs : pc[r] = "execute" => table

\* A run that has read a checkpoint read one that is not ahead of the database's.
HasRead(r) ==
  pc[r] \in {"create", "execute"} =>
    /\ name[r] \in UpNames
    /\ Position(UpName, name[r]) <= Version

\* A run downwards is alone, and what it read is still so.
Alone(r) ==
  ~Upward(flags[r]) =>
    /\ \A o \in Runs \ {r} : pc[o] = "idle"
    /\ pc[r] \in {"create", "execute"} => name[r] \in {NoName, checkpoint}

RunInv(r) == pc[r] # "idle" => ~Mixed(flags[r]) /\ HasRead(r) /\ Alone(r)

CarefulInv ==
  careful => /\ checkpoint \in UpNames
             /\ applied = 1 .. Version
             /\ \A r \in Runs : RunInv(r)

IInv == TypeOK /\ TableInv /\ CarefulInv

-----------------------------------------------------------------------------
(* Positions. *)

\* A position is one of a file, or 0.
LEMMA PositionType ==
  ASSUME NEW files, NEW c
  PROVE  Position(files, c) \in 0 .. N
  BY MigrateAssumption DEF Position

\* A file that is there is found.
LEMMA PositionUp ==
  ASSUME NEW i \in 1 .. N
  PROVE  Position(UpName, UpName[i]) = i
  BY MigrateAssumption DEF Position, IsInjective

\* The empty checkpoint is not the name of a file.
LEMMA PositionNone == Position(UpName, NoName) = 0 /\ Position(DownName, NoName) = 0
  BY MigrateAssumption DEF Position

\* Downwards a run begins with the migration its checkpoint names, also when the
\* last .down.sql has another name and is not found.
LEMMA PositionDown ==
  ASSUME NEW i \in 1 .. N
  PROVE  (IF Position(DownName, UpName[i]) = 0 THEN N
          ELSE Position(DownName, UpName[i])) = i
<1>1. CASE DownName[i] = UpName[i]
  <2>1. Position(DownName, UpName[i]) = i
    BY <1>1, MigrateAssumption DEF Position, IsInjective
  <2> QED
    BY <2>1
<1>2. CASE DownName[i] # UpName[i]
  <2>1. i = N
    BY <1>2, MigrateAssumption
  <2>2. \A j \in 1 .. N : DownName[j] # UpName[i]
    BY <1>2, <2>1, MigrateAssumption DEF IsInjective
  <2> QED
    BY <2>1, <2>2 DEF Position
<1> QED
  BY <1>1, <1>2

\* The range a run executes is of files, whatever checkpoint it has read.
LEMMA RangeType ==
  ASSUME NEW f \in Flags, NEW c
  PROVE  /\ Lo(f, c) \in 1 .. N + 1
         /\ Hi(f, c) \in 0 .. N
         /\ ~Upward(f) => Lo(f, c) <= Hi(f, c)
<1>1. Position(UpName, c) \in 0 .. N /\ Position(DownName, c) \in 0 .. N
  BY PositionType
<1>2. f.steps \in Int /\ f.latest \in BOOLEAN /\ f.zero \in BOOLEAN
  BY MigrateAssumption DEF Flags
<1>3. CASE Upward(f)
  BY <1>1, <1>2, <1>3, MigrateAssumption DEF Lo, Hi, Abs, Smaller
<1>4. CASE ~Upward(f)
  <2> DEFINE hi == IF Position(DownName, c) = 0 THEN N ELSE Position(DownName, c)
  <2>1. hi \in 1 .. N
    BY <1>1, MigrateAssumption
  <2>2. Hi(f, c) = hi
    BY <1>4 DEF Hi
  <2>3. Lo(f, c) = IF f.steps = 0 THEN 1 ELSE hi - Smaller(hi, Abs(f.steps)) + 1
    BY <1>4 DEF Lo
  <2>4. f.steps # 0 => Smaller(hi, Abs(f.steps)) \in 1 .. hi
    BY <1>2, <2>1 DEF Smaller, Abs
  <2> HIDE DEF hi
  <2> QED
    BY <2>1, <2>2, <2>3, <2>4, MigrateAssumption
<1> QED
  BY <1>3, <1>4

\* A checkpoint that is written is the name of a file or empty.
LEMMA NewCheckpointType ==
  ASSUME NEW f \in Flags, NEW c, Lo(f, c) <= Hi(f, c)
  PROVE  NewCheckpoint(f, c) \in Names
<1>1. Lo(f, c) \in 1 .. N + 1 /\ Hi(f, c) \in 0 .. N
  BY RangeType
<1>2. Hi(f, c) \in 1 .. N /\ (Lo(f, c) > 1 => Lo(f, c) - 1 \in 1 .. N)
  BY <1>1, MigrateAssumption
<1> QED
  BY <1>2, MigrateAssumption DEF NewCheckpoint, Names, Range

-----------------------------------------------------------------------------
(* What a run does to the version. *)

\* Upwards a run that works takes the database on from where it is, though what
\* it read may be older.
LEMMA UpwardVersion ==
  ASSUME NEW f \in Flags, NEW c \in UpNames, NEW v \in 0 .. N,
         Upward(f), ~Mixed(f), Works(f, c), applied = 1 .. v,
         Position(UpName, c) <= v
  PROVE  /\ NewCheckpoint(f, c) \in UpNames
         /\ Position(UpName, NewCheckpoint(f, c)) >= v
         /\ Position(UpName, NewCheckpoint(f, c)) = Target(f, v)
         /\ applied \cup Lo(f, c) .. Hi(f, c)
              = 1 .. Position(UpName, NewCheckpoint(f, c))
<1>1. Lo(f, c) \in 1 .. N + 1 /\ Hi(f, c) \in 0 .. N /\ Lo(f, c) <= Hi(f, c)
  BY RangeType DEF Works
<1>2. Lo(f, c) \notin applied
  BY <1>1 DEF Works, UpSucceeds
<1>3. Lo(f, c) = Position(UpName, c) + 1
  BY DEF Lo
<1>4. Position(UpName, c) \in 0 .. N
  BY PositionType
<1>5. Lo(f, c) = v + 1
  BY <1>1, <1>2, <1>3, <1>4
<1>6. NewCheckpoint(f, c) = UpName[Hi(f, c)]
  BY DEF NewCheckpoint, Mixed, Upward, Flags
<1>7. Hi(f, c) \in 1 .. N
  BY <1>1
<1>8. Position(UpName, NewCheckpoint(f, c)) = Hi(f, c)
  BY <1>6, <1>7, PositionUp
<1>9. Hi(f, c) = Target(f, v)
  <2>1. Hi(f, c) = IF f.steps = 0 THEN N ELSE Smaller(N, v + 1 + Abs(f.steps) - 1)
    BY <1>5 DEF Hi
  <2>2. v + 1 + Abs(f.steps) - 1 = v + Abs(f.steps)
    BY MigrateAssumption DEF Flags, Abs
  <2>3. f.steps = 0 => f.latest
    BY DEF Upward
  <2> QED
    BY <2>1, <2>2, <2>3 DEF Target
<1> QED
  BY <1>1, <1>5, <1>6, <1>7, <1>8, <1>9 DEF UpNames

\* Downwards a run that works takes it back to before the range, if what it read
\* is where the database is.
LEMMA DownwardVersion ==
  ASSUME NEW f \in Flags, NEW c \in UpNames,
         ~Upward(f), ~Mixed(f), Works(f, c), applied = 1 .. Position(UpName, c)
  PROVE  /\ NewCheckpoint(f, c) \in UpNames
         /\ Position(UpName, NewCheckpoint(f, c)) = Target(f, Position(UpName, c))
         /\ applied \ (Lo(f, c) .. Hi(f, c))
              = 1 .. Position(UpName, NewCheckpoint(f, c))
<1>1. PICK i \in 1 .. N : c = UpName[i]
  BY DEF Works, UpNames
<1>2. Position(UpName, c) = i
  BY <1>1, PositionUp
<1>3. Hi(f, c) = i
  BY <1>1, PositionDown DEF Hi
<1>4. Lo(f, c) \in 1 .. i
  BY <1>3, RangeType
<1>5. applied \ (Lo(f, c) .. Hi(f, c)) = 1 .. Lo(f, c) - 1
  BY <1>2, <1>3, <1>4
<1>6. Lo(f, c) - 1 = Target(f, i)
  <2>1. Lo(f, c) = IF f.steps = 0 THEN 1 ELSE i - Smaller(i, Abs(f.steps)) + 1
    BY <1>1, PositionDown DEF Lo
  <2>2. f.steps = 0 => ~f.latest
    BY DEF Upward
  <2>3. Smaller(i, Abs(f.steps)) \in Int
    BY MigrateAssumption DEF Smaller, Abs, Flags
  <2> QED
    BY <2>1, <2>2, <2>3 DEF Target
<1>7. CASE Lo(f, c) = 1
  <2>1. NewCheckpoint(f, c) = NoName
    BY <1>7 DEF NewCheckpoint
  <2>2. applied \ (Lo(f, c) .. Hi(f, c)) = 1 .. 0
    BY <1>5, <1>7
  <2> QED
    BY <1>2, <1>6, <1>7, <2>1, <2>2, PositionNone DEF UpNames
<1>8. CASE Lo(f, c) # 1
  <2>1. ~f.zero
    BY <1>8 DEF Lo, Mixed, Upward, Flags
  <2>2. NewCheckpoint(f, c) = UpName[Lo(f, c) - 1]
    BY <1>4, <1>8, <2>1, MigrateAssumption DEF NewCheckpoint
  <2>3. Lo(f, c) - 1 \in 1 .. N
    BY <1>4, <1>8, MigrateAssumption
  <2>4. Position(UpName, NewCheckpoint(f, c)) = Lo(f, c) - 1
    BY <2>2, <2>3, PositionUp
  <2> QED
    BY <1>2, <1>5, <1>6, <2>2, <2>3, <2>4 DEF UpNames
<1> QED
  BY <1>7, <1>8

-----------------------------------------------------------------------------
(* The invariant. *)

\* Init establishes the invariant.
LEMMA InitIInv == Init => IInv
<1> SUFFICES ASSUME Init PROVE IInv
  OBVIOUS
<1>1. [latest |-> TRUE, zero |-> FALSE, steps |-> 0] \in Flags
  BY MigrateAssumption DEF Flags
<1>2. flags \in [Runs -> Flags]
  BY <1>1 DEF Init
<1>3. NoName \in Names
  BY DEF Names
<1>4. TypeOK
  <2>1. starts \in 0 .. MaxStarts
    BY MigrateAssumption DEF Init
  <2>2. pc \in [Runs -> {"idle", "read", "create", "execute"}]
    BY DEF Init
  <2> QED
    BY <1>2, <1>3, <2>1, <2>2 DEF Init, TypeOK
<1>5. Version = 0
  BY PositionNone DEF Init, Version
<1>6. applied = 1 .. Version
  BY <1>5 DEF Init
<1> QED
  BY <1>4, <1>6 DEF Init, IInv, TableInv, CarefulInv, RunInv, UpNames

\* Every step keeps the types, and what a run knows of the table.
LEMMA TypeStep == IInv /\ [Next]_vars => TypeOK' /\ TableInv'
<1> SUFFICES ASSUME IInv, [Next]_vars PROVE TypeOK' /\ TableInv'
  OBVIOUS
<1> USE MigrateAssumption DEF IInv, TypeOK, TableInv, database, Goto
<1>1. NoName \in Names
  BY DEF Names
<1>2. ASSUME NEW r \in Runs, NEW f \in Flags, Start(r, f)
      PROVE  TypeOK' /\ TableInv'
  BY <1>2 DEF Start
<1>3. ASSUME NEW r \in Runs, ReadCheckpoint(r) PROVE TypeOK' /\ TableInv'
  BY <1>1, <1>3 DEF ReadCheckpoint
<1>4. ASSUME NEW r \in Runs, CreateTable(r) PROVE TypeOK' /\ TableInv'
  BY <1>4 DEF CreateTable
<1>5. ASSUME NEW r \in Runs, Execute(r) PROVE TypeOK' /\ TableInv'
  <2>1. table
    BY <1>5 DEF Execute
  <2>2. CASE Works(flags[r], name[r])
    <3>1. Lo(flags[r], name[r]) .. Hi(flags[r], name[r]) \subseteq 1 .. N
      BY RangeType
    <3>2. applied' \subseteq 1 .. N
      BY <1>5, <2>2, <3>1 DEF Execute
    <3>3. Lo(flags[r], name[r]) <= Hi(flags[r], name[r])
      BY <2>2 DEF Works
    <3>4. checkpoint' \in Names
      BY <1>5, <2>2, <3>3, NewCheckpointType DEF Execute
    <3> QED
      BY <1>5, <2>1, <3>2, <3>4 DEF Execute
  <2>3. CASE ~Works(flags[r], name[r])
    BY <1>5, <2>3 DEF Execute
  <2> QED
    BY <2>2, <2>3
<1>6. ASSUME NEW r \in Runs, Kill(r) PROVE TypeOK' /\ TableInv'
  BY <1>6 DEF Kill
<1>7. CASE UNCHANGED vars
  BY <1>7 DEF vars
<1> QED
  BY <1>2, <1>3, <1>4, <1>5, <1>6, <1>7 DEF Next

\* A run that executes leaves the checkpoint exact, at no earlier version if it
\* goes upwards, and at the one it was asked for if it does anything.
LEMMA ExecuteVersion ==
  ASSUME IInv, NEW r \in Runs, Execute(r), careful
  PROVE  /\ checkpoint' \in UpNames
         /\ applied' = 1 .. Version'
         /\ Upward(flags[r]) => Version' >= Version
         /\ applied' # applied => Version' = Target(flags[r], Version)
<1> DEFINE f == flags[r]
           c == name[r]
<1>1. f \in Flags /\ Version \in 0 .. N
  BY PositionType DEF IInv, TypeOK, Version
<1>2. ~Mixed(f) /\ HasRead(r) /\ Alone(r)
  BY DEF IInv, CarefulInv, RunInv, Execute
<1>3. checkpoint \in UpNames /\ applied = 1 .. Version
  BY DEF IInv, CarefulInv
<1>4. c \in UpNames /\ Position(UpName, c) <= Version
  BY <1>2 DEF HasRead, Execute
<1>5. CASE ~Works(f, c)
  BY <1>1, <1>3, <1>5 DEF Execute, Version
<1>6. CASE Works(f, c) /\ Upward(f)
  <2>1. /\ NewCheckpoint(f, c) \in UpNames
        /\ Position(UpName, NewCheckpoint(f, c)) >= Version
        /\ Position(UpName, NewCheckpoint(f, c)) = Target(f, Version)
        /\ applied \cup Lo(f, c) .. Hi(f, c)
             = 1 .. Position(UpName, NewCheckpoint(f, c))
    BY <1>1, <1>2, <1>3, <1>4, <1>6, UpwardVersion
  <2> QED
    BY <1>6, <2>1 DEF Execute, Version
<1>7. CASE Works(f, c) /\ ~Upward(f)
  <2>1. c = checkpoint
    BY <1>2, <1>7 DEF Alone, Works, Execute
  <2>2. applied = 1 .. Position(UpName, c)
    BY <1>3, <2>1 DEF Version
  <2>3. /\ NewCheckpoint(f, c) \in UpNames
        /\ Position(UpName, NewCheckpoint(f, c)) = Target(f, Position(UpName, c))
        /\ applied \ (Lo(f, c) .. Hi(f, c))
             = 1 .. Position(UpName, NewCheckpoint(f, c))
    BY <1>1, <1>2, <1>4, <1>7, <2>2, DownwardVersion
  <2> QED
    BY <1>7, <2>1, <2>3 DEF Execute, Version
<1> QED
  BY <1>5, <1>6, <1>7

\* Every step keeps what holds while the command is used with care.
LEMMA CarefulStep == IInv /\ [Next]_vars => CarefulInv'
<1> SUFFICES ASSUME IInv, [Next]_vars, careful' PROVE CarefulInv'
  BY DEF CarefulInv
<1> USE DEF database, Goto, RunInv, HasRead, Alone
<1>1. /\ pc \in [Runs -> {"idle", "read", "create", "execute"}]
      /\ flags \in [Runs -> Flags]
      /\ name \in [Runs -> Names]
      /\ Version \in 0 .. N
  BY PositionType DEF IInv, TypeOK, Version
<1>2. careful
  BY DEF Next, Start, ReadCheckpoint, CreateTable, Execute, Kill, vars
<1>3. /\ checkpoint \in UpNames
      /\ applied = 1 .. Version
      /\ \A r \in Runs : RunInv(r)
  BY <1>2 DEF IInv, CarefulInv
<1>4. UNCHANGED checkpoint => Version' = Version
  BY DEF Version
<1>5. ASSUME NEW r \in Runs, NEW f \in Flags, Start(r, f) PROVE CarefulInv'
  <2>1. ~Mixed(f) /\ ~Overlaps(r, f)
    BY <1>5 DEF Start
  <2>2. ASSUME NEW o \in Runs PROVE RunInv(o)'
    BY <1>1, <1>3, <1>4, <1>5, <2>1, <2>2 DEF Start, Overlaps
  <2> QED
    BY <1>3, <1>4, <1>5, <2>2 DEF Start, CarefulInv
<1>6. ASSUME NEW r \in Runs, ReadCheckpoint(r) PROVE CarefulInv'
  <2>1. name'[r] \in {NoName, checkpoint}
    BY <1>1, <1>6 DEF ReadCheckpoint
  <2>2. name'[r] \in UpNames /\ Position(UpName, name'[r]) <= Version
    BY <1>1, <1>3, <2>1, PositionNone DEF UpNames, Version
  <2>3. ASSUME NEW o \in Runs PROVE RunInv(o)'
    BY <1>1, <1>3, <1>4, <1>6, <2>1, <2>2, <2>3 DEF ReadCheckpoint
  <2> QED
    BY <1>3, <1>4, <1>6, <2>3 DEF ReadCheckpoint, CarefulInv
<1>7. ASSUME NEW r \in Runs, CreateTable(r) PROVE CarefulInv'
  <2>1. ASSUME NEW o \in Runs PROVE RunInv(o)'
    BY <1>1, <1>3, <1>4, <1>7, <2>1 DEF CreateTable
  <2> QED
    BY <1>3, <1>4, <1>7, <2>1 DEF CreateTable, CarefulInv
<1>8. ASSUME NEW r \in Runs, Execute(r) PROVE CarefulInv'
  <2>1. /\ checkpoint' \in UpNames
        /\ applied' = 1 .. Version'
        /\ Upward(flags[r]) => Version' >= Version
    BY <1>2, <1>8, ExecuteVersion
  <2>2. Version' \in 0 .. N
    BY PositionType DEF Version
  <2>3. ASSUME NEW o \in Runs, pc'[o] # "idle" PROVE RunInv(o)'
    <3>1. o # r /\ pc[o] = pc'[o] /\ UNCHANGED <<flags, name>>
      BY <1>1, <1>8, <2>3 DEF Execute
    <3>2. Upward(flags[r]) /\ Upward(flags[o])
      BY <1>3, <1>8, <2>3, <3>1 DEF Execute
    <3>3. pc[o] \in {"create", "execute"} => Position(UpName, name[o]) \in 0 .. N
      BY PositionType
    <3> QED
      BY <1>1, <1>3, <2>1, <2>2, <3>1, <3>2, <3>3
  <2> QED
    BY <2>1, <2>3 DEF CarefulInv
<1>9. ASSUME NEW r \in Runs, Kill(r) PROVE CarefulInv'
  <2>1. ASSUME NEW o \in Runs PROVE RunInv(o)'
    BY <1>1, <1>3, <1>4, <1>9, <2>1 DEF Kill
  <2> QED
    BY <1>3, <1>4, <1>9, <2>1 DEF Kill, CarefulInv
<1>10. CASE UNCHANGED vars
  BY <1>3, <1>4, <1>10 DEF vars, CarefulInv
<1> QED
  BY <1>5, <1>6, <1>7, <1>8, <1>9, <1>10 DEF Next

\* The invariant holds.
LEMMA Invariance == Spec => []IInv
<1>1. IInv /\ [Next]_vars => IInv'
  BY TypeStep, CarefulStep DEF IInv
<1> QED
  BY InitIInv, <1>1, PTL DEF Spec

-----------------------------------------------------------------------------
(* The theorems. *)

\* Nothing is applied and no checkpoint written without the table; a checkpoint
\* is empty or the name of a file (main.go:171-222).
THEOREM TypeCorrect == Spec => []TypeOK
<1>1. IInv => TypeOK
  BY DEF IInv
<1> QED
  BY Invariance, <1>1, PTL

\* With care, the checkpoint names the last migration whose tables are there,
\* whatever scripts there are and however many runs go upwards at the same time.
THEOREM CheckpointIsExact == Spec => []CheckpointExact
<1>1. IInv => CheckpointExact
  BY DEF IInv, CarefulInv, CheckpointExact
<1> QED
  BY Invariance, <1>1, PTL

\* At an exact checkpoint -latest and -zero both work.
LEMMA ExactWorks == IInv => AlwaysWorks
<1> SUFFICES ASSUME IInv, careful
             PROVE  /\ applied # 1 .. N => Works(Latest, checkpoint)
                    /\ applied # {}     => Works(Zero, checkpoint)
  BY DEF AlwaysWorks
<1>1. checkpoint \in UpNames /\ applied = 1 .. Version /\ Version \in 0 .. N
  BY PositionType DEF IInv, CarefulInv, Version
<1>2. ASSUME applied # 1 .. N PROVE Works(Latest, checkpoint)
  <2>1. Upward(Latest) /\ Lo(Latest, checkpoint) = Version + 1 /\ Hi(Latest, checkpoint) = N
    BY DEF Upward, Latest, Lo, Hi, Version
  <2>2. Version < N
    BY <1>1, <1>2, MigrateAssumption
  <2>3. UpSucceeds(Version + 1, N)
    BY <1>1, MigrateAssumption DEF UpSucceeds
  <2> QED
    BY <1>1, <2>1, <2>2, <2>3, MigrateAssumption DEF Works
<1>3. ASSUME applied # {} PROVE Works(Zero, checkpoint)
  <2>1. PICK i \in 1 .. N : checkpoint = UpName[i]
    BY <1>1, <1>3, PositionNone DEF UpNames, Version
  <2>2. Version = i
    BY <2>1, PositionUp DEF Version
  <2>3. ~Upward(Zero) /\ Lo(Zero, checkpoint) = 1 /\ Hi(Zero, checkpoint) = i
    BY <2>1, PositionDown DEF Upward, Zero, Lo, Hi
  <2>4. DownSucceeds(1, i)
    <3>1. ASSUME NEW k \in 1 .. i, NEW j \in applied \ (k + 1 .. i) PROVE k \notin Requires[j]
      <4>1. j \in 1 .. k
        BY <1>1, <2>2, <3>1
      <4> QED
        BY <4>1, MigrateAssumption
    <3>2. 1 \in applied
      BY <1>1, <2>2
    <3> QED
      BY <3>1, <3>2 DEF DownSucceeds
  <2>5. checkpoint # NoName
    BY <2>1, MigrateAssumption
  <2> QED
    BY <2>3, <2>4, <2>5 DEF Works
<1> QED
  BY <1>2, <1>3

\* With care, -latest works while there is something to apply and -zero while
\* there is something to undo.
THEOREM NeverStuck == Spec => []AlwaysWorks
  BY Invariance, ExactWorks, PTL

\* With care, a run that commits anything does what its flags say to the database
\* as it is then, however old the checkpoint it read (main.go:171-222).
THEOREM RunsCommitAsAsked == Spec => CommitsAsAsked
<1>1. IInv /\ [Next]_vars =>
        [\A r \in Runs : careful /\ Execute(r) /\ applied' # applied
                            => Version' = Target(flags[r], Version)]_vars
  BY ExecuteVersion
<1> QED
  BY Invariance, <1>1, PTL DEF Spec, CommitsAsAsked

=============================================================================
