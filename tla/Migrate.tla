------------------------------- MODULE Migrate -------------------------------
(***************************************************************************)
(* The migrate command: runs of it, one after the other or at the same     *)
(* time, over the one row of table migration and the tables of the schema. *)
(*                                                                         *)
(* Migrations are numbered in the order of their files.  Those a run       *)
(* executes are always a range Lo .. Hi of these, upwards or downwards.    *)
(* A run reads the checkpoint, may create the table, and then executes the *)
(* range and writes the new checkpoint in one database transaction.  What  *)
(* is between these steps is not protected by anything.                    *)
(***************************************************************************)
EXTENDS Integers, Functions

CONSTANTS
  Runs,      \* processes the operator starts
  N,         \* number of migrations
  UpName,    \* UpName[i]: name of the i-th .up.sql, without its suffix
  DownName,  \* DownName[i]: name of the i-th .down.sql
  NoName,    \* the empty checkpoint, NULL in the table
  Requires,  \* Requires[i]: the migrations whose tables the i-th refers to
  MaxSteps,  \* bound: |-steps|
  MaxStarts  \* bound: runs ever started

\* No name is a prefix of another, so that a file is found by its own name only.
\* The last .down.sql may be named otherwise than its .up.sql, as 03_user_tsx is.
ASSUME MigrateAssumption ==
  /\ N \in Nat \ {0}
  /\ DOMAIN UpName = 1 .. N
  /\ DOMAIN DownName = 1 .. N
  /\ IsInjective(UpName)
  /\ IsInjective(DownName)
  /\ \A i \in 1 .. N - 1 : DownName[i] = UpName[i]
  /\ \A i \in 1 .. N : NoName # UpName[i] /\ NoName # DownName[i]
  /\ Requires \in [1 .. N -> SUBSET (1 .. N)]
  /\ \A i \in 1 .. N : \A j \in Requires[i] : j < i
  /\ \A i \in 2 .. N : 1 \in Requires[i]
  /\ MaxSteps \in Nat
  /\ MaxStarts \in Nat

VARIABLES
  table,      \* is there a table migration?
  checkpoint, \* its name column
  applied,    \* the migrations whose tables are there
  pc,         \* pc[r]: what run r does next
  flags,      \* flags[r]: its command line
  name,       \* name[r]: currentMigration.Name
  starts,     \* runs started so far
  careful     \* nobody has used the command in a way it does not bear

database == <<table, checkpoint, applied>>
vars     == <<database, pc, flags, name, starts, careful>>

Flags ==
  {f \in [latest : BOOLEAN, zero : BOOLEAN, steps : -MaxSteps .. MaxSteps] :
     f.steps # 0 \/ f.zero \/ f.latest}

Names == Range(UpName) \cup Range(DownName) \cup {NoName}

Init ==
  /\ table = FALSE
  /\ checkpoint = NoName
  /\ applied = {}
  /\ pc = [r \in Runs |-> "idle"]
  /\ flags \in [Runs -> {[latest |-> TRUE, zero |-> FALSE, steps |-> 0]}]
  /\ name = [r \in Runs |-> NoName]
  /\ starts = 0
  /\ careful = TRUE

-----------------------------------------------------------------------------
(* prepareMigrations. *)

Upward(f) == f.latest \/ f.steps > 0

Abs(n) == IF n < 0 THEN -n ELSE n

\* Where the checkpoint is among the files, 0 when it is not.
Position(files, c) ==
  IF \E i \in 1 .. N : files[i] = c THEN CHOOSE i \in 1 .. N : files[i] = c ELSE 0

Smaller(m, n) == IF m < n THEN m ELSE n

\* Mutant: the checkpoint itself is executed again, upwards too.
LoAtCheckpoint(f, c) ==
  IF Upward(f) THEN IF Position(UpName, c) = 0 THEN 1 ELSE Position(UpName, c)
  ELSE LET hi == IF Position(DownName, c) = 0 THEN N ELSE Position(DownName, c)
       IN  IF f.steps = 0 THEN 1 ELSE hi - Smaller(hi, Abs(f.steps)) + 1

\* Upwards: what is behind the checkpoint, the oldest first.  Downwards: the
\* checkpoint and what is before it, or everything when no file has its name.
Lo(f, c) ==
  IF Upward(f) THEN Position(UpName, c) + 1
  ELSE LET hi == IF Position(DownName, c) = 0 THEN N ELSE Position(DownName, c)
       IN  IF f.steps = 0 THEN 1 ELSE hi - Smaller(hi, Abs(f.steps)) + 1

Hi(f, c) ==
  IF Upward(f)
  THEN IF f.steps = 0 THEN N ELSE Smaller(N, Lo(f, c) + Abs(f.steps) - 1)
  ELSE IF Position(DownName, c) = 0 THEN N ELSE Position(DownName, c)

\* Mutant: downwards, the last script executed and not the one before it.
NewCheckpointExecuted(f, c) ==
  IF f.zero THEN NoName
  ELSE IF Upward(f) THEN UpName[Hi(f, c)]
  ELSE DownName[Lo(f, c)]

NewCheckpoint(f, c) ==
  IF f.zero THEN NoName
  ELSE IF Upward(f) THEN UpName[Hi(f, c)]
  ELSE IF Lo(f, c) > 1 THEN DownName[Lo(f, c) - 1]
  ELSE NoName

-----------------------------------------------------------------------------
(* The scripts in db_migrations, one after the other in one transaction. *)

\* Mutant: CREATE TABLE IF NOT EXISTS.
UpSucceedsIfNotExists(lo, hi) ==
  \A i \in lo .. hi : Requires[i] \subseteq applied \cup lo .. i - 1

\* A .up.sql fails when its tables are there, or one it refers to is not.
UpSucceeds(lo, hi) ==
  \A i \in lo .. hi :
    /\ i \notin applied
    /\ Requires[i] \subseteq applied \cup lo .. i - 1

\* A .down.sql fails when a table that is left refers to its own.  It drops IF
\* EXISTS, so it may run twice, but all except the first delete from a table of
\* the first.
DownSucceeds(lo, hi) ==
  \A i \in lo .. hi :
    /\ \A j \in applied \ (i + 1 .. hi) : i \notin Requires[j]
    /\ i # 1 => 1 \in applied

\* A run with these flags that finds checkpoint c gets to its COMMIT.
Works(f, c) ==
  /\ Lo(f, c) <= Hi(f, c)
  /\ IF Upward(f) THEN UpSucceeds(Lo(f, c), Hi(f, c))
     ELSE /\ c # NoName
          /\ DownSucceeds(Lo(f, c), Hi(f, c))

-----------------------------------------------------------------------------
(* A run. *)

\* -zero with another flag: it goes by the other and forgets the checkpoint.
Mixed(f) == f.zero /\ (f.latest \/ f.steps # 0)

\* One of two runs at the same time goes down.
Overlaps(r, f) ==
  \E o \in Runs \ {r} : pc[o] # "idle" /\ ~(Upward(f) /\ Upward(flags[o]))

Start(r, f) ==
  /\ pc[r] = "idle"
  /\ starts < MaxStarts
  /\ starts' = starts + 1
  /\ pc' = [pc EXCEPT ![r] = "read"]
  /\ flags' = [flags EXCEPT ![r] = f]
  /\ careful' = (careful /\ ~Mixed(f) /\ ~Overlaps(r, f))
  /\ UNCHANGED <<database, name>>

Goto(r, step) == pc' = [pc EXCEPT ![r] = step]

\* Mutant: a table that is not there is not created.
ReadCheckpointOnly(r) ==
  /\ pc[r] = "read"
  /\ name' = [name EXCEPT ![r] = checkpoint]
  /\ Goto(r, "execute")
  /\ UNCHANGED <<database, flags, starts, careful>>

\* The error of the query is not looked at: one that fails for a reason of its
\* own looks like a table that is not there.
ReadCheckpoint(r) ==
  /\ pc[r] = "read"
  /\ \/ /\ table
        /\ name' = [name EXCEPT ![r] = checkpoint]
        /\ Goto(r, "execute")
     \/ /\ name' = [name EXCEPT ![r] = NoName]
        /\ Goto(r, "create")
  /\ UNCHANGED <<database, flags, starts, careful>>

\* A table that is there ends the run.
CreateTable(r) ==
  /\ pc[r] = "create"
  /\ table' = TRUE
  /\ Goto(r, IF table THEN "idle" ELSE "execute")
  /\ UNCHANGED <<checkpoint, applied, flags, name, starts, careful>>

Execute(r) ==
  LET f == flags[r]
      range == Lo(f, name[r]) .. Hi(f, name[r])
  IN  /\ pc[r] = "execute"
      /\ IF Works(f, name[r])
         THEN /\ applied' = IF Upward(f) THEN applied \cup range ELSE applied \ range
              /\ checkpoint' = NewCheckpoint(f, name[r])
         ELSE UNCHANGED <<applied, checkpoint>>
      /\ Goto(r, "idle")
      /\ UNCHANGED <<table, flags, name, starts, careful>>

\* The process is killed, or fails for a reason of its own: the database rolls
\* back what was not committed.
Kill(r) ==
  /\ pc[r] # "idle"
  /\ Goto(r, "idle")
  /\ UNCHANGED <<database, flags, name, starts, careful>>

Next ==
  \E r \in Runs :
    \/ \E f \in Flags : Start(r, f)
    \/ ReadCheckpoint(r)
    \/ CreateTable(r)
    \/ Execute(r)
    \/ Kill(r)

Spec == Init /\ [][Next]_vars

-----------------------------------------------------------------------------
(* Properties. *)

\* Nothing is applied, and no checkpoint written, without the table; the
\* checkpoint is empty or the name of a file.
TypeOK ==
  /\ table \in BOOLEAN
  /\ checkpoint \in Names
  /\ applied \subseteq 1 .. N
  /\ ~table => applied = {} /\ checkpoint = NoName
  /\ pc \in [Runs -> {"idle", "read", "create", "execute"}]
  /\ flags \in [Runs -> Flags]
  /\ name \in [Runs -> Names]
  /\ starts \in 0 .. MaxStarts
  /\ careful \in BOOLEAN

Version == Position(UpName, checkpoint)

\* Unless -zero was mixed with another flag, or a run downwards overlapped
\* another run, the checkpoint names the last migration whose tables are there:
\* through killed runs, queries that fail, and any number of runs upwards at the
\* same time, each with a checkpoint it has read before the others' commits.
CheckpointExact == careful => applied = 1 .. Version

Latest == [latest |-> TRUE, zero |-> FALSE, steps |-> 0]
Zero   == [latest |-> FALSE, zero |-> TRUE, steps |-> 0]

\* Then the command never gets stuck either: -latest works whenever there is
\* something to apply and -zero whenever there is something to undo.
AlwaysWorks ==
  careful => /\ applied # 1 .. N => Works(Latest, checkpoint)
             /\ applied # {}     => Works(Zero, checkpoint)

\* The version a run with these flags is asked to bring a database at v to.
Target(f, v) ==
  IF f.steps = 0 THEN IF f.latest THEN N ELSE 0
  ELSE IF Upward(f) THEN Smaller(N, v + Abs(f.steps))
  ELSE v - Smaller(v, Abs(f.steps))

\* A run that changes anything brings the database from where it is when the run
\* commits to where the flags say, although what the run executes was counted from
\* a checkpoint read two statements earlier, and others may have committed since.
CommitsAsAsked ==
  [][\A r \in Runs : careful /\ Execute(r) /\ applied' # applied
                      => Version' = Target(flags[r], Version)]_vars

=============================================================================
