-------------------------- MODULE FileWriterProofs --------------------------
(***************************************************************************)
(* Machine-checked proofs about module FileWriter, for every number of     *)
(* events and starts, and every configuration of the output.               *)
(***************************************************************************)
EXTENDS FileWriter, FiniteSetTheorems, TLAPS

-----------------------------------------------------------------------------
(* Names, files and their sizes *)

LEMMA Parameters ==
  /\ N \in Nat /\ MaxSize \in Nat /\ MaxBackups \in Nat /\ MaxAge \in Nat /\ MaxTime \in Nat
  /\ MaxRuns \in Nat /\ MaxRuns # 0 /\ Compress \in BOOLEAN
  /\ \A S : S \subseteq 1..N => S # NoFile
BY FileAssumption

\* A name says the second and whether the file is compressed, and nothing else.
LEMMA NamesAre ==
  /\ \A t : /\ Plain(t).at = t /\ Plain(t).gz = FALSE /\ Gz(t).at = t /\ Gz(t).gz = TRUE
            /\ Plain(t) # Gz(t)
            /\ t \in 0..MaxTime => Plain(t) \in Names /\ Gz(t) \in Names
  /\ \A n \in Names : /\ n.at \in 0..MaxTime /\ n.gz \in BOOLEAN
                      /\ IF n.gz THEN n = Gz(n.at) ELSE n = Plain(n.at)
<1>1. ASSUME NEW t
      PROVE  /\ Plain(t).at = t /\ Plain(t).gz = FALSE /\ Gz(t).at = t /\ Gz(t).gz = TRUE
             /\ t \in 0..MaxTime => Plain(t) \in Names /\ Gz(t) \in Names
  BY DEF Plain, Gz, Names
<1>2. ASSUME NEW n \in Names
      PROVE  /\ n.at \in 0..MaxTime /\ n.gz \in BOOLEAN
             /\ IF n.gz THEN n = Gz(n.at) ELSE n = Plain(n.at)
  BY DEF Plain, Gz, Names
<1> QED
  BY <1>1, <1>2

LEMMA WithIs ==
  ASSUME NEW f, NEW n, NEW x
  PROVE  /\ DOMAIN With(f, n, x) = DOMAIN f \cup {n} /\ With(f, n, x)[n] = x
         /\ \A m \in DOMAIN f : m # n => With(f, n, x)[m] = f[m]
BY DEF With

LEMMA DropIs ==
  ASSUME NEW n, Drop(n), DOMAIN modified = DOMAIN backups
  PROVE  /\ DOMAIN backups' = DOMAIN backups \ {n} /\ DOMAIN modified' = DOMAIN backups \ {n}
         /\ \A m \in DOMAIN backups : m # n => backups'[m] = backups[m] /\ modified'[m] = modified[m]
         /\ touched' = touched /\ modified' \in [DOMAIN backups' -> Range(modified)]
BY DEF Drop, Restrict, Range

LEMMA PutIs ==
  ASSUME NEW n, NEW x, Put(n, x), DOMAIN modified = DOMAIN backups
  PROVE  /\ DOMAIN backups' = DOMAIN backups \cup {n} /\ DOMAIN modified' = DOMAIN backups'
         /\ backups'[n] = x /\ modified'[n] = now /\ touched' = touched
         /\ \A m \in DOMAIN backups : m # n => backups'[m] = backups[m] /\ modified'[m] = modified[m]
<1> DEFINE B == With(backups, n, x)
           M == With(modified, n, now)
<1>1. backups' = B /\ modified' = M /\ touched' = touched
  BY DEF Put
<1>2. /\ DOMAIN B = DOMAIN backups \cup {n} /\ DOMAIN M = DOMAIN backups \cup {n}
      /\ B[n] = x /\ M[n] = now
      /\ \A m \in DOMAIN backups : m # n => B[m] = backups[m] /\ M[m] = modified[m]
  <2>1. /\ DOMAIN B = DOMAIN backups \cup {n} /\ B[n] = x
        /\ \A m \in DOMAIN backups : m # n => B[m] = backups[m]
    BY DEF With
  <2>2. /\ DOMAIN M = DOMAIN modified \cup {n} /\ M[n] = now
        /\ \A m \in DOMAIN modified : m # n => M[m] = modified[m]
    BY DEF With
  <2> HIDE DEF B, M
  <2> QED
    BY <2>1, <2>2
<1> HIDE DEF B, M
<1> QED
  BY <1>1, <1>2

\* The event in hand makes the active file one larger.
LEMMA ActiveGrows ==
  ASSUME TypeOK, OfferedIsNew, active # NoFile
  PROVE  /\ active \subseteq 1..N /\ IsFiniteSet(active) /\ Cardinality(active) \in Nat
         /\ Cardinality(active) <= N /\ offered \in Nat
         /\ step # "idle" =>
              /\ offered \in 1..N /\ offered \notin active
              /\ Cardinality(active) + 1 <= N
              /\ Cardinality(active \cup {offered}) = Cardinality(active) + 1
<1>1. /\ active \subseteq 1..N /\ offered \in Nat /\ offered <= N /\ N \in Nat
      /\ active \subseteq 1..(IF step = "idle" THEN offered ELSE offered - 1)
      /\ step # "idle" => offered # 0
  BY Parameters DEF TypeOK, OfferedIsNew
<1>2. ASSUME NEW k \in Nat
      PROVE  IsFiniteSet(1..k) /\ Cardinality(1..k) = k
  BY FS_Interval
<1>3. IsFiniteSet(active) /\ Cardinality(active) \in Nat /\ Cardinality(active) <= N
  <2>1. active \in SUBSET (1..N) /\ IsFiniteSet(1..N) /\ Cardinality(1..N) = N
    BY <1>1, <1>2
  <2>2. IsFiniteSet(active) /\ Cardinality(active) <= N
    BY <2>1, FS_Subset
  <2> QED
    BY <2>2, FS_CardinalityType
<1>4. ASSUME step # "idle"
      PROVE  /\ offered \in 1..N /\ offered \notin active /\ Cardinality(active) + 1 <= N
             /\ Cardinality(active \cup {offered}) = Cardinality(active) + 1
  <2>1. offered \in 1..N /\ offered - 1 \in Nat /\ active \in SUBSET (1..(offered - 1))
    BY <1>1, <1>4
  <2>2. Cardinality(active) <= offered - 1
    <3>1. IsFiniteSet(1..(offered - 1)) /\ Cardinality(1..(offered - 1)) = offered - 1
      BY <1>2, <2>1
    <3> QED
      BY <2>1, <3>1, FS_Subset
  <2>3. offered \notin active
    BY <1>1, <2>1
  <2>4. Cardinality(active) + 1 <= N
    BY <1>1, <1>3, <2>1, <2>2
  <2> QED
    BY <1>3, <2>1, <2>3, <2>4, FS_AddElement
<1> QED
  BY <1>1, <1>3, <1>4

-----------------------------------------------------------------------------
(* The writer *)

LEMMA FileInit == Init => FileInv
<1> SUFFICES ASSUME Init PROVE FileInv
  OBVIOUS
<1>1. DOMAIN backups = {} /\ DOMAIN modified = {} /\ modified \in [{} -> 0..MaxTime]
  BY DEF Init, NoBackups
<1>2. TypeOK
  <2>1. 0 \in 0..(IF MaxSize > 0 THEN MaxSize ELSE N) /\ 0 \in 0..N /\ 0 \in 0..MaxTime
        /\ 1 \in 1..MaxRuns
    BY Parameters
  <2>2. modified \in [DOMAIN backups -> 0..MaxTime]
    BY <1>1
  <2> QED
    BY <1>1, <2>1, <2>2 DEF Init, TypeOK, Steps
<1>3. FilesAreBounded
  BY <1>1 DEF Init, FilesAreBounded
<1>4. HandleIsActive /\ OfferedIsNew /\ NoFileIsAnnounced
  BY DEF Init, HandleIsActive, OfferedIsNew, NoFileIsAnnounced
<1>5. NamesAreTimes /\ RotationIsSafe /\ CleanersAreRight
  BY <1>1 DEF Init, NamesAreTimes, RotationIsSafe, CleanersAreRight
<1> QED
  BY <1>2, <1>3, <1>4, <1>5 DEF FileInv

\* The backups are left alone, and no rotation comes closer to one.
Quiet ==
  /\ UNCHANGED <<backups, modified, stamp>> /\ (now' = now \/ now' = now + 1)
  /\ touched' \in {touched, now}
  /\ step' = step \/ step' \notin {"compress", "fill", "remove"}

\* Every step leaves the backups alone, puts one, or drops one.
LEMMA FileStep ==
  ASSUME [Next]_vars
  PROVE  \/ Quiet
         \/ Rename \/ (Create /\ Put(Gz(stamp), {})) \/ (Fill /\ Put(Gz(stamp), backups[Plain(stamp)]))
         \/ (Remove /\ Drop(Plain(stamp)))
         \/ \E c \in cleaners : \E n \in c.todo : RemoveBackup /\ (n \in c.excess \/ Old(n, c.at)) /\ Drop(n)
<1>1. CASE Migrate \/ MigrateFails
  BY <1>1 DEF Migrate, OpenAs, MigrateFails, Touched, writerVars, timeVars, Quiet
<1>2. CASE Write \/ Close \/ RenameFails \/ ReopenFails \/ AppendFails
  BY <1>2 DEF Write, Close, RenameFails, ReopenFails, AppendFails, Unwritten, StepUnchanged, timeVars, Quiet
<1>3. CASE Create \/ Fill \/ Remove
  BY <1>3 DEF Create, Fill, Remove, StepUnchanged, timeVars, Quiet
<1>4. CASE Reopen \/ Append
  BY <1>4 DEF Reopen, Append, StepUnchanged, Touched, Quiet
<1>5. CASE ListBackups
  BY <1>5 DEF ListBackups, CleanerUnchanged, writerVars, timeVars, Quiet
<1>6. CASE RemoveBackup
  <2>1. PICK c \in cleaners : \E n \in c.todo :
          IF n \in c.excess \/ Old(n, c.at) THEN Drop(n) ELSE UNCHANGED <<backups, timeVars>>
    BY <1>6 DEF RemoveBackup
  <2>2. CASE UNCHANGED <<backups, timeVars>>
    BY <1>6, <2>2 DEF RemoveBackup, CleanerUnchanged, writerVars, timeVars, Quiet
  <2> QED
    BY <1>6, <2>1, <2>2
<1>7. CASE End \/ Restart \/ Tick \/ UNCHANGED vars
  BY <1>7 DEF End, Restart, Tick, vars, writerVars, timeVars, Quiet
<1> QED
  BY <1>1, <1>2, <1>3, <1>4, <1>5, <1>6, <1>7 DEF Next, Rotate, Cleanup, Ended, Idle

\* A backup that is put has the events it is given and the time.
LEMMA PutIsTyped ==
  ASSUME TypeOK, NEW n \in Names, NEW x \in SUBSET (1..N), NEW t \in 0..MaxTime,
         backups' = With(backups, n, x), modified' = With(modified, n, t)
  PROVE  /\ DOMAIN backups' \subseteq Names /\ \A m \in DOMAIN backups' : backups'[m] \subseteq 1..N
         /\ modified' \in [DOMAIN backups' -> 0..MaxTime]
<1>1. /\ DOMAIN backups \subseteq Names /\ \A m \in DOMAIN backups : backups[m] \subseteq 1..N
      /\ modified \in [DOMAIN backups -> 0..MaxTime]
  BY DEF TypeOK
<1> QED
  BY <1>1 DEF With

LEMMA DropIsTyped ==
  ASSUME TypeOK, NEW n, Drop(n)
  PROVE  /\ DOMAIN backups' \subseteq Names /\ \A m \in DOMAIN backups' : backups'[m] \subseteq 1..N
         /\ modified' \in [DOMAIN backups' -> 0..MaxTime] /\ touched' = touched
<1>1. /\ DOMAIN backups \subseteq Names /\ \A m \in DOMAIN backups : backups[m] \subseteq 1..N
      /\ modified \in [DOMAIN backups -> 0..MaxTime]
  BY DEF TypeOK
<1> QED
  BY <1>1 DEF Drop, Restrict

LEMMA TypedFiles ==
  ASSUME FileInv, [Next]_vars
  PROVE  /\ DOMAIN backups' \subseteq Names /\ \A m \in DOMAIN backups' : backups'[m] \subseteq 1..N
         /\ modified' \in [DOMAIN backups' -> 0..MaxTime]
<1>1. TypeOK /\ HandleIsActive /\ RotationIsSafe
  BY DEF FileInv
<1>2. /\ now \in 0..MaxTime /\ stamp \in 0..MaxTime /\ touched \in 0..MaxTime
      /\ active # NoFile => active \subseteq 1..N
      /\ \A m \in DOMAIN backups : backups[m] \subseteq 1..N
  BY <1>1 DEF TypeOK
<1>3. CASE Quiet
  BY <1>1, <1>3 DEF TypeOK, Quiet
<1>4. CASE Rename
  <2>1. backups' = With(backups, Plain(now), active) /\ modified' = With(modified, Plain(now), touched)
    BY <1>4 DEF Rename
  <2>2. active \subseteq 1..N
    BY <1>1, <1>2, <1>4 DEF HandleIsActive, Rename, At
  <2> QED
    BY <1>1, <1>2, <2>1, <2>2, PutIsTyped, NamesAre
<1>5. CASE Put(Gz(stamp), {})
  BY <1>1, <1>2, <1>5, PutIsTyped, NamesAre DEF Put
<1>6. CASE Fill /\ Put(Gz(stamp), backups[Plain(stamp)])
  <2>1. backups[Plain(stamp)] \in SUBSET (1..N)
    BY <1>1, <1>2, <1>6 DEF RotationIsSafe, Fill, At
  <2> QED
    BY <1>1, <1>2, <1>6, <2>1, PutIsTyped, NamesAre DEF Put
<1>7. CASE \E n : Drop(n)
  BY <1>1, <1>7, DropIsTyped
<1> QED
  BY <1>3, <1>4, <1>5, <1>6, <1>7, FileStep

\* What a cleanup has to do: to begin with nothing, then what it has listed, and less
\* with every step.
LEMMA CleanerStep ==
  ASSUME TypeOK, [Next]_vars
  PROVE  \/ cleaners' \subseteq cleaners
         \/ Reopen /\ cleaners' = cleaners \cup {Launched(offered)} /\ UNCHANGED <<now, backups, modified, stamp>>
         \/ /\ \E c \in cleaners : cleaners' \subseteq cleaners \cup
                 {[c EXCEPT !.listed = TRUE, !.at = now, !.excess = Excess,
                            !.todo = Excess \cup {n \in Listed : Old(n, now)}]}
            /\ UNCHANGED <<now, backups, modified, stamp, step, active>>
         \/ /\ \E c \in cleaners : \E n \in c.todo :
                 /\ cleaners' \subseteq cleaners \cup {[c EXCEPT !.todo = @ \ {n}, !.excess = @ \ {n}]}
                 /\ \/ (n \in c.excess \/ Old(n, c.at)) /\ Drop(n)
                    \/ UNCHANGED <<backups, modified, touched>>
            /\ UNCHANGED <<now, stamp, step, active>>
<1>1. CASE ListBackups
  <2>1. PICK c \in cleaners : Proceed(c, [c EXCEPT !.listed = TRUE, !.at = now, !.excess = Excess,
                              !.todo = Excess \cup {n \in Listed : Old(n, now)}])
    BY <1>1 DEF ListBackups
  <2>2. cleaners' \subseteq cleaners \cup
                 {[c EXCEPT !.listed = TRUE, !.at = now, !.excess = Excess,
                            !.todo = Excess \cup {n \in Listed : Old(n, now)}]}
    BY <2>1 DEF Proceed
  <2>3. UNCHANGED <<now, backups, modified, stamp, step, active>>
    BY <1>1 DEF ListBackups, CleanerUnchanged, writerVars, timeVars
  <2> QED
    BY <2>2, <2>3
<1>2. CASE RemoveBackup
  <2>1. PICK c \in cleaners : \E n \in c.todo :
          /\ IF n \in c.excess \/ Old(n, c.at) THEN Drop(n) ELSE UNCHANGED <<backups, timeVars>>
          /\ Proceed(c, [c EXCEPT !.todo = @ \ {n}, !.excess = @ \ {n}])
    BY <1>2 DEF RemoveBackup
  <2>2. PICK n \in c.todo :
          /\ IF n \in c.excess \/ Old(n, c.at) THEN Drop(n) ELSE UNCHANGED <<backups, timeVars>>
          /\ Proceed(c, [c EXCEPT !.todo = @ \ {n}, !.excess = @ \ {n}])
    BY <2>1
  <2>3. cleaners' \subseteq cleaners \cup {[c EXCEPT !.todo = @ \ {n}, !.excess = @ \ {n}]}
    BY <2>2 DEF Proceed
  <2>4. UNCHANGED <<now, stamp, step, active>>
    BY <1>2 DEF RemoveBackup, CleanerUnchanged, writerVars
  <2> QED
    BY <2>2, <2>3, <2>4 DEF timeVars
<1>3. CASE Reopen
  BY <1>3 DEF Reopen, StepUnchanged
<1>4. CASE ~ListBackups /\ ~RemoveBackup /\ ~Reopen
  BY <1>4 DEF Next, Migrate, OpenAs, MigrateFails, Write, Rotate, Close, Rename, RenameFails, Create,
     Fill, Remove, ReopenFails, Append, AppendFails, Unwritten, Cleanup, End, Restart, Tick, Ended,
     Idle, vars
<1> QED
  BY <1>1, <1>2, <1>3, <1>4

Cleaner == [of : 1..N, listed : BOOLEAN, at : 0..MaxTime, todo : SUBSET Names, excess : SUBSET Names]

LEMMA TypedCleaners ==
  ASSUME FileInv, [Next]_vars
  PROVE  \A c \in cleaners' : c \in Cleaner /\ c.excess \subseteq c.todo
<1>1. /\ TypeOK /\ OfferedIsNew
      /\ \A c \in cleaners : c \in Cleaner /\ c.excess \subseteq c.todo
      /\ now \in 0..MaxTime /\ offered \in 0..N /\ DOMAIN backups \subseteq Names
  BY DEF FileInv, TypeOK, Cleaner
<1>2. CASE cleaners' \subseteq cleaners
  BY <1>1, <1>2
<1>3. CASE Reopen /\ cleaners' = cleaners \cup {Launched(offered)}
  <2>1. offered \in 1..N
    BY <1>1, <1>3, Parameters DEF Reopen, At, OfferedIsNew
  <2>2. 0 \in 0..MaxTime
    BY Parameters
  <2>3. Launched(offered) \in Cleaner /\ Launched(offered).excess \subseteq Launched(offered).todo
    BY <2>1, <2>2 DEF Launched, Cleaner
  <2> QED
    BY <1>1, <1>3, <2>3
<1>4. ASSUME NEW c \in cleaners,
             cleaners' \subseteq cleaners \cup
                 {[c EXCEPT !.listed = TRUE, !.at = now, !.excess = Excess,
                            !.todo = Excess \cup {n \in Listed : Old(n, now)}]}
      PROVE  \A d \in cleaners' : d \in Cleaner /\ d.excess \subseteq d.todo
  <2> DEFINE S == {n \in Listed : Old(n, now)}
             d == [c EXCEPT !.listed = TRUE, !.at = now, !.excess = Excess, !.todo = Excess \cup S]
  <2>1. Excess \subseteq Names /\ S \subseteq Names
    BY <1>1 DEF Excess, Listed
  <2>2. c \in Cleaner
    BY <1>1
  <2>3. d \in Cleaner /\ d.excess \subseteq d.todo
    BY <1>1, <2>1, <2>2 DEF Cleaner
  <2> QED
    BY <1>1, <1>4, <2>3
<1>5. ASSUME NEW c \in cleaners, NEW n \in c.todo,
             cleaners' \subseteq cleaners \cup {[c EXCEPT !.todo = @ \ {n}, !.excess = @ \ {n}]}
      PROVE  \A d \in cleaners' : d \in Cleaner /\ d.excess \subseteq d.todo
  <2>1. c \in Cleaner /\ c.excess \subseteq c.todo
    BY <1>1
  <2> DEFINE d == [c EXCEPT !.todo = @ \ {n}, !.excess = @ \ {n}]
  <2>2. d \in Cleaner /\ d.excess \subseteq d.todo
    BY <2>1 DEF Cleaner
  <2> QED
    BY <1>1, <1>5, <2>2
<1> QED
  BY <1>1, <1>2, <1>3, <1>4, <1>5, CleanerStep

\* The rest of the types, w.size among them: a file that is open has room, or is rotated
\* before it is written to.
LEMMA TypedWriter ==
  ASSUME FileInv, [Next]_vars
  PROVE  /\ process' \in {"starting", "up", "down"} /\ runs' \in 1..MaxRuns /\ now' \in 0..MaxTime
         /\ handle' \in {"nil", "open", "closed"} /\ step' \in Steps
         /\ size' \in 0..(IF MaxSize > 0 THEN MaxSize ELSE N)
         /\ stamp' \in 0..MaxTime /\ offered' \in 0..N
         /\ active' = NoFile \/ active' \subseteq 1..N
         /\ touched' \in 0..MaxTime /\ silent' \subseteq 1..N /\ warned' \in BOOLEAN
<1>1. TypeOK /\ FilesAreBounded /\ HandleIsActive /\ OfferedIsNew
  BY DEF FileInv
<1>2. Touched \in 0..MaxTime
  BY <1>1 DEF TypeOK, Touched
<1>3. CASE Migrate
  <2>1. /\ process' = "up" /\ handle' = "open" /\ size' = Cardinality(active')
        /\ active' = (IF active = NoFile THEN {} ELSE active)
        /\ touched' = (IF active = NoFile THEN Touched ELSE touched)
        /\ UNCHANGED <<runs, now, step, stamp, offered, silent, warned>>
    BY <1>3 DEF Migrate, OpenAs, resultVars
  <2>2. size' \in 0..(IF MaxSize > 0 THEN MaxSize ELSE N) /\ active' \subseteq 1..N
    <3>1. CASE active = NoFile
      BY <2>1, <3>1, FS_EmptySet, Parameters
    <3>2. CASE active # NoFile
      BY <1>1, <2>1, <3>2, ActiveGrows, Parameters DEF FilesAreBounded
    <3> QED
      BY <3>1, <3>2
  <2> QED
    BY <1>1, <1>2, <2>1, <2>2 DEF TypeOK
<1>4. CASE MigrateFails
  BY <1>1, <1>4 DEF MigrateFails, TypeOK, writerVars, timeVars
<1>5. CASE Write
  <2>1. offered + 1 \in 1..N
    BY <1>1, <1>5, Parameters DEF Write, TypeOK
  <2>2. offered' \in 1..N /\ silent' \subseteq 1..N
    BY <1>1, <1>5, <2>1 DEF Write, TypeOK
  <2>3. step' \in Steps
    BY <1>1, <1>5 DEF Write, TypeOK, Steps
  <2>4. UNCHANGED <<process, runs, now, handle, size, stamp, active, touched, warned>>
    BY <1>5 DEF Write, timeVars
  <2> QED
    BY <1>1, <2>2, <2>3, <2>4 DEF TypeOK
<1>6. CASE Close \/ RenameFails \/ ReopenFails
  BY <1>1, <1>6 DEF Close, RenameFails, ReopenFails, StepUnchanged, TypeOK, Steps, timeVars, resultVars
<1>7. CASE Rename
  BY <1>1, <1>7 DEF Rename, StepUnchanged, TypeOK, Steps, resultVars
<1>8. CASE Create \/ Fill \/ Remove
  BY <1>1, <1>8 DEF Create, Fill, Remove, Put, Drop, StepUnchanged, TypeOK, Steps, timeVars, resultVars
<1>9. CASE Reopen
  <2>1. 0 \in 0..(IF MaxSize > 0 THEN MaxSize ELSE N)
    BY Parameters
  <2> QED
    BY <1>1, <1>2, <1>9, <2>1 DEF Reopen, StepUnchanged, TypeOK, Steps, resultVars
<1>10. CASE Append
  <2>1. /\ active # NoFile /\ size = Cardinality(active) /\ ~Full /\ step # "idle"
        /\ active' = active \cup {offered} /\ size' = size + 1 /\ step' = "idle" /\ touched' = Touched
        /\ UNCHANGED <<process, runs, now, handle, stamp, offered, silent, warned>>
    BY <1>1, <1>10 DEF Append, At, HandleIsActive, StepUnchanged, resultVars
  <2>2. /\ active \subseteq 1..N /\ Cardinality(active) \in Nat /\ offered \in 1..N
        /\ Cardinality(active) + 1 <= N
    BY <1>1, <2>1, ActiveGrows
  <2>3. size + 1 \in 0..(IF MaxSize > 0 THEN MaxSize ELSE N)
    BY <2>1, <2>2, Parameters DEF Full
  <2> QED
    BY <1>1, <1>2, <2>1, <2>2, <2>3 DEF TypeOK, Steps
<1>11. CASE AppendFails
  BY <1>1, <1>11 DEF AppendFails, Unwritten, StepUnchanged, TypeOK, Steps, timeVars
<1>12. CASE Cleanup
  <2>1. UNCHANGED <<process, runs, now, writerVars, active, resultVars>> /\ touched' = touched
    BY <1>12 DEF Cleanup, ListBackups, RemoveBackup, Drop, CleanerUnchanged, timeVars
  <2> QED
    BY <1>1, <2>1 DEF TypeOK, writerVars, resultVars
<1>13. CASE End
  BY <1>1, <1>13 DEF End, TypeOK, writerVars, timeVars, resultVars
<1>14. CASE Restart
  <2>1. 0 \in 0..(IF MaxSize > 0 THEN MaxSize ELSE N)
    BY Parameters
  <2>2. runs + 1 \in 1..MaxRuns
    BY <1>1, <1>14, Parameters DEF Restart, TypeOK
  <2> QED
    BY <1>1, <1>14, <2>1, <2>2 DEF Restart, TypeOK, Steps, timeVars
<1>15. CASE Tick
  <2>1. now + 1 \in 0..MaxTime
    BY <1>1, <1>15, Parameters DEF Tick, TypeOK
  <2> QED
    BY <1>1, <1>15, <2>1 DEF Tick, TypeOK, writerVars, timeVars, resultVars
<1>16. CASE UNCHANGED vars
  BY <1>1, <1>16 DEF TypeOK, vars, writerVars, timeVars, resultVars
<1> QED
  BY <1>3, <1>4, <1>5, <1>6, <1>7, <1>8, <1>9, <1>10, <1>11, <1>12, <1>13, <1>14, <1>15, <1>16
     DEF Next, Rotate, Ended, Idle

LEMMA Typed == FileInv /\ [Next]_vars => TypeOK'
<1> SUFFICES ASSUME FileInv, [Next]_vars PROVE TypeOK'
  OBVIOUS
<1>1. /\ DOMAIN backups' \subseteq Names /\ \A m \in DOMAIN backups' : backups'[m] \subseteq 1..N
      /\ modified' \in [DOMAIN backups' -> 0..MaxTime]
  BY TypedFiles
<1>2. \A c \in cleaners' :
        /\ c \in [of : 1..N, listed : BOOLEAN, at : 0..MaxTime,
                  todo : SUBSET Names, excess : SUBSET Names]
        /\ c.excess \subseteq c.todo
  BY TypedCleaners DEF Cleaner
<1> QED
  BY <1>1, <1>2, TypedWriter DEF TypeOK

\* The step of Write and the file: what each action does to them
LEMMA Handled ==
  ASSUME FileInv, [Next]_vars
  PROVE  HandleIsActive' /\ OfferedIsNew' /\ NoFileIsAnnounced'
<1>1. TypeOK /\ FilesAreBounded /\ HandleIsActive /\ OfferedIsNew /\ NoFileIsAnnounced
  BY DEF FileInv
<1>2. /\ offered \in Nat /\ N \in Nat /\ size \in Nat /\ MaxSize \in Nat /\ {} # NoFile
      /\ active # NoFile =>
           /\ active \subseteq 1..N /\ IsFiniteSet(active) /\ Cardinality(active) \in Nat
           /\ step # "idle" => Cardinality(active \cup {offered}) = Cardinality(active) + 1
  <2>1. {} # NoFile /\ offered \in Nat /\ size \in Nat
    BY <1>1, Parameters DEF TypeOK
  <2> QED
    BY <1>1, <2>1, Parameters, ActiveGrows
<1>3. Cardinality({}) = 0
  BY FS_EmptySet
<1>4. CASE Migrate
  <2>1. /\ process = "starting" /\ process' = "up" /\ handle' = "open" /\ size' = Cardinality(active')
        /\ active' = (IF active = NoFile THEN {} ELSE active) /\ step = "idle"
        /\ UNCHANGED <<step, offered>>
    BY <1>1, <1>4 DEF Migrate, OpenAs, HandleIsActive
  <2> QED
    BY <1>1, <1>2, <2>1 DEF HandleIsActive, OfferedIsNew, NoFileIsAnnounced
<1>5. CASE MigrateFails
  BY <1>1, <1>5 DEF MigrateFails, writerVars, HandleIsActive, OfferedIsNew, NoFileIsAnnounced, Full
<1>6. CASE Write
  <2>1. /\ process = "up" /\ step = "idle" /\ offered' = offered + 1
        /\ IF handle = "nil" THEN step' = step ELSE step' = (IF Full THEN "close" ELSE "append")
        /\ UNCHANGED <<process, handle, size, active, warned>>
    BY <1>6 DEF Write, At
  <2>2. HandleIsActive' /\ NoFileIsAnnounced'
    BY <1>1, <2>1 DEF HandleIsActive, NoFileIsAnnounced, Full
  <2>3. OfferedIsNew'
    BY <1>1, <1>2, <2>1 DEF OfferedIsNew
  <2> QED
    BY <2>2, <2>3
<1>7. CASE Close
  <2>1. /\ process = "up" /\ step = "close" /\ Full
        /\ \/ handle = "open" /\ handle' = "nil" /\ step' = "rename"
           \/ handle' = "closed" /\ step' = "append"
        /\ UNCHANGED <<process, size, active, offered, warned>>
    BY <1>1, <1>7 DEF Close, At, HandleIsActive, StepUnchanged, resultVars
  <2>2. handle = "open" => active \notin {NoFile, {}}
    BY <1>1, <1>2, <1>3, <2>1 DEF HandleIsActive, Full
  <2> QED
    BY <1>1, <2>1, <2>2 DEF HandleIsActive, OfferedIsNew, NoFileIsAnnounced
<1>8. CASE Rename
  BY <1>1, <1>2, <1>8 DEF Rename, At, StepUnchanged, resultVars, HandleIsActive, OfferedIsNew,
     NoFileIsAnnounced
<1>9. CASE RenameFails
  BY <1>1, <1>9 DEF RenameFails, At, StepUnchanged, resultVars, HandleIsActive, OfferedIsNew,
     NoFileIsAnnounced
<1>10. CASE Create \/ Fill \/ Remove
  BY <1>1, <1>10 DEF Create, Fill, Remove, At, StepUnchanged, resultVars, HandleIsActive,
     OfferedIsNew, NoFileIsAnnounced
<1>11. CASE Reopen
  <2>1. /\ process = "up" /\ step = "reopen" /\ step' = "append" /\ active' = {} /\ handle' = "open"
        /\ size' = 0 /\ UNCHANGED <<process, offered>>
    BY <1>11 DEF Reopen, At, StepUnchanged
  <2> QED
    BY <1>1, <1>2, <1>3, <2>1 DEF HandleIsActive, OfferedIsNew, NoFileIsAnnounced, Full
<1>12. CASE ReopenFails
  BY <1>1, <1>12 DEF ReopenFails, At, StepUnchanged, resultVars, HandleIsActive, OfferedIsNew,
     NoFileIsAnnounced
<1>13. CASE Append
  <2>1. /\ process = "up" /\ step = "append" /\ handle = "open" /\ active # NoFile
        /\ size = Cardinality(active) /\ offered # 0
        /\ active' = active \cup {offered} /\ size' = size + 1 /\ step' = "idle"
        /\ UNCHANGED <<process, handle, offered>>
    BY <1>1, <1>13 DEF Append, At, StepUnchanged, HandleIsActive, OfferedIsNew
  <2>2. active' # NoFile
    <3>1. active' \subseteq 1..N
      BY <1>1, <1>2, <2>1, ActiveGrows
    <3> QED
      BY <3>1, Parameters
  <2>3. size' = Cardinality(active')
    BY <1>2, <2>1
  <2>4. HandleIsActive' /\ NoFileIsAnnounced'
    BY <2>1, <2>2, <2>3 DEF HandleIsActive, NoFileIsAnnounced
  <2>5. OfferedIsNew'
    BY <1>1, <1>2, <2>1 DEF OfferedIsNew
  <2> QED
    BY <2>4, <2>5
<1>14. CASE AppendFails
  <2>1. /\ process = "up" /\ step = "append" /\ warned' = TRUE /\ step' = "idle"
        /\ UNCHANGED <<process, handle, size, active, offered>>
    BY <1>14 DEF AppendFails, Unwritten, At, StepUnchanged
  <2> QED
    BY <1>1, <1>2, <2>1 DEF HandleIsActive, OfferedIsNew, NoFileIsAnnounced
<1>15. CASE Cleanup \/ Tick \/ UNCHANGED vars
  <2>1. UNCHANGED <<process, handle, size, step, offered, active, warned>>
    BY <1>15 DEF Cleanup, ListBackups, RemoveBackup, CleanerUnchanged, Tick, vars, writerVars, resultVars
  <2> QED
    BY <1>1, <2>1 DEF HandleIsActive, OfferedIsNew, NoFileIsAnnounced, Full
<1>16. CASE End
  BY <1>1, <1>16 DEF End, writerVars, resultVars, HandleIsActive, OfferedIsNew, NoFileIsAnnounced, Full
<1>17. CASE Restart
  <2>1. /\ process' = "starting" /\ handle' = "nil" /\ step' = "idle" /\ UNCHANGED <<active, offered>>
    BY <1>17 DEF Restart
  <2> QED
    BY <1>1, <1>2, <2>1 DEF HandleIsActive, OfferedIsNew, NoFileIsAnnounced
<1> QED
  BY <1>4, <1>5, <1>6, <1>7, <1>8, <1>9, <1>10, <1>11, <1>12, <1>13, <1>14, <1>15, <1>16, <1>17
     DEF Next, Rotate, Ended, Idle

\* No file grows beyond its bound.
LEMMA Bounded ==
  ASSUME FileInv, [Next]_vars
  PROVE  FilesAreBounded'
<1> SUFFICES ASSUME MaxSize > 0
             PROVE  /\ active' # NoFile => Cardinality(active') <= MaxSize
                    /\ \A n \in DOMAIN backups' : Cardinality(backups'[n]) <= MaxSize
  BY DEF FilesAreBounded
<1>1. /\ TypeOK /\ HandleIsActive /\ OfferedIsNew /\ RotationIsSafe /\ MaxSize \in Nat
      /\ active # NoFile => Cardinality(active) <= MaxSize
      /\ \A n \in DOMAIN backups : Cardinality(backups[n]) <= MaxSize
      /\ Cardinality({}) = 0
  BY Parameters, FS_EmptySet DEF FileInv, FilesAreBounded
<1>2. DOMAIN modified = DOMAIN backups
  BY <1>1 DEF TypeOK
<1>3. active' # NoFile => Cardinality(active') <= MaxSize
  <2>1. CASE Append
    <3>1. active # NoFile /\ size = Cardinality(active) /\ ~Full /\ step # "idle"
          /\ active' = active \cup {offered}
      BY <1>1, <2>1 DEF Append, At, HandleIsActive
    <3>2. Cardinality(active) \in Nat /\ Cardinality(active \cup {offered}) = Cardinality(active) + 1
      BY <1>1, <3>1, ActiveGrows
    <3> QED
      BY <1>1, <3>1, <3>2 DEF Full
  <2>2. CASE active' \in {active, {}, NoFile}
    BY <1>1, <2>2
  <2>3. Append \/ active' \in {active, {}, NoFile}
    BY DEF Next, Migrate, OpenAs, MigrateFails, Write, Rotate, Close, Rename, RenameFails, Create,
       Fill, Remove, Reopen, ReopenFails, AppendFails, Unwritten, Cleanup, ListBackups, RemoveBackup,
       CleanerUnchanged, End, Restart, Tick, Ended, Idle, vars
  <2> QED
    BY <2>1, <2>2, <2>3
<1>4. \A n \in DOMAIN backups' : Cardinality(backups'[n]) <= MaxSize
  <2>1. CASE Quiet
    BY <1>1, <2>1 DEF Quiet
  <2>2. CASE Rename
    <3>1. backups' = With(backups, Plain(now), active) /\ active # NoFile
      BY <1>1, <2>2 DEF Rename, At, HandleIsActive
    <3> QED
      BY <1>1, <3>1 DEF With
  <2>3. CASE Put(Gz(stamp), {})
    <3>1. /\ DOMAIN backups' = DOMAIN backups \cup {Gz(stamp)} /\ backups'[Gz(stamp)] = {}
          /\ \A m \in DOMAIN backups : m # Gz(stamp) => backups'[m] = backups[m]
      BY <1>2, <2>3, PutIs
    <3> QED
      BY <1>1, <3>1
  <2>4. CASE Fill /\ Put(Gz(stamp), backups[Plain(stamp)])
    <3>1. Cardinality(backups[Plain(stamp)]) <= MaxSize
      BY <1>1, <2>4 DEF RotationIsSafe, Fill, At
    <3> QED
      BY <1>1, <1>2, <2>4, <3>1, PutIs
  <2>5. CASE \E n : Drop(n)
    BY <1>1, <1>2, <2>5, DropIs
  <2> QED
    BY <2>1, <2>2, <2>3, <2>4, <2>5, FileStep
<1> QED
  BY <1>3, <1>4

-----------------------------------------------------------------------------
(* The backups *)

LEMMA TimedNames ==
  ASSUME FileInv, [Next]_vars
  PROVE  NamesAreTimes'
<1>1. /\ TypeOK /\ NamesAreTimes /\ RotationIsSafe /\ DOMAIN modified = DOMAIN backups
      /\ DOMAIN backups \subseteq Names /\ \A n \in DOMAIN backups : modified[n] \in Nat
      /\ now \in Nat /\ stamp \in Nat /\ touched \in Nat
  BY Parameters DEF FileInv, TypeOK
<1>2. /\ stamp <= now /\ touched <= now
      /\ \A n \in DOMAIN backups :
           /\ n \in Names /\ n.at \in Nat /\ n.at <= stamp /\ modified[n] <= now
           /\ n.at < stamp => modified[n] <= stamp
           /\ \A m \in DOMAIN backups : n.at < m.at => modified[n] <= m.at
           /\ IF n.gz THEN Compress /\ n.at <= modified[n] ELSE modified[n] <= n.at
  BY <1>1, NamesAre DEF NamesAreTimes
<1>3. CASE Quiet
  BY <1>1, <1>2, <1>3 DEF NamesAreTimes, Quiet
<1>4. CASE Rename
  <2>1. /\ backups' = With(backups, Plain(now), active) /\ modified' = With(modified, Plain(now), touched)
        /\ stamp' = now /\ now' = now /\ touched' = touched
    BY <1>4 DEF Rename, StepUnchanged
  <2>2. /\ DOMAIN backups' = DOMAIN backups \cup {Plain(now)} /\ modified'[Plain(now)] = touched
        /\ \A m \in DOMAIN backups : m # Plain(now) => modified'[m] = modified[m]
    BY <1>1, <2>1 DEF With
  <2>3. Plain(now).at = now /\ Plain(now).gz = FALSE
    BY NamesAre
  <2> QED
    BY <1>1, <1>2, <2>1, <2>2, <2>3 DEF NamesAreTimes
<1>5. ASSUME NEW x, Put(Gz(stamp), x), Create \/ Fill
      PROVE  NamesAreTimes'
  <2>1. /\ DOMAIN backups' = DOMAIN backups \cup {Gz(stamp)} /\ modified'[Gz(stamp)] = now
        /\ touched' = touched
        /\ \A m \in DOMAIN backups : m # Gz(stamp) => modified'[m] = modified[m]
    BY <1>1, <1>5, PutIs
  <2>2. stamp' = stamp /\ now' = now /\ Compress
    BY <1>1, <1>5 DEF Create, Fill, At, RotationIsSafe, StepUnchanged
  <2>3. Gz(stamp).at = stamp /\ Gz(stamp).gz = TRUE
    BY NamesAre
  <2> QED
    BY <1>1, <1>2, <2>1, <2>2, <2>3 DEF NamesAreTimes
<1>6. ASSUME NEW n, Drop(n), Remove \/ RemoveBackup
      PROVE  NamesAreTimes'
  <2>1. /\ DOMAIN backups' = DOMAIN backups \ {n} /\ touched' = touched
        /\ \A m \in DOMAIN backups : m # n => modified'[m] = modified[m]
    BY <1>1, <1>6, DropIs
  <2>2. stamp' = stamp /\ now' = now
    BY <1>6 DEF Remove, RemoveBackup, StepUnchanged, CleanerUnchanged, writerVars
  <2> QED
    BY <1>2, <2>1, <2>2 DEF NamesAreTimes
<1> QED
  BY <1>3, <1>4, <1>5, <1>6, FileStep

\* What a rotation still needs is not taken away before its time.
LEMMA SafeRotation ==
  ASSUME FileInv, [Next]_vars
  PROVE  RotationIsSafe'
<1>1. /\ TypeOK /\ HandleIsActive /\ NamesAreTimes /\ RotationIsSafe /\ CleanersAreRight
      /\ DOMAIN modified = DOMAIN backups
      /\ DOMAIN backups \subseteq Names /\ \A n \in DOMAIN backups : modified[n] \in Nat
      /\ now \in Nat /\ stamp \in Nat /\ MaxAge \in Nat
      /\ \A c \in cleaners : c.at \in Nat /\ c.excess \subseteq c.todo
  BY Parameters DEF FileInv, TypeOK
<1>2. /\ \A n \in DOMAIN backups : backups[n] # {} \/ (n.gz /\ Plain(n.at) \in DOMAIN backups)
      /\ step \in {"compress", "fill", "remove"} => Compress /\ Plain(stamp) \in DOMAIN backups
      /\ step = "fill" /\ Gz(stamp) \in DOMAIN backups => backups[Gz(stamp)] = {}
      /\ step = "remove" =>
           IF Gz(stamp) \in DOMAIN backups THEN backups[Gz(stamp)] = backups[Plain(stamp)]
           ELSE MaxAge > 0 /\ now - stamp > MaxAge
  BY <1>1 DEF RotationIsSafe
<1>3. /\ \A t : /\ Plain(t).at = t /\ Plain(t).gz = FALSE /\ Gz(t).at = t /\ Gz(t).gz = TRUE
                /\ Plain(t) # Gz(t)
      /\ \A n \in Names : IF n.gz THEN n = Gz(n.at) ELSE n = Plain(n.at)
  BY NamesAre
<1>4. CASE Rename
  <2>1. /\ DOMAIN backups' = DOMAIN backups \cup {Plain(now)} /\ backups'[Plain(now)] = active
        /\ \A m \in DOMAIN backups : m # Plain(now) => backups'[m] = backups[m]
    BY <1>4 DEF Rename, With
  <2>2. stamp' = now /\ step' = (IF Compress THEN "compress" ELSE "reopen") /\ active # {}
    BY <1>1, <1>4 DEF Rename, At, HandleIsActive
  <2> QED
    BY <1>2, <1>3, <2>1, <2>2 DEF RotationIsSafe
<1>5. CASE Create /\ Put(Gz(stamp), {})
  <2>1. /\ DOMAIN backups' = DOMAIN backups \cup {Gz(stamp)} /\ backups'[Gz(stamp)] = {}
        /\ \A m \in DOMAIN backups : m # Gz(stamp) => backups'[m] = backups[m]
    BY <1>1, <1>5, PutIs
  <2>2. stamp' = stamp /\ step = "compress" /\ step' \in {"fill", "reopen"}
    BY <1>5 DEF Create, At
  <2> QED
    BY <1>2, <1>3, <2>1, <2>2 DEF RotationIsSafe
<1>6. CASE Fill /\ Put(Gz(stamp), backups[Plain(stamp)])
  <2>1. /\ DOMAIN backups' = DOMAIN backups \cup {Gz(stamp)}
        /\ backups'[Gz(stamp)] = backups[Plain(stamp)]
        /\ \A m \in DOMAIN backups : m # Gz(stamp) => backups'[m] = backups[m]
    BY <1>1, <1>6, PutIs
  <2>2. stamp' = stamp /\ step = "fill" /\ step' \in {"remove", "reopen"}
    BY <1>6 DEF Fill, At
  <2> QED
    BY <1>2, <1>3, <2>1, <2>2 DEF RotationIsSafe
<1>7. CASE Remove /\ Drop(Plain(stamp))
  <2>1. /\ DOMAIN backups' = DOMAIN backups \ {Plain(stamp)}
        /\ \A m \in DOMAIN backups : m # Plain(stamp) => backups'[m] = backups[m]
    BY <1>1, <1>7, DropIs
  <2>2. step' = "reopen" /\ step = "remove"
    BY <1>7 DEF Remove, At
  <2>3. ASSUME NEW n \in DOMAIN backups'
        PROVE  backups'[n] # {} \/ (n.gz /\ Plain(n.at) \in DOMAIN backups')
    <3>1. CASE n = Gz(stamp)
      BY <1>2, <1>3, <2>1, <2>2, <3>1
    <3>2. CASE n # Gz(stamp)
      <4>1. n \in Names /\ (n.gz => n = Gz(n.at))
        BY <1>1, <1>3, <2>1
      <4>2. n.gz => Plain(n.at) # Plain(stamp)
        BY <1>3, <3>2, <4>1
      <4> QED
        BY <1>2, <2>1, <4>2
    <3> QED
      BY <3>1, <3>2
  <2> QED
    BY <2>2, <2>3 DEF RotationIsSafe
<1>8. CASE Quiet
  BY <1>1, <1>2, <1>8 DEF RotationIsSafe, Quiet
<1>9. ASSUME NEW c \in cleaners, NEW n \in c.todo, RemoveBackup, n \in c.excess \/ Old(n, c.at), Drop(n)
      PROVE  RotationIsSafe'
  <2>1. /\ DOMAIN backups' = DOMAIN backups \ {n}
        /\ \A m \in DOMAIN backups : m # n => backups'[m] = backups[m]
    BY <1>1, <1>9, DropIs
  <2>2. UNCHANGED <<stamp, step, now>>
    BY <1>9 DEF RemoveBackup, CleanerUnchanged, writerVars
  <2>3. CASE Compress
    <3>1. n.gz /\ c.at <= now /\ (n \in c.excess => n.at < stamp)
      BY <1>1, <2>3 DEF CleanersAreRight
    <3>2. \A t : n # Plain(t)
      BY <1>3, <3>1
    <3>3. n = Gz(stamp) /\ n \in DOMAIN backups => MaxAge > 0 /\ now - stamp > MaxAge
      <4> SUFFICES ASSUME n = Gz(stamp), n \in DOMAIN backups
                   PROVE  MaxAge > 0 /\ now - stamp > MaxAge
        OBVIOUS
      <4>1. n \notin c.excess
        BY <1>1, <1>3, <3>1
      <4>2. MaxAge > 0 /\ c.at - modified[n] > MaxAge
        BY <1>9, <4>1 DEF Old
      <4>3. modified[n] >= stamp
        BY <1>1, <1>3, <3>1 DEF NamesAreTimes
      <4> QED
        BY <1>1, <3>1, <4>2, <4>3
    <3>4. \A t : Plain(t) \in DOMAIN backups => Plain(t) \in DOMAIN backups' /\ backups'[Plain(t)] = backups[Plain(t)]
      BY <2>1, <3>2
    <3>5. \A m \in DOMAIN backups' : backups'[m] # {} \/ (m.gz /\ Plain(m.at) \in DOMAIN backups')
      BY <1>2, <2>1, <3>4
    <3> QED
      BY <1>2, <2>1, <2>2, <3>3, <3>4, <3>5 DEF RotationIsSafe
  <2>4. CASE ~Compress
    <3>1. \A m \in DOMAIN backups : ~m.gz
      BY <1>1, <2>4 DEF NamesAreTimes
    <3> QED
      BY <1>2, <2>1, <2>2, <2>4, <3>1 DEF RotationIsSafe
  <2> QED
    BY <2>3, <2>4
<1> QED
  BY <1>4, <1>5, <1>6, <1>7, <1>8, <1>9, FileStep

\* Time goes on, and so do the names of the backups.
LEMMA TimeGoesOn ==
  ASSUME FileInv, [Next]_vars
  PROVE  now' \in Nat /\ now <= now' /\ stamp' \in Nat /\ stamp <= stamp'
<1>1. /\ now \in Nat /\ stamp \in Nat /\ now' \in Nat /\ stamp' \in Nat /\ stamp <= now
  BY Typed DEF FileInv, TypeOK, NamesAreTimes
<1>2. Rename => now' = now /\ stamp' = now
  BY DEF Rename, StepUnchanged
<1>3. Create \/ Fill \/ Remove \/ RemoveBackup => now' = now /\ stamp' = stamp
  BY DEF Create, Fill, Remove, RemoveBackup, StepUnchanged, CleanerUnchanged, writerVars
<1> QED
  BY <1>1, <1>2, <1>3, FileStep DEF Quiet

LEMMA RotatedIsFinite ==
  ASSUME TypeOK, NEW t
  PROVE  /\ RotatedAfter(t) \subseteq 0..MaxTime /\ IsFiniteSet(RotatedAfter(t))
         /\ Cardinality(RotatedAfter(t)) \in Nat
<1>1. RotatedAfter(t) \in SUBSET (0..MaxTime)
  BY NamesAre DEF TypeOK, RotatedAfter
<1>2. IsFiniteSet(0..MaxTime)
  BY Parameters, FS_Interval
<1> QED
  BY <1>1, <1>2, FS_Subset, FS_CardinalityType

\* A backup in excess has MaxBackups later rotations, whose events are on the disk.
LEMMA ExcessIsRotated ==
  ASSUME FileInv, Compress, NEW n \in Excess
  PROVE  /\ MaxBackups > 0 /\ n.at < stamp
         /\ Cardinality(RotatedAfter(n.at)) >= MaxBackups
<1> DEFINE newer == {m \in Listed : Newer(m, n)}
           f == [m \in newer |-> m.at]
<1>1. /\ TypeOK /\ NamesAreTimes /\ RotationIsSafe /\ MaxBackups \in Nat
      /\ DOMAIN backups \subseteq Names /\ n \in Names /\ n.gz
  BY Parameters DEF FileInv, TypeOK, Excess, Listed
<1>2. MaxBackups > 0 /\ Cardinality(newer) >= MaxBackups
  <2>1. MaxBackups > 0 /\ Cardinality(newer) + 0 >= MaxBackups
    BY DEF Excess, Ahead
  <2>2. IsFiniteSet(newer)
    <3>1. newer \in SUBSET {Gz(t) : t \in 0..MaxTime}
      BY <1>1, NamesAre DEF Listed
    <3>2. IsFiniteSet({Gz(t) : t \in 0..MaxTime})
      <4>1. IsFiniteSet(0..MaxTime)
        BY Parameters, FS_Interval
      <4> DEFINE g == [t \in 0..MaxTime |-> Gz(t)]
                 T == {Gz(t) : t \in 0..MaxTime}
      <4>2. g \in Surjection(0..MaxTime, T)
        BY DEF Surjection
      <4> HIDE DEF g, T
      <4>3. IsFiniteSet(T)
        BY <4>1, <4>2, FS_Surjection
      <4> QED
        BY <4>3 DEF T
    <3> QED
      BY <3>1, <3>2, FS_Subset
  <2>3. Cardinality(newer) \in Nat
    BY <2>2, FS_CardinalityType
  <2> QED
    BY <2>1, <2>3
<1>3. \A m \in newer : /\ m \in DOMAIN backups /\ m \in Names /\ m.gz /\ m.at > n.at /\ m = Gz(m.at)
                       /\ m.at <= stamp
  BY <1>1, NamesAre DEF Listed, Newer, NamesAreTimes
<1>4. \A m \in newer : m.at \in RotatedAfter(n.at)
  <2> SUFFICES ASSUME NEW m \in newer PROVE m.at \in RotatedAfter(n.at)
    OBVIOUS
  <2>1. CASE backups[m] # {}
    BY <1>3, <2>1 DEF RotatedAfter
  <2>2. CASE backups[m] = {}
    <3>1. Plain(m.at) \in DOMAIN backups /\ Plain(m.at).at = m.at /\ ~Plain(m.at).gz
      BY <1>1, <1>3, <2>2, NamesAre DEF RotationIsSafe
    <3>2. backups[Plain(m.at)] # {}
      BY <1>1, <3>1 DEF RotationIsSafe
    <3> QED
      BY <1>3, <3>1, <3>2 DEF RotatedAfter
  <2> QED
    BY <2>1, <2>2
<1>5. f \in Injection(newer, RotatedAfter(n.at))
  BY <1>3, <1>4 DEF Injection, IsInjective
<1>6. /\ IsFiniteSet(RotatedAfter(n.at)) /\ Cardinality(RotatedAfter(n.at)) \in Nat
      /\ IsFiniteSet(newer) /\ Cardinality(newer) <= Cardinality(RotatedAfter(n.at))
  <2> HIDE DEF newer, f
  <2> QED
    BY <1>1, <1>5, RotatedIsFinite, FS_Injection
<1>7. Cardinality(newer) \in Nat
  BY <1>6, FS_CardinalityType
<1>8. newer # {}
  <2> HIDE DEF newer
  <2> QED
    BY <1>1, <1>2, FS_EmptySet
<1>9. n.at < stamp
  <2>1. PICK m \in newer : TRUE
    BY <1>8
  <2>2. n.at \in Nat /\ m.at \in Nat /\ stamp \in Nat
    BY <1>1, <1>3, NamesAre DEF TypeOK
  <2> QED
    BY <1>3, <2>1, <2>2
<1> QED
  BY <1>1, <1>2, <1>6, <1>7, <1>9

\* Rotated events stay on the disk, or leave it with the reasons the older ones need.
LEMMA RotatedStays ==
  ASSUME FileInv, Compress, [Next]_vars, NEW t \in Nat,
         ~ \E c \in cleaners : \E n \in c.todo : RemoveBackup /\ (n \in c.excess \/ Old(n, c.at)) /\ Drop(n)
  PROVE  \/ RotatedAfter(t) \subseteq RotatedAfter(t)'
         \/ Remove /\ Drop(Plain(stamp)) /\ MaxAge > 0 /\ now - stamp > MaxAge
<1>1. /\ RotationIsSafe /\ HandleIsActive /\ DOMAIN modified = DOMAIN backups
      /\ DOMAIN backups \subseteq Names
  BY DEF FileInv, TypeOK
<1>2. /\ \A s : /\ Plain(s).at = s /\ Plain(s).gz = FALSE /\ Gz(s).at = s /\ Gz(s).gz = TRUE
                /\ Plain(s) # Gz(s)
      /\ \A n \in Names : IF n.gz THEN n = Gz(n.at) ELSE n = Plain(n.at)
  BY NamesAre
<1>3. ASSUME \A m \in DOMAIN backups :
               backups[m] # {} => \E k \in DOMAIN backups' : k.at = m.at /\ backups'[k] # {}
      PROVE  RotatedAfter(t) \subseteq RotatedAfter(t)'
  BY <1>3 DEF RotatedAfter
<1>4. CASE Quiet
  BY <1>4 DEF Quiet, RotatedAfter
<1>5. CASE Rename
  <2>1. /\ DOMAIN backups' = DOMAIN backups \cup {Plain(now)} /\ backups'[Plain(now)] = active
        /\ \A m \in DOMAIN backups : m # Plain(now) => backups'[m] = backups[m]
    BY <1>5 DEF Rename, With
  <2>2. active # {}
    BY <1>1, <1>5 DEF Rename, At, HandleIsActive
  <2> QED
    BY <1>3, <2>1, <2>2
<1>6. CASE Create /\ Put(Gz(stamp), {})
  <2>1. /\ DOMAIN backups' = DOMAIN backups \cup {Gz(stamp)}
        /\ \A m \in DOMAIN backups : m # Gz(stamp) => backups'[m] = backups[m]
    BY <1>1, <1>6, PutIs
  <2>2. Plain(stamp) \in DOMAIN backups /\ backups[Plain(stamp)] # {}
    BY <1>1, <1>2, <1>6 DEF Create, At, RotationIsSafe
  <2> QED
    BY <1>2, <1>3, <2>1, <2>2
<1>7. CASE Fill /\ Put(Gz(stamp), backups[Plain(stamp)])
  <2>1. /\ DOMAIN backups' = DOMAIN backups \cup {Gz(stamp)}
        /\ \A m \in DOMAIN backups : m # Gz(stamp) => backups'[m] = backups[m]
    BY <1>1, <1>7, PutIs
  <2>2. Plain(stamp) \in DOMAIN backups /\ backups[Plain(stamp)] # {}
    BY <1>1, <1>2, <1>7 DEF Fill, At, RotationIsSafe
  <2> QED
    BY <1>2, <1>3, <2>1, <2>2
<1>8. CASE Remove /\ Drop(Plain(stamp))
  <2>1. /\ DOMAIN backups' = DOMAIN backups \ {Plain(stamp)}
        /\ \A m \in DOMAIN backups : m # Plain(stamp) => backups'[m] = backups[m]
    BY <1>1, <1>8, DropIs
  <2>2. IF Gz(stamp) \in DOMAIN backups THEN backups[Gz(stamp)] = backups[Plain(stamp)]
        ELSE MaxAge > 0 /\ now - stamp > MaxAge
    BY <1>1, <1>8 DEF Remove, At, RotationIsSafe
  <2>3. CASE Gz(stamp) \in DOMAIN backups
    BY <1>2, <1>3, <2>1, <2>2, <2>3
  <2>4. CASE Gz(stamp) \notin DOMAIN backups
    BY <1>8, <2>2, <2>4
  <2> QED
    BY <2>3, <2>4
<1> QED
  BY <1>4, <1>5, <1>6, <1>7, <1>8, FileStep

\* A reason to remove a backup that is in excess outlasts what others do.
LEMMA ReasonsStay ==
  ASSUME FileInv, Compress, [Next]_vars, NEW n \in Names, n.at < stamp, MaxBackups > 0,
         n \in DOMAIN backups => Cardinality(RotatedAfter(n.at)) >= MaxBackups \/ Old(n, now),
         n \in DOMAIN backups'
  PROVE  (Cardinality(RotatedAfter(n.at)) >= MaxBackups \/ Old(n, now))'
<1>1. /\ TypeOK /\ TypeOK' /\ NamesAreTimes /\ CleanersAreRight /\ DOMAIN modified = DOMAIN backups
      /\ DOMAIN backups \subseteq Names /\ \A m \in DOMAIN backups : modified[m] \in Nat
      /\ now \in Nat /\ stamp \in Nat /\ MaxAge \in Nat /\ MaxBackups \in Nat /\ stamp <= now
      /\ \A c \in cleaners : c.at \in Nat /\ c.excess \subseteq c.todo
  BY Typed, Parameters DEF FileInv, TypeOK, NamesAreTimes
<1>2. n.at \in Nat /\ now' \in Nat /\ now <= now'
  BY NamesAre, TimeGoesOn
<1>3. n \in DOMAIN backups /\ modified'[n] = modified[n] /\ modified[n] <= stamp
      /\ n \in DOMAIN modified' /\ \A m \in DOMAIN backups : n.at < m.at => modified[n] <= m.at
  <2>1. n # Plain(now) /\ n # Gz(stamp) /\ n # Plain(stamp)
    BY <1>1, <1>2, NamesAre
  <2>2. n \in DOMAIN backups /\ modified'[n] = modified[n]
    <3>1. CASE Quiet
      BY <3>1 DEF Quiet
    <3>2. CASE Rename
      BY <1>1, <2>1, <3>2 DEF Rename, With
    <3>3. CASE \E x : Put(Gz(stamp), x)
      <4>1. PICK x : Put(Gz(stamp), x)
        BY <3>3
      <4>2. /\ DOMAIN backups' = DOMAIN backups \cup {Gz(stamp)}
            /\ \A m \in DOMAIN backups : m # Gz(stamp) => modified'[m] = modified[m]
        BY <1>1, <4>1, PutIs
      <4> QED
        BY <2>1, <4>2
    <3>4. CASE \E m : Drop(m)
      BY <1>1, <3>4, DropIs
    <3> QED
      BY <3>1, <3>2, <3>3, <3>4, FileStep
  <2> QED
    BY <1>1, <2>2 DEF NamesAreTimes, TypeOK
<1>4. CASE MaxAge > 0 /\ now - modified[n] > MaxAge
  <2>1. now' - modified'[n] > MaxAge
    BY <1>1, <1>2, <1>3, <1>4
  <2> QED
    BY <1>3, <1>4, <2>1 DEF Old
<1>5. CASE ~(MaxAge > 0 /\ now - modified[n] > MaxAge)
  <2>1. Cardinality(RotatedAfter(n.at)) >= MaxBackups
    BY <1>3, <1>5 DEF Old
  <2>2. ASSUME NEW t \in Nat, RotatedAfter(t) \subseteq RotatedAfter(n.at)',
               Cardinality(RotatedAfter(t)) >= MaxBackups
        PROVE  Cardinality(RotatedAfter(n.at)') >= MaxBackups
    <3>1. /\ IsFiniteSet(RotatedAfter(n.at)') /\ Cardinality(RotatedAfter(n.at)') \in Nat
      <4>1. RotatedAfter(n.at)' \in SUBSET (0..MaxTime)
        BY <1>1, NamesAre DEF TypeOK, RotatedAfter
      <4>2. IsFiniteSet(0..MaxTime)
        BY Parameters, FS_Interval
      <4> QED
        BY <4>1, <4>2, FS_Subset, FS_CardinalityType
    <3>2. Cardinality(RotatedAfter(t)) \in Nat
      BY <1>1, RotatedIsFinite
    <3>3. Cardinality(RotatedAfter(t)) <= Cardinality(RotatedAfter(n.at)')
      BY <2>2, <3>1, FS_Subset
    <3> QED
      BY <1>1, <2>2, <3>1, <3>2, <3>3
  <2>3. ASSUME NEW c \in cleaners, NEW m \in c.todo, RemoveBackup, m \in c.excess \/ Old(m, c.at), Drop(m)
        PROVE  Cardinality(RotatedAfter(n.at)') >= MaxBackups
    <3>1. /\ DOMAIN backups' = DOMAIN backups \ {m}
          /\ \A k \in DOMAIN backups : k # m => backups'[k] = backups[k]
      BY <1>1, <2>3, DropIs
    <3>2. CASE m \notin DOMAIN backups \/ ~(m.at > n.at)
      <4>1. RotatedAfter(n.at) \subseteq RotatedAfter(n.at)'
        BY <3>1, <3>2 DEF RotatedAfter
      <4> QED
        BY <1>2, <2>1, <2>2, <4>1
    <3>3. CASE m \in DOMAIN backups /\ m.at > n.at
      <4>1. m.at \in Nat /\ modified[n] <= m.at /\ m.at <= modified[m] /\ modified[m] \in Nat
            /\ modified[n] \in Nat /\ c.at \in Nat /\ c.at <= now
        <5>1. m.gz /\ c.at <= now
          BY <1>1 DEF CleanersAreRight
        <5> QED
          BY <1>1, <1>3, <3>3, <5>1, NamesAre DEF NamesAreTimes
      <4>2. ~Old(m, c.at) /\ ~Old(m, now)
        BY <1>1, <1>5, <4>1 DEF Old
      <4>3. Cardinality(RotatedAfter(m.at)) >= MaxBackups
        BY <1>1, <2>3, <3>3, <4>2 DEF CleanersAreRight
      <4>4. RotatedAfter(m.at) \subseteq RotatedAfter(n.at)'
        <5>1. \A k \in DOMAIN backups : k.at > m.at => k \in DOMAIN backups' /\ backups'[k] = backups[k] /\ k.at > n.at
          <6>1. \A k \in DOMAIN backups : k.at \in Nat
            BY <1>1, NamesAre
          <6> QED
            BY <1>2, <3>1, <3>3, <4>1, <6>1
        <5> QED
          BY <5>1 DEF RotatedAfter
      <4> QED
        BY <2>2, <4>1, <4>3, <4>4
    <3> QED
      BY <3>2, <3>3
  <2>4. ASSUME RotatedAfter(n.at) \subseteq RotatedAfter(n.at)'
        PROVE  Cardinality(RotatedAfter(n.at)') >= MaxBackups
    BY <1>2, <2>1, <2>2, <2>4
  <2>5. ~(MaxAge > 0 /\ now - stamp > MaxAge)
    BY <1>1, <1>3, <1>5
  <2>6. Cardinality(RotatedAfter(n.at)') >= MaxBackups
    <3>1. CASE \E c \in cleaners : \E m \in c.todo :
                 RemoveBackup /\ (m \in c.excess \/ Old(m, c.at)) /\ Drop(m)
      BY <2>3, <3>1
    <3>2. CASE ~ \E c \in cleaners : \E m \in c.todo :
                 RemoveBackup /\ (m \in c.excess \/ Old(m, c.at)) /\ Drop(m)
      <4>1. \/ RotatedAfter(n.at) \subseteq RotatedAfter(n.at)'
            \/ MaxAge > 0 /\ now - stamp > MaxAge
        BY <1>2, <3>2, RotatedStays
      <4> QED
        BY <2>4, <2>5, <4>1
    <3> QED
      BY <3>1, <3>2
  <2> QED
    BY <2>6
<1> QED
  BY <1>4, <1>5

LEMMA CleanersStayRight ==
  ASSUME FileInv, [Next]_vars
  PROVE  CleanersAreRight'
<1> SUFFICES ASSUME Compress, NEW d \in cleaners'
             PROVE  /\ d.at <= now' /\ \A n \in d.todo : n.gz
                    /\ \A n \in d.excess :
                         /\ MaxBackups > 0 /\ n.at < stamp'
                         /\ n \in DOMAIN backups' =>
                              (Cardinality(RotatedAfter(n.at)) >= MaxBackups \/ Old(n, now))'
  BY DEF CleanersAreRight
<1>1. /\ TypeOK /\ NamesAreTimes /\ CleanersAreRight
      /\ DOMAIN backups \subseteq Names /\ now \in Nat /\ stamp \in Nat /\ MaxBackups \in Nat
      /\ \A c \in cleaners : c \in Cleaner /\ c.at \in Nat /\ c.excess \subseteq c.todo /\ c.todo \subseteq Names
  BY Parameters DEF FileInv, TypeOK, Cleaner
<1>2. now' \in Nat /\ now <= now' /\ stamp' \in Nat /\ stamp <= stamp'
  BY TimeGoesOn
<1>3. ASSUME NEW n \in Names, MaxBackups > 0, n.at < stamp,
             n \in DOMAIN backups => Cardinality(RotatedAfter(n.at)) >= MaxBackups \/ Old(n, now)
      PROVE  /\ MaxBackups > 0 /\ n.at < stamp'
             /\ n \in DOMAIN backups' =>
                  (Cardinality(RotatedAfter(n.at)) >= MaxBackups \/ Old(n, now))'
  <2>1. n.at \in Nat
    BY NamesAre
  <2> QED
    BY <1>1, <1>2, <1>3, <2>1, ReasonsStay
<1>4. ASSUME NEW c \in cleaners, d.at = c.at, d.todo \subseteq c.todo, d.excess \subseteq c.excess
      PROVE  /\ d.at <= now' /\ \A n \in d.todo : n.gz
             /\ \A n \in d.excess :
                  /\ MaxBackups > 0 /\ n.at < stamp'
                  /\ n \in DOMAIN backups' =>
                       (Cardinality(RotatedAfter(n.at)) >= MaxBackups \/ Old(n, now))'
  <2>1. /\ c.at <= now /\ \A n \in c.todo : n.gz
        /\ \A n \in c.excess :
             /\ n \in Names /\ MaxBackups > 0 /\ n.at < stamp
             /\ n \in DOMAIN backups => Cardinality(RotatedAfter(n.at)) >= MaxBackups \/ Old(n, now)
    BY <1>1 DEF CleanersAreRight
  <2>2. d.at <= now' /\ \A n \in d.todo : n.gz
    BY <1>1, <1>2, <1>4, <2>1
  <2>3. \A n \in d.excess :
          /\ MaxBackups > 0 /\ n.at < stamp'
          /\ n \in DOMAIN backups' =>
               (Cardinality(RotatedAfter(n.at)) >= MaxBackups \/ Old(n, now))'
    BY <1>3, <1>4, <2>1
  <2> QED
    BY <2>2, <2>3
<1>5. CASE d \in cleaners
  BY <1>4, <1>5
<1>6. CASE d = Launched(offered)
  <2>1. d.at = 0 /\ d.todo = {} /\ d.excess = {}
    BY <1>6 DEF Launched
  <2> QED
    BY <1>2, <2>1
<1>7. ASSUME NEW c \in cleaners,
             d = [c EXCEPT !.listed = TRUE, !.at = now, !.excess = Excess,
                           !.todo = Excess \cup {n \in Listed : Old(n, now)}]
      PROVE  /\ d.at <= now' /\ \A n \in d.todo : n.gz
             /\ \A n \in d.excess :
                  /\ MaxBackups > 0 /\ n.at < stamp'
                  /\ n \in DOMAIN backups' =>
                       (Cardinality(RotatedAfter(n.at)) >= MaxBackups \/ Old(n, now))'
  <2>1. d.at = now /\ d.excess = Excess /\ d.todo = Excess \cup {n \in Listed : Old(n, now)}
    BY <1>1, <1>7 DEF Cleaner
  <2>2. \A n \in Excess : n \in Listed
    BY DEF Excess
  <2>3. \A n \in Listed : n.gz /\ n \in Names
    BY <1>1 DEF Listed
  <2>4. \A n \in Excess : MaxBackups > 0 /\ n.at < stamp /\ Cardinality(RotatedAfter(n.at)) >= MaxBackups
    BY ExcessIsRotated
  <2> QED
    BY <1>2, <1>3, <2>1, <2>2, <2>3, <2>4
<1>8. ASSUME NEW c \in cleaners, NEW n \in c.todo, d = [c EXCEPT !.todo = @ \ {n}, !.excess = @ \ {n}]
      PROVE  d.at = c.at /\ d.todo \subseteq c.todo /\ d.excess \subseteq c.excess
  BY <1>1, <1>8 DEF Cleaner
<1> QED
  BY <1>1, <1>4, <1>5, <1>6, <1>7, <1>8, CleanerStep

LEMMA FileNext == FileInv /\ [Next]_vars => FileInv'
BY Typed, Handled, Bounded, TimedNames, SafeRotation, CleanersStayRight DEF FileInv

-----------------------------------------------------------------------------
(* Theorems *)

\* No file grows beyond MaxSize, across failed rotations, crashes and restarts; a rotation
\* always has its events in one file; and a cleanup's reasons outlast what others do.
THEOREM Invariance == Spec => []FileInv
<1> QED
  BY FileInit, FileNext, PTL DEF Spec

LEMMA SilentStep == FileInv /\ [Next]_vars => [silent' # silent => warned]_vars
<1> SUFFICES ASSUME FileInv, Next, silent' # silent PROVE warned
  OBVIOUS
<1>1. NoFileIsAnnounced
  BY DEF FileInv
<1>2. CASE Write
  BY <1>1, <1>2 DEF Write, At, NoFileIsAnnounced
<1>3. CASE ~Write
  BY <1>3 DEF Next, Migrate, OpenAs, MigrateFails, Rotate, Close, Rename, RenameFails, Create,
     Fill, Remove, Reopen, ReopenFails, Append, AppendFails, Unwritten, Cleanup, ListBackups,
     RemoveBackup, CleanerUnchanged, End, Restart, Tick, Ended, Idle, vars, resultVars
<1> QED
  BY <1>2, <1>3

\* Write drops events without an error only after the process has returned one.
THEOREM SilenceComesLate == Spec => SilenceIsAnnounced
<1> QED
  BY FileInit, FileNext, SilentStep, PTL DEF Spec, SilenceIsAnnounced

\* Nothing but a rename takes the active file away.
LEMMA ActiveStays ==
  ASSUME FileInv, [Next]_vars, ~Rename, active # NoFile
  PROVE  active' # NoFile /\ active \subseteq active'
<1>1. TypeOK /\ OfferedIsNew /\ HandleIsActive
  BY DEF FileInv
<1>2. CASE Append
  <2>1. active' = active \cup {offered} /\ step # "idle"
    BY <1>2 DEF Append, At
  <2>2. active' \subseteq 1..N
    BY <1>1, <2>1, ActiveGrows
  <2> QED
    BY <2>1, <2>2, Parameters
<1>3. CASE Reopen
  BY <1>1, <1>3 DEF Reopen, At, HandleIsActive
<1>4. CASE ~Append /\ ~Reopen
  BY <1>4 DEF Next, Migrate, OpenAs, MigrateFails, Write, Rotate, Close, RenameFails, Create, Fill,
     Remove, ReopenFails, AppendFails, Unwritten, Cleanup, ListBackups, RemoveBackup,
     CleanerUnchanged, End, Restart, Tick, Ended, Idle, vars
<1> QED
  BY <1>2, <1>3, <1>4

LEMMA DiskIs ==
  /\ \A e : e \in OnDisk <=> \/ active # NoFile /\ e \in active
                             \/ \E n \in DOMAIN backups : e \in backups[n]
  /\ \A e : e \in OnDisk' <=> \/ active' # NoFile /\ e \in active'
                              \/ \E n \in DOMAIN backups' : e \in backups'[n]
BY DEF OnDisk, Range

LEMMA LossStep ==
  ASSUME Compress, FileInv, [Next]_vars, NEW e \in OnDisk \ OnDisk'
  PROVE  \E n \in DOMAIN backups :
           /\ e \in backups[n]
           /\ \/ MaxBackups > 0 /\ Cardinality(RotatedAfter(n.at)) >= MaxBackups
              \/ Aged(n)
              \/ step = "rename" /\ n = Plain(now)
              \/ step = "compress" /\ n = Gz(stamp)
<1>1. /\ TypeOK /\ HandleIsActive /\ NamesAreTimes /\ RotationIsSafe /\ CleanersAreRight
      /\ DOMAIN modified = DOMAIN backups /\ DOMAIN backups \subseteq Names
      /\ \A n \in DOMAIN backups : modified[n] \in Nat
      /\ now \in Nat /\ stamp \in Nat /\ MaxAge \in Nat /\ stamp <= now
      /\ \A c \in cleaners : c.at \in Nat
  BY Parameters DEF FileInv, TypeOK, NamesAreTimes
<1>2. \A t : /\ Plain(t).at = t /\ Plain(t).gz = FALSE /\ Gz(t).at = t /\ Gz(t).gz = TRUE
             /\ Plain(t) # Gz(t)
  BY NamesAre
<1>3. /\ ~(active' # NoFile /\ e \in active') /\ \A n \in DOMAIN backups' : e \notin backups'[n]
      /\ (active # NoFile /\ e \in active) \/ \E n \in DOMAIN backups : e \in backups[n]
  BY DiskIs
<1>4. ~Rename => \E n \in DOMAIN backups : e \in backups[n]
  BY <1>3, ActiveStays
<1>5. CASE Quiet /\ ~Rename
  BY <1>3, <1>4, <1>5 DEF Quiet
<1>6. CASE Rename
  <2>1. /\ DOMAIN backups' = DOMAIN backups \cup {Plain(now)} /\ backups'[Plain(now)] = active
        /\ \A m \in DOMAIN backups : m # Plain(now) => backups'[m] = backups[m]
    BY <1>6 DEF Rename, With
  <2>2. step = "rename"
    BY <1>6 DEF Rename, At
  <2> QED
    BY <1>3, <2>1, <2>2
<1>7. CASE ~Rename /\ Create /\ Put(Gz(stamp), {})
  <2>1. /\ DOMAIN backups' = DOMAIN backups \cup {Gz(stamp)}
        /\ \A m \in DOMAIN backups : m # Gz(stamp) => backups'[m] = backups[m]
    BY <1>1, <1>7, PutIs
  <2>2. step = "compress"
    BY <1>7 DEF Create, At
  <2> QED
    BY <1>3, <1>4, <1>7, <2>1, <2>2
<1>8. CASE ~Rename /\ Fill /\ Put(Gz(stamp), backups[Plain(stamp)])
  <2>1. /\ DOMAIN backups' = DOMAIN backups \cup {Gz(stamp)}
        /\ \A m \in DOMAIN backups : m # Gz(stamp) => backups'[m] = backups[m]
    BY <1>1, <1>8, PutIs
  <2>2. Gz(stamp) \in DOMAIN backups => backups[Gz(stamp)] = {}
    BY <1>1, <1>8 DEF Fill, At, RotationIsSafe
  <2> QED
    BY <1>3, <1>4, <1>8, <2>1, <2>2
<1>9. CASE ~Rename /\ Remove /\ Drop(Plain(stamp))
  <2>1. /\ DOMAIN backups' = DOMAIN backups \ {Plain(stamp)}
        /\ \A m \in DOMAIN backups : m # Plain(stamp) => backups'[m] = backups[m]
    BY <1>1, <1>9, DropIs
  <2>2. Plain(stamp) \in DOMAIN backups /\ e \in backups[Plain(stamp)]
    BY <1>3, <1>4, <1>9, <2>1
  <2>3. Gz(stamp) \notin DOMAIN backups
    BY <1>1, <1>2, <1>3, <1>9, <2>1, <2>2 DEF Remove, At, RotationIsSafe
  <2>4. MaxAge > 0 /\ now - stamp > MaxAge
    BY <1>1, <1>9, <2>3 DEF Remove, At, RotationIsSafe
  <2>5. modified[Plain(stamp)] <= stamp
    BY <1>1, <1>2, <2>2 DEF NamesAreTimes
  <2>6. now - modified[Plain(stamp)] > MaxAge
    BY <1>1, <2>2, <2>4, <2>5
  <2>7. Aged(Plain(stamp))
    BY <1>2, <2>2, <2>4, <2>6 DEF Aged, Old
  <2> QED
    BY <2>2, <2>7
<1>10. ASSUME ~Rename, NEW c \in cleaners, NEW n \in c.todo, n \in c.excess \/ Old(n, c.at), Drop(n)
       PROVE  \E m \in DOMAIN backups :
                /\ e \in backups[m]
                /\ \/ MaxBackups > 0 /\ Cardinality(RotatedAfter(m.at)) >= MaxBackups
                   \/ Aged(m)
  <2>1. /\ DOMAIN backups' = DOMAIN backups \ {n}
        /\ \A m \in DOMAIN backups : m # n => backups'[m] = backups[m]
    BY <1>1, <1>10, DropIs
  <2>2. n \in DOMAIN backups /\ e \in backups[n]
    BY <1>3, <1>4, <1>10, <2>1
  <2>3. /\ n.gz /\ c.at <= now
        /\ n \in c.excess => MaxBackups > 0 /\ (Cardinality(RotatedAfter(n.at)) >= MaxBackups \/ Old(n, now))
    BY <1>1, <2>2 DEF CleanersAreRight
  <2>4. Old(n, c.at) => Old(n, now)
    <3>1. modified[n] \in Nat /\ c.at \in Nat
      BY <1>1, <2>2
    <3> QED
      BY <1>1, <2>3, <3>1 DEF Old
  <2>5. Old(n, now) => Aged(n)
    BY <2>3 DEF Aged
  <2> QED
    BY <1>10, <2>2, <2>3, <2>4, <2>5
<1> QED
  BY <1>5, <1>6, <1>7, <1>8, <1>9, <1>10, FileStep

\* With compression, what Write has appended leaves the disk only as a backup in excess,
\* for its age, or under a second rotation of the same second.
THEOREM LossIsExplained == Compress => (Spec => OnlyExcessIsLost)
<1> SUFFICES ASSUME Compress PROVE Spec => OnlyExcessIsLost
  OBVIOUS
<1> DEFINE Explained ==
      \A e \in OnDisk \ OnDisk' :
        \E n \in DOMAIN backups :
          /\ e \in backups[n]
          /\ \/ MaxBackups > 0 /\ Cardinality(RotatedAfter(n.at)) >= MaxBackups
             \/ Aged(n)
             \/ step = "rename" /\ n = Plain(now)
             \/ step = "compress" /\ n = Gz(stamp)
<1>1. FileInv /\ [Next]_vars => [Explained]_vars
  BY LossStep
<1>2. OnlyExcessIsLost <=> [][Explained]_vars
  BY DEF OnlyExcessIsLost
<1> HIDE DEF Explained
<1> QED
  BY <1>1, <1>2, FileInit, FileNext, PTL DEF Spec

=============================================================================
