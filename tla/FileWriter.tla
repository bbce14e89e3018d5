----------------------------- MODULE FileWriter -----------------------------
(***************************************************************************)
(* The file output of internal/adapter/outbound/file/writer.go: Write      *)
(* appends to the file at cfg.Path and rotates it when it is full; a       *)
(* rotation renames the file, compresses it if asked to, opens a new one,  *)
(* and launches a cleanup goroutine, which works on the directory without  *)
(* the lock.  Only the consumer's loop calls Write.                        *)
(*                                                                         *)
(* Events are the numbers 1 to N, written in that order, each one unit of  *)
(* size; a file is the set of events in it.  A unit of time is the second  *)
(* that a backup is named after, and MaxAgeDays is counted in.             *)
(***************************************************************************)
EXTENDS Naturals, FiniteSets, Functions

CONSTANTS
  N,           \* events
  MaxSize,     \* cfg.MaxSizeMB, in events; 0 for no limit
  MaxBackups,  \* cfg.MaxBackups; 0 for no limit
  MaxAge,      \* cfg.MaxAgeDays; 0 for no limit
  Compress,    \* cfg.Compress
  Faults,      \* the system calls that may fail
  NoFile,      \* what is at cfg.Path when nothing is
  MaxTime,     \* bound on the clock
  MaxRuns      \* bound on the starts of the process

ASSUME FileAssumption ==
  /\ {N, MaxSize, MaxBackups, MaxAge, MaxTime, MaxRuns} \subseteq Nat /\ MaxRuns # 0
  /\ Compress \in BOOLEAN
  /\ Faults \subseteq {"migrate", "close", "rename", "gzip", "open", "write"}
  /\ \A S \in SUBSET (1..N) : S # NoFile

VARIABLES
  process,     \* "up", "down", or "starting" until Migrate has been called
  runs,        \* starts of the process
  now,         \* the clock
  handle,      \* w.file: "nil", "open", or "closed" (os.File after a failed Close)
  size,        \* w.size
  step,        \* where Write is
  stamp,       \* the second in the name of the backup that rotate is making
  offered,     \* the last event passed to Write
  active,      \* the file at cfg.Path, or NoFile
  backups,     \* the rotated files, by name
  modified,    \* when each was last written
  touched,     \* when the active file was, where that matters: see Touched
  cleaners,    \* the cleanup goroutines: what each has yet to look at
  silent,      \* events for which Write returned nil without having written
  warned       \* this process has returned an error from Migrate or Write

writerVars == <<handle, size, step, stamp, offered>>
timeVars == <<modified, touched>>
resultVars == <<silent, warned>>
vars == <<process, runs, now, writerVars, active, backups, timeVars, cleaners, resultVars>>

\* base.<second>.ext, followed by .gz or not
Names == [at : 0..MaxTime, gz : BOOLEAN]

Plain(t) == [at |-> t, gz |-> FALSE]
Gz(t) == [at |-> t, gz |-> TRUE]

Steps == {"idle", "close", "rename", "compress", "fill", "remove", "reopen", "append"}

\* The cleanup goroutine that event e's rotation launches, before it has read the
\* directory.  Afterwards it knows the time (at), the backups it has yet to look at,
\* and those of them that are in excess of MaxBackups.
Launched(e) == [of |-> e, listed |-> FALSE, at |-> 0, todo |-> {}, excess |-> {}]

TypeOK ==
  /\ process \in {"starting", "up", "down"} /\ runs \in 1..MaxRuns
  /\ now \in 0..MaxTime
  /\ handle \in {"nil", "open", "closed"}
  /\ size \in 0..(IF MaxSize > 0 THEN MaxSize ELSE N) /\ step \in Steps
  /\ stamp \in 0..MaxTime /\ offered \in 0..N
  /\ active = NoFile \/ active \subseteq 1..N
  /\ DOMAIN backups \subseteq Names
  /\ \A n \in DOMAIN backups : backups[n] \subseteq 1..N
  /\ \A c \in cleaners :
       /\ c \in [of : 1..N, listed : BOOLEAN, at : 0..MaxTime,
                 todo : SUBSET Names, excess : SUBSET Names]
       /\ c.excess \subseteq c.todo
  /\ modified \in [DOMAIN backups -> 0..MaxTime] /\ touched \in 0..MaxTime
  /\ silent \subseteq 1..N
  /\ warned \in BOOLEAN

NoBackups == [n \in {} |-> {}]

Init ==
  /\ process = "starting" /\ runs = 1 /\ now = 0
  /\ handle = "nil" /\ size = 0 /\ step = "idle" /\ stamp = 0 /\ offered = 0
  /\ active = NoFile /\ backups = NoBackups /\ cleaners = {}
  /\ modified = NoBackups /\ touched = 0
  /\ silent = {} /\ warned = FALSE

With(f, n, x) == [m \in DOMAIN f \cup {n} |-> IF m = n THEN x ELSE f[m]]

\* The time of the active file goes to the backup it becomes, unless that is
\* compressed, which writes it anew.
Touched == IF Compress THEN touched ELSE now

\* A backup is created or written now, or removed.
Put(n, contents) ==
  /\ backups' = With(backups, n, contents) /\ modified' = With(modified, n, now)
  /\ UNCHANGED touched

Drop(n) ==
  /\ backups' = Restrict(backups, DOMAIN backups \ {n})
  /\ modified' = Restrict(modified, DOMAIN modified \ {n})
  /\ UNCHANGED touched

-----------------------------------------------------------------------------
(* Migrate *)

\* OpenFile with O_CREATE and O_APPEND
OpenAs(known) ==
  /\ process = "starting"
  /\ process' = "up" /\ handle' = "open"
  /\ active' = IF active = NoFile THEN {} ELSE active
  /\ touched' = IF active = NoFile THEN Touched ELSE touched
  /\ size' = known
  /\ UNCHANGED <<runs, now, step, stamp, offered, backups, modified, cleaners, resultVars>>

MigrateUnsized == OpenAs(size)   \* mutant of Migrate: Stat is not called

\* w.size is what Stat says.
Migrate == OpenAs(Cardinality(active'))

\* The error is a warning to main, which uses the writer all the same.
MigrateFails ==
  /\ "migrate" \in Faults
  /\ process = "starting"
  /\ process' = "up" /\ warned' = TRUE
  /\ UNCHANGED <<runs, now, writerVars, active, backups, timeVars, cleaners, silent>>

-----------------------------------------------------------------------------
(* Write and rotate *)

At(s) == process = "up" /\ step = s

StepUnchanged == UNCHANGED <<process, runs, now, offered>>

Full == MaxSize > 0 /\ size >= MaxSize

\* if w.file == nil { return nil }, and if w.size >= maxBytes { w.rotate() }
Write ==
  /\ At("idle") /\ offered < N
  /\ offered' = offered + 1
  /\ IF handle = "nil"
     THEN silent' = silent \cup {offered'} /\ UNCHANGED step
     ELSE step' = (IF Full THEN "close" ELSE "append") /\ UNCHANGED silent
  /\ UNCHANGED <<process, runs, now, handle, size, stamp, active, backups, timeVars, cleaners,
                 warned>>

\* w.file.Close(), which fails on a file that has been closed before
Close ==
  /\ At("close")
  /\ \/ handle = "open" /\ handle' = "nil" /\ step' = "rename"
     \/ /\ handle = "closed" \/ "close" \in Faults
        /\ handle' = "closed" /\ step' = "append"
  /\ UNCHANGED <<size, stamp, active, backups, timeVars, cleaners, resultVars>> /\ StepUnchanged

\* os.Rename to a name made of the clock, over a file that has that name.  The time
\* of the last write goes with the file.
Rename ==
  /\ At("rename")
  /\ stamp' = now
  /\ backups' = With(backups, Plain(now), active)
  /\ modified' = With(modified, Plain(now), touched) /\ UNCHANGED touched
  /\ active' = NoFile
  /\ step' = IF Compress THEN "compress" ELSE "reopen"
  /\ UNCHANGED <<handle, size, cleaners, resultVars>> /\ StepUnchanged

RenameFails ==
  /\ "rename" \in Faults
  /\ At("rename")
  /\ step' = "append"
  /\ UNCHANGED <<handle, size, stamp, active, backups, timeVars, cleaners, resultVars>>
  /\ StepUnchanged

\* gzipFile: ReadFile and Create.  It may have failed before that, which rotate
\* only logs.
Create ==
  /\ At("compress")
  /\ \/ Put(Gz(stamp), {}) /\ step' = "fill"
     \/ "gzip" \in Faults /\ step' = "reopen" /\ UNCHANGED <<backups, timeVars>>
  /\ UNCHANGED <<handle, size, stamp, active, cleaners, resultVars>> /\ StepUnchanged

\* The compressed data is written and flushed, or not.
Fill ==
  /\ At("fill")
  /\ \/ Put(Gz(stamp), backups[Plain(stamp)]) /\ step' = "remove"
     \/ "gzip" \in Faults /\ step' = "reopen" /\ UNCHANGED <<backups, timeVars>>
  /\ UNCHANGED <<handle, size, stamp, active, cleaners, resultVars>> /\ StepUnchanged

\* os.Remove of the uncompressed file, whose result is ignored
Remove ==
  /\ At("remove")
  /\ \/ Drop(Plain(stamp))
     \/ "gzip" \in Faults /\ UNCHANGED <<backups, timeVars>>
  /\ step' = "reopen"
  /\ UNCHANGED <<handle, size, stamp, active, cleaners, resultVars>> /\ StepUnchanged

\* os.OpenFile of the new file, w.size = 0, go w.cleanup()
Reopen ==
  /\ At("reopen")
  /\ active' = {} /\ handle' = "open" /\ size' = 0
  /\ touched' = Touched
  /\ cleaners' = IF MaxBackups > 0 \/ MaxAge > 0 THEN cleaners \cup {Launched(offered)} ELSE cleaners
  /\ step' = "append"
  /\ UNCHANGED <<stamp, backups, modified, resultVars>> /\ StepUnchanged

ReopenFails ==
  /\ "open" \in Faults
  /\ At("reopen")
  /\ step' = "append"
  /\ UNCHANGED <<handle, size, stamp, active, backups, timeVars, cleaners, resultVars>>
  /\ StepUnchanged

\* w.file.Write(data)
Append ==
  /\ At("append") /\ handle = "open"
  /\ active' = active \cup {offered}
  /\ touched' = Touched
  /\ size' = size + 1 /\ step' = "idle"
  /\ UNCHANGED <<handle, stamp, backups, modified, cleaners, resultVars>> /\ StepUnchanged

\* The write fails, as it does on a file that is nil or closed.
Unwritten(returned) ==
  /\ At("append")
  /\ handle # "open" \/ "write" \in Faults
  /\ IF returned = "nil"
     THEN silent' = silent \cup {offered} /\ UNCHANGED warned
     ELSE warned' = TRUE /\ UNCHANGED silent
  /\ step' = "idle"
  /\ UNCHANGED <<handle, size, stamp, active, backups, timeVars, cleaners>> /\ StepUnchanged

AppendUnlessNil ==   \* mutant of AppendFails: w.file is tested again after rotate
  Unwritten(IF handle = "nil" THEN "nil" ELSE "error")

AppendFails == Unwritten("error")

Rotate ==
  Close \/ Rename \/ RenameFails \/ Create \/ Fill \/ Remove \/ Reopen \/ ReopenFails

-----------------------------------------------------------------------------
(* cleanup *)

Newer(m, n) == m.at > n.at \/ (m.at = n.at /\ m.gz /\ ~n.gz)

\* With Compress only names in .gz count.  Without it the active file counts too:
\* it has the prefix of the backups, and its name sorts before theirs, as a letter
\* sorts after a digit.
Listed == {n \in DOMAIN backups : Compress => n.gz}

Ahead(n) ==
  Cardinality({m \in Listed : Newer(m, n)})
    + IF ~Compress /\ active # NoFile THEN 1 ELSE 0

ExcessOfOne ==   \* mutant of Excess: i > maxBackups
  {n \in Listed : MaxBackups > 0 /\ Ahead(n) > MaxBackups}

ExcessOfOldest ==   \* mutant of Excess: the names are not sorted in reverse
  {n \in Listed : MaxBackups > 0 /\ Cardinality({m \in Listed : Newer(n, m)}) >= MaxBackups}

\* maxBackups > 0 && i >= maxBackups, in the reverse order of the names
Excess == {n \in Listed : MaxBackups > 0 /\ Ahead(n) >= MaxBackups}

CleanerUnchanged ==
  UNCHANGED <<process, runs, now, writerVars, active, resultVars>>

Proceed(c, d) == cleaners' = (cleaners \ {c}) \cup (IF d.todo = {} THEN {} ELSE {d})

Old(n, at) == MaxAge > 0 /\ n \in DOMAIN backups /\ at - modified[n] > MaxAge

\* os.ReadDir, the sort, and time.Now().  The lock that cleanup takes before only
\* makes it wait for the Write that launched it, which has no more to do in the
\* directory.  A backup that is not old now will not be so for this cleanup, and
\* neither is the active file, if it is listed.
ListBackups ==
  /\ process = "up"
  /\ \E c \in cleaners :
       /\ ~c.listed
       /\ Proceed(c, [c EXCEPT !.listed = TRUE, !.at = now, !.excess = Excess,
                              !.todo = Excess \cup {n \in Listed : Old(n, now)}])
  /\ UNCHANGED <<backups, timeVars>> /\ CleanerUnchanged

\* The next name, the newest first: os.Remove if it is in excess, or if os.Stat says
\* that it is old.  The results of both calls are ignored.
RemoveBackup ==
  /\ process = "up"
  /\ \E c \in cleaners : \E n \in c.todo :
       /\ \A m \in c.todo \ {n} : Newer(n, m)
       /\ IF n \in c.excess \/ Old(n, c.at) THEN Drop(n) ELSE UNCHANGED <<backups, timeVars>>
       /\ Proceed(c, [c EXCEPT !.todo = @ \ {n}, !.excess = @ \ {n}])
  /\ CleanerUnchanged

Cleanup == ListBackups \/ RemoveBackup

-----------------------------------------------------------------------------
(* The process and the clock.  main never calls Close. *)

End ==
  /\ process = "up"
  /\ process' = "down"
  /\ cleaners' = {}
  /\ UNCHANGED <<runs, now, writerVars, active, backups, timeVars, resultVars>>

Restart ==
  /\ process = "down" /\ runs < MaxRuns
  /\ process' = "starting" /\ runs' = runs + 1
  /\ handle' = "nil" /\ size' = 0 /\ step' = "idle" /\ warned' = FALSE
  /\ UNCHANGED <<now, stamp, offered, active, backups, timeVars, cleaners, silent>>

Tick ==
  /\ now < MaxTime
  /\ now' = now + 1
  /\ UNCHANGED <<process, runs, writerVars, active, backups, timeVars, cleaners, resultVars>>

Ended == process = "down" /\ runs = MaxRuns /\ UNCHANGED vars

Idle == process = "up" /\ step = "idle" /\ offered = N /\ cleaners = {} /\ UNCHANGED vars

Next ==
  \/ Migrate \/ MigrateFails
  \/ Write \/ Rotate \/ Append \/ AppendFails
  \/ Cleanup
  \/ End \/ Restart \/ Tick
  \/ Ended \/ Idle

Spec == Init /\ [][Next]_vars

\* A cleanup goroutine gets to run.
FairSpec == Spec /\ WF_vars(Cleanup)

-----------------------------------------------------------------------------
(* Properties *)

\* No file grows beyond MaxSize, neither the active one nor a backup, across failed
\* rotations, crashes in the middle of one, and restarts.
FilesAreBounded ==
  MaxSize > 0 =>
    /\ active # NoFile => Cardinality(active) <= MaxSize
    /\ \A n \in DOMAIN backups : Cardinality(backups[n]) <= MaxSize

\* What w.file and w.size say of the file at cfg.Path, wherever Write is
HandleIsActive ==
  /\ handle = "open" => active # NoFile /\ size = Cardinality(active)
  /\ process = "starting" => handle = "nil" /\ step = "idle"
  /\ step = "close" => Full
  /\ step = "rename" => handle = "nil" /\ active \notin {NoFile, {}}
  /\ step \in {"compress", "fill", "remove", "reopen"} => handle = "nil" /\ active = NoFile
  /\ step = "append" /\ handle = "open" => ~Full

\* The event in hand is in no file yet.
OfferedIsNew ==
  /\ step # "idle" => offered # 0
  /\ active # NoFile => active \subseteq 1..(IF step = "idle" THEN offered ELSE offered - 1)

\* A writer that has lost its file has said so.
NoFileIsAnnounced == process = "up" /\ step = "idle" /\ handle = "nil" => warned

\* Backups are named in the order of their rotations, the last one after stamp, and
\* none was written after a later rotation.
NamesAreTimes ==
  /\ stamp <= now /\ touched <= now
  /\ \A n \in DOMAIN backups :
       /\ n.at <= stamp /\ modified[n] <= now
       /\ n.at < stamp => modified[n] <= stamp
       /\ \A m \in DOMAIN backups : n.at < m.at => modified[n] <= m.at
       /\ IF n.gz THEN Compress /\ n.at <= modified[n] ELSE modified[n] <= n.at

\* Of a rotation, one file has the events: the plain one until the other is complete,
\* and only its age takes that one away before the plain one is removed.
RotationIsSafe ==
  /\ \A n \in DOMAIN backups : backups[n] # {} \/ (n.gz /\ Plain(n.at) \in DOMAIN backups)
  /\ step \in {"compress", "fill", "remove"} => Compress /\ Plain(stamp) \in DOMAIN backups
  /\ step = "fill" /\ Gz(stamp) \in DOMAIN backups => backups[Gz(stamp)] = {}
  /\ step = "remove" =>
       IF Gz(stamp) \in DOMAIN backups THEN backups[Gz(stamp)] = backups[Plain(stamp)]
       ELSE MaxAge > 0 /\ now - stamp > MaxAge

OnDisk == (IF active = NoFile THEN {} ELSE active) \cup UNION Range(backups)

\* The rotations after second t of which the disk has the events.
RotatedAfter(t) == {m.at : m \in {n \in DOMAIN backups : n.at > t /\ backups[n] # {}}}

\* A file that is to be compressed is as old as its name.
Aged(n) == Old(n, now) /\ (Compress /\ ~n.gz => now - n.at > MaxAge)

\* With Compress, the reasons a cleanup had when it read the directory still hold when
\* it comes to remove a backup, whatever other cleanups and rotations did meanwhile.
CleanersAreRight ==
  Compress => \A c \in cleaners :
    /\ c.at <= now
    /\ \A n \in c.todo : n.gz
    /\ \A n \in c.excess :
         /\ MaxBackups > 0 /\ n.at < stamp
         /\ n \in DOMAIN backups => Cardinality(RotatedAfter(n.at)) >= MaxBackups \/ Old(n, now)

\* The bounds with the types and what they, and the properties of steps below, rest on.
FileInv ==
  /\ TypeOK /\ FilesAreBounded /\ HandleIsActive /\ OfferedIsNew /\ NoFileIsAnnounced
  /\ NamesAreTimes /\ RotationIsSafe /\ CleanersAreRight

\* What Write has appended leaves the disk in three ways only: by a cleanup, when the
\* disk has the events of at least MaxBackups later rotations; by a cleanup, when the
\* backup is older than MaxAge, whatever MaxBackups is (the code's rule: docs/usage.md:156-157
\* read otherwise, see README.md); or because a second rotation within the same second
\* takes the name of the first.  No crash within a rotation, failed compression, or
\* cleanup next to a rotation loses anything else.
OnlyExcessIsLost ==
  [][\A e \in OnDisk \ OnDisk' :
       \E n \in DOMAIN backups :
         /\ e \in backups[n]
         /\ \/ MaxBackups > 0 /\ Cardinality(RotatedAfter(n.at)) >= MaxBackups
            \/ Aged(n)
            \/ step = "rename" /\ n = Plain(now)
            \/ step = "compress" /\ n = Gz(stamp)]_vars

\* Write drops events without an error only after this process has returned one,
\* from Migrate or from an earlier Write.
SilenceIsAnnounced == [][silent' # silent => warned]_vars

Superseded(n) ==
  /\ n \in DOMAIN backups /\ (Compress => n.gz)
  /\ MaxBackups > 0
  /\ Cardinality({m \in DOMAIN backups : (Compress => m.gz) /\ m.at > n.at}) >= MaxBackups

\* A backup with MaxBackups later ones, or an old one, when a cleanup goroutine is
\* launched is removed, also when the next rotations overtake the cleanup, unless the
\* process ends first, or the old one is written again under the same name.
BackupsAreTrimmed ==
  \A n \in {m \in Names : Compress => m.gz} :
    LET launched == \E c \in cleaners : ~c.listed
        gone == n \notin DOMAIN backups \/ process = "down"
    IN /\ launched /\ Superseded(n) ~> gone
       /\ launched /\ Old(n, now) ~> gone \/ ~Old(n, now)
=============================================================================
