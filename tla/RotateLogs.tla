----------------------------- MODULE RotateLogs -----------------------------
(***************************************************************************)
(* logger/rotatelogs as logger.go configures it: a file per rotation       *)
(* period, named after it, with a generation when a file of that name is   *)
(* there and a new one is wanted; files whose last write is MaxAge old are *)
(* unlinked by a goroutine that a rotation starts.  A file is a pair of    *)
(* the start of its period and its generation.                             *)
(***************************************************************************)
EXTENDS Naturals, FiniteSets

CONSTANTS RotationTime, MaxAge,     \* in ticks of the clock
          MaxNow, MaxGeneration,   \* bounds
          MaxLogFaults              \* bound on crashes and failing system calls

\* A period is not longer than the age at which files go (logger_config.go: days
\* against seconds, with a day as the default for both).
ASSUME RotationAssumption == RotationTime \in Nat \ {0} /\ MaxAge \in Nat /\ MaxAge >= RotationTime

VARIABLES
    now,
    modTime,        \* the files on disk, with the time of their last write (or creation)
    lockFiles,      \* the lock files that exist, by the name they are for
    curFn, curBaseFn, generation,   \* the fields of RotateLogs
    outFh,          \* the file that is open, NoFile without one
    unlinks,        \* what cleanup goroutines have still to remove
    faults,
    lost            \* history: the age of the youngest line when its file was removed

logVars == <<now, modTime, lockFiles, curFn, curBaseFn, generation, outFh, unlinks, faults, lost>>

Names == {<<b, g>> : b \in 0..MaxNow, g \in 0..MaxGeneration}
NoFile == <<>>
NoBase == MaxNow + 1

LogInit ==
    /\ now = 0 /\ modTime = <<>> /\ lockFiles = {} /\ curFn = NoFile /\ curBaseFn = NoBase
    /\ generation = 0 /\ outFh = NoFile /\ unlinks = {} /\ faults = 0 /\ lost = {}
-----------------------------------------------------------------------------
genFilename == now - (now % RotationTime)
Exists(f) == f \in DOMAIN modTime

\* Mutant: the cutoff is not applied.
Expired_Always(f) == TRUE
\* rotateNoLock: the files whose last write is not after the cutoff.
Expired(f) == modTime[f] + MaxAge <= now

\* The name a rotation opens: the base name, appended to when it is there, or, when
\* a new file is wanted, the first generation that does not exist.
NewName(base, first, forced) ==
    IF ~forced THEN <<base, 0>>
    ELSE <<base, CHOOSE g \in first..MaxGeneration :
                    ~Exists(<<base, g>>) /\ \A h \in first..(g - 1) : Exists(<<base, h>>)>>
CanName(base, first, forced) == ~forced \/ \E g \in first..MaxGeneration : ~Exists(<<base, g>>)

\* os.OpenFile with O_CREATE|O_APPEND.
Created(f) == IF Exists(f) THEN modTime ELSE [x \in DOMAIN modTime \cup {f} |-> IF x = f THEN now ELSE modTime[x]]

\* getWriterNoLock once a file has been opened: the lock file, the cleanup, then the
\* fields.  A lock file left by a crash keeps the cleanup out.
OpenFile(f, first) ==
    /\ unlinks' = IF f \in lockFiles THEN unlinks
                  ELSE unlinks \cup {x \in DOMAIN modTime : Expired(x)}
    /\ curFn' = f /\ curBaseFn' = f[1] /\ generation' = first /\ outFh' = f

\* Write: rotation when the period has changed, then the line.  A failing rotateNoLock
\* is reported and the file is used (bailOnRotateFail is FALSE).
Rotates == genFilename # curBaseFn
WriteLine(f, files) == [files EXCEPT ![f] = now]
Write ==
    /\ \/ /\ Rotates /\ OpenFile(<<genFilename, 0>>, 0)
          /\ modTime' = WriteLine(<<genFilename, 0>>, Created(<<genFilename, 0>>))
       \/ /\ ~Rotates /\ outFh # NoFile
          /\ modTime' = IF Exists(outFh) THEN WriteLine(outFh, modTime) ELSE modTime
          /\ UNCHANGED <<unlinks, curFn, curBaseFn, generation, outFh>>
    /\ UNCHANGED <<now, lockFiles, faults, lost>>

\* The directory or the file cannot be opened: the line is lost, the state stays.
WriteFails ==
    /\ Rotates /\ faults < MaxLogFaults /\ faults' = faults + 1
    /\ UNCHANGED <<now, modTime, lockFiles, curFn, curBaseFn, generation, outFh, unlinks, lost>>

\* Rotate: a new generation of the same period, or the file of the next one.  With a
\* lock file of its name the file has been created, but is closed again, the fields
\* stay and the error is returned (bailOnRotateFail).
Rotate ==
    LET forced == ~Rotates
        first == IF Rotates THEN 0 ELSE generation + 1
        f == NewName(genFilename, first, forced) IN
    /\ CanName(genFilename, first, forced)
    /\ modTime' = Created(f)
    /\ \/ f \notin lockFiles /\ OpenFile(f, f[2])
       \/ f \in lockFiles /\ UNCHANGED <<curFn, curBaseFn, generation, outFh, unlinks>>
    /\ UNCHANGED <<now, lockFiles, faults, lost>>

\* The cleanup goroutine: os.Remove.
Unlink(f) ==
    /\ f \in unlinks /\ unlinks' = unlinks \ {f}
    /\ modTime' = [x \in DOMAIN modTime \ {f} |-> modTime[x]]
    /\ lost' = IF Exists(f) THEN lost \cup {now - modTime[f]} ELSE lost
    /\ UNCHANGED <<now, lockFiles, curFn, curBaseFn, generation, outFh, faults>>

CloseLog ==
    /\ outFh # NoFile /\ outFh' = NoFile
    /\ UNCHANGED <<now, modTime, lockFiles, curFn, curBaseFn, generation, unlinks, faults, lost>>

\* The process dies, perhaps between the lock file and its removal, and starts again.
LogCrash ==
    /\ faults < MaxLogFaults /\ faults' = faults + 1
    /\ lockFiles' \in {lockFiles, lockFiles \cup ({curFn} \ {NoFile})}
    /\ curFn' = NoFile /\ curBaseFn' = NoBase /\ generation' = 0 /\ outFh' = NoFile /\ unlinks' = {}
    /\ UNCHANGED <<now, modTime, lost>>

LogTick ==
    /\ now < MaxNow /\ now' = now + 1
    /\ UNCHANGED <<modTime, lockFiles, curFn, curBaseFn, generation, outFh, unlinks, faults, lost>>
-----------------------------------------------------------------------------
LogNext == Write \/ WriteFails \/ Rotate \/ (\E f \in unlinks : Unlink(f)) \/ CloseLog \/ LogCrash \/ LogTick

LogSpec == LogInit /\ [][LogNext]_logVars
-----------------------------------------------------------------------------
\* A line stays on disk for MaxAge, whatever rotates, crashes and restarts in the
\* meantime and however late the cleanup runs; in particular the file that is open,
\* also one that a restart appends to, is not unlinked.
Retention ==
    /\ \A age \in lost : age >= MaxAge
    /\ outFh # NoFile => Exists(outFh) /\ outFh \notin unlinks
=============================================================================
