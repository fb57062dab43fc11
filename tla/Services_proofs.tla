--------------------------- MODULE Services_proofs ---------------------------
(***************************************************************************)
(* Theorems about the parts of a node that share no state with one another *)
(* (the parts of MCServices), for every value of their constants.          *)
(***************************************************************************)
EXTENDS RedisLock, RotateLogs, DataConfig, HttpActor, ActorEvents, RequestHops, MethodCall,
        Calendar, SequenceTheorems, FiniteSetTheorems, TLAPS

(***************************************************************************)
(* RedisLock.                                                              *)
(***************************************************************************)

Dogs == [lock : Locks, token : Nat, due : BOOLEAN, done : BOOLEAN]
LockTypeOK ==
    /\ key \in Nat /\ pttl \in Nat /\ tokens \in Nat
    /\ token \in [Locks -> Nat] /\ watching \in [Locks -> BOOLEAN] /\ stopCh \in [Locks -> Nat]
    /\ dogs \subseteq Dogs
    /\ closed \subseteq Nat /\ expired \subseteq Nat /\ excused \subseteq Nat

\* cnuid.Next gives a token out once: what is in use came from it, and no two
\* objects have the same one, neither as their token nor in their stop channel.
TokensFresh ==
    /\ key <= tokens
    /\ \A l \in Locks : token[l] <= tokens /\ stopCh[l] <= tokens
    /\ \A t \in closed \cup expired : t <= tokens
    /\ \A l, m \in Locks : l # m /\ token[l] # 0 => token[l] # token[m] /\ token[l] # stopCh[m]

\* The key has not expired, and its token is watched: the ticker has fired no more
\* than once since the ttl was set (watchdog, renew).
Watched(l) ==
    \E d \in dogs : /\ d.lock = l /\ d.token = token[l] /\ d.token \notin closed
                    /\ pttl >= IF d.due THEN 2 ELSE 3
KeyAlive ==
    /\ key # 0 => pttl \in 1..Ttl /\ key \notin expired
    /\ \A l \in Locks : key = token[l] /\ key # 0 /\ key \notin excused => Watched(l)

LockInv == LockTypeOK /\ TokensFresh /\ KeyAlive /\ LockKept

\* No token has been given out at the start.
LEMMA InitLockInv == LockInit => LockInv
BY DEF LockInit, LockInv, LockTypeOK, TokensFresh, KeyAlive, LockKept

\* What a step of an object or of its watchdog keeps.
LEMMA NextLockInv == LockInv /\ [LockNext]_lockVars => LockInv'
<1> SUFFICES ASSUME LockInv, [LockNext]_lockVars PROVE LockInv'
    OBVIOUS
<1> USE DEF LockInv, Ttl
<1>1. ASSUME NEW l \in Locks, TryLock(l) PROVE LockInv'
    <2>1. LockTypeOK'
        <3>1. tokens' = tokens + 1 /\ tokens' \in Nat
            BY <1>1 DEF TryLock, LockTypeOK
        <3>2. CASE UNCHANGED <<token, watching, stopCh, dogs, excused>>
            BY <1>1, <3>1, <3>2 DEF TryLock, LockTypeOK
        <3>3. CASE token' = [token EXCEPT ![l] = tokens'] /\ StartWatchdog(l, tokens')
            <4>1. [lock |-> l, token |-> tokens', due |-> FALSE, done |-> FALSE] \in Dogs
                BY <3>1 DEF Dogs
            <4>2. dogs' \subseteq Dogs
                BY <3>3, <4>1 DEF StartWatchdog, LockTypeOK
            <4>3. watching' \in [Locks -> BOOLEAN] /\ stopCh' \in [Locks -> Nat] /\ excused' \subseteq Nat
                BY <3>1, <3>3 DEF StartWatchdog, LockTypeOK
            <4>4. token' \in [Locks -> Nat] /\ key' \in Nat /\ pttl' \in Nat
                BY <1>1, <3>1, <3>3 DEF TryLock, LockTypeOK
            <4> QED BY <1>1, <3>1, <4>2, <4>3, <4>4 DEF TryLock, LockTypeOK
        <3> QED BY <1>1, <3>2, <3>3 DEF TryLock
    <2>2. TokensFresh'
        BY <1>1 DEF TryLock, StartWatchdog, Fails, LockTypeOK, TokensFresh
    <2>3. KeyAlive'
        <3>1. key' # 0 => pttl' \in 1..Ttl /\ key' \notin expired'
            BY <1>1 DEF TryLock, LockTypeOK, TokensFresh, KeyAlive
        <3>2. ASSUME NEW m \in Locks, key' = token'[m], key' # 0, key' \notin excused' PROVE Watched(m)'
            <4>1. CASE key # 0
                BY <1>1, <3>2, <4>1 DEF TryLock, KeyAlive, Watched
            <4>2. CASE key = 0
                <5>1. key' = tokens + 1 /\ pttl' = 3 /\ closed' = closed
                    BY <1>1, <4>2 DEF TryLock
                <5>0. token[m] \in Nat /\ tokens \in Nat /\ token[m] # tokens + 1
                    BY DEF LockTypeOK, TokensFresh
                <5>2. token' = [token EXCEPT ![l] = tokens + 1] /\ StartWatchdog(l, tokens + 1)
                    <6>1. ~UNCHANGED token
                        BY <3>2, <5>0, <5>1
                    <6>2. tokens' = tokens + 1
                        BY <1>1 DEF TryLock
                    <6> QED BY <1>1, <4>2, <6>1, <6>2 DEF TryLock
                <5>3. m = l
                    <6> SUFFICES ASSUME m # l PROVE FALSE
                        OBVIOUS
                    <6>1. token'[m] = token[m]
                        BY <5>2 DEF LockTypeOK
                    <6> QED BY <3>2, <5>0, <5>1, <6>1
                <5>4. [lock |-> l, token |-> tokens + 1, due |-> FALSE, done |-> FALSE] \in dogs'
                    BY <3>2, <5>1, <5>2 DEF StartWatchdog
                <5> QED BY <5>1, <5>2, <5>3, <5>4 DEF Watched, LockTypeOK, TokensFresh
            <4> QED BY <4>1, <4>2
        <3> QED BY <3>1, <3>2 DEF KeyAlive
    <2>4. LockKept'
        BY <1>1 DEF TryLock, StartWatchdog, Fails, LockTypeOK, TokensFresh, KeyAlive, LockKept
    <2> QED BY <2>1, <2>2, <2>3, <2>4
<1>2. ASSUME NEW l \in Locks, Unlock(l) PROVE LockInv'
    <2>1. LockTypeOK'
        <3>1. watching' \in [Locks -> BOOLEAN]
            BY <1>2 DEF Unlock, StopWatchdog, LockTypeOK
        <3>2. key' \in Nat /\ token' \in [Locks -> Nat]
            BY <1>2 DEF Unlock, UnlockScript, LockTypeOK
        <3>3. closed' \subseteq Nat
            BY <1>2 DEF Unlock, StopWatchdog, LockTypeOK
        <3> QED BY <1>2, <3>1, <3>2, <3>3 DEF Unlock, LockTypeOK
    <2>2. TokensFresh'
        BY <1>2 DEF Unlock, UnlockScript, StopWatchdog, Fails, LockTypeOK, TokensFresh
    <2>3. KeyAlive'
        BY <1>2 DEF Unlock, UnlockScript, StopWatchdog, Fails, LockTypeOK, TokensFresh, KeyAlive, Watched
    <2>4. LockKept'
        BY <1>2 DEF Unlock, UnlockScript, StopWatchdog, Fails, LockTypeOK, TokensFresh, KeyAlive, LockKept
    <2> QED BY <2>1, <2>2, <2>3, <2>4
<1>3. ASSUME NEW l \in Locks, Renew(l) PROVE LockInv'
    <2>1. LockTypeOK'
        BY <1>3 DEF Renew, Renewed, LockTypeOK
    <2>2. TokensFresh'
        BY <1>3 DEF Renew, Renewed, LockTypeOK, TokensFresh
    <2>3. KeyAlive'
        BY <1>3 DEF Renew, Renewed, LockTypeOK, TokensFresh, KeyAlive, Watched
    <2>4. LockKept'
        BY <1>3 DEF Renew, Renewed, LockTypeOK, TokensFresh, KeyAlive, LockKept
    <2> QED BY <2>1, <2>2, <2>3, <2>4
<1>4. ASSUME NEW l \in Locks, LockCrash(l) PROVE LockInv'
    <2>1. LockTypeOK'
        BY <1>4 DEF LockCrash, LockTypeOK
    <2>2. TokensFresh'
        BY <1>4 DEF LockCrash, LockTypeOK, TokensFresh
    <2>3. KeyAlive'
        BY <1>4 DEF LockCrash, LockTypeOK, TokensFresh, KeyAlive, Watched
    <2>4. LockKept'
        BY <1>4 DEF LockCrash, LockTypeOK, TokensFresh, KeyAlive, LockKept
    <2> QED BY <2>1, <2>2, <2>3, <2>4
<1>5. ASSUME NEW d \in dogs, DogLeaves(d) PROVE LockInv'
    <2>1. LockTypeOK'
        <3>1. d.token \in Nat
            BY DEF LockTypeOK, Dogs
        <3> QED BY <1>5, <3>1 DEF DogLeaves, LockTypeOK
    <2>2. TokensFresh'
        BY <1>5 DEF DogLeaves, Renewed, Fails, LockTypeOK, TokensFresh
    <2>3. KeyAlive'
        BY <1>5 DEF DogLeaves, Renewed, Fails, LockTypeOK, TokensFresh, KeyAlive, Watched
    <2>4. LockKept'
        BY <1>5 DEF DogLeaves, Renewed, Fails, LockTypeOK, TokensFresh, KeyAlive, LockKept
    <2> QED BY <2>1, <2>2, <2>3, <2>4
<1>6. ASSUME NEW d \in dogs, DogRenews(d) PROVE LockInv'
    <2>1. LockTypeOK'
        <3>1. [d EXCEPT !.due = FALSE] \in Dogs
            BY DEF LockTypeOK, Dogs
        <3> QED BY <1>6, <3>1 DEF DogRenews, Renewed, LockTypeOK
    <2>2. TokensFresh'
        BY <1>6 DEF DogRenews, Renewed, LockTypeOK, TokensFresh
    <2>3. KeyAlive'
        <3> DEFINE e == [d EXCEPT !.due = FALSE]
        <3>1. e.lock = d.lock /\ e.token = d.token /\ ~e.due /\ e \in dogs'
            BY <1>6 DEF DogRenews, Renewed, LockTypeOK, Dogs
        <3> HIDE DEF e
        <3>2. ASSUME NEW m \in Locks, Watched(m) PROVE Watched(m)'
            <4>1. PICK f \in dogs : /\ f.lock = m /\ f.token = token[m] /\ f.token \notin closed
                                    /\ pttl >= IF f.due THEN 2 ELSE 3
                BY <3>2 DEF Watched
            <4>2. CASE f = d
                BY <1>6, <3>1, <4>1, <4>2 DEF DogRenews, Renewed, Watched, LockTypeOK
            <4>3. CASE f # d
                BY <1>6, <4>1, <4>3 DEF DogRenews, Renewed, Watched, LockTypeOK
            <4> QED BY <4>2, <4>3
        <3> QED BY <1>6, <3>2 DEF DogRenews, Renewed, KeyAlive
    <2>4. LockKept'
        BY <1>6 DEF DogRenews, Renewed, LockTypeOK, TokensFresh, KeyAlive, LockKept
    <2> QED BY <2>1, <2>2, <2>3, <2>4
<1>7. ASSUME NEW d \in dogs, Cancel(d) PROVE LockInv'
    <2>1. LockTypeOK'
        <3>1. [d EXCEPT !.done = TRUE] \in Dogs
            BY DEF LockTypeOK, Dogs
        <3> QED BY <1>7, <3>1 DEF Cancel, LockTypeOK
    <2>2. TokensFresh'
        BY <1>7 DEF Cancel, LockTypeOK, TokensFresh
    <2>3. KeyAlive'
        <3> DEFINE e == [d EXCEPT !.done = TRUE]
        <3>1. e.lock = d.lock /\ e.token = d.token /\ e.due = d.due /\ e \in dogs'
            BY <1>7 DEF Cancel, LockTypeOK, Dogs
        <3> HIDE DEF e
        <3>2. ASSUME NEW m \in Locks, Watched(m) PROVE Watched(m)'
            <4>1. PICK f \in dogs : /\ f.lock = m /\ f.token = token[m] /\ f.token \notin closed
                                    /\ pttl >= IF f.due THEN 2 ELSE 3
                BY <3>2 DEF Watched
            <4>2. CASE f = d
                BY <1>7, <3>1, <4>1, <4>2 DEF Cancel, Watched, LockTypeOK
            <4>3. CASE f # d
                BY <1>7, <4>1, <4>3 DEF Cancel, Watched, LockTypeOK
            <4> QED BY <4>2, <4>3
        <3> QED BY <1>7, <3>2 DEF Cancel, KeyAlive
    <2>4. LockKept'
        BY <1>7 DEF Cancel, LockTypeOK, TokensFresh, KeyAlive, LockKept
    <2> QED BY <2>1, <2>2, <2>3, <2>4
<1>8. ASSUME Tick PROVE LockInv'
    <2>1. LockTypeOK'
        <3>1. dogs' \subseteq Dogs
            BY <1>8 DEF Tick, TickerFires, LockTypeOK, Dogs
        <3> QED BY <1>8, <3>1 DEF Tick, LockTypeOK, KeyAlive
    <2>2. TokensFresh'
        BY <1>8 DEF Tick, TickerFires, LockTypeOK, TokensFresh
    <2>3. KeyAlive'
        <3>1. key' # 0 => pttl' \in 1..Ttl /\ key' \notin expired'
            BY <1>8 DEF Tick, LockTypeOK, KeyAlive
        <3>2. ASSUME NEW m \in Locks, key' = token'[m], key' # 0, key' \notin excused' PROVE Watched(m)'
            <4>1. key = token[m] /\ key # 0 /\ key \notin excused
                BY <1>8, <3>2 DEF Tick
            <4>2. PICK f \in dogs : /\ f.lock = m /\ f.token = token[m] /\ f.token \notin closed
                                    /\ pttl >= IF f.due THEN 2 ELSE 3
                BY <4>1 DEF KeyAlive, Watched
            <4>3. pttl >= 3
                BY <1>8, <4>2 DEF Tick
            <4> DEFINE e == TickerFires(f)
            <4>4. e.lock = m /\ e.token = token[m] /\ e.due /\ e \in dogs'
                BY <1>8, <4>2 DEF Tick, TickerFires, LockTypeOK, Dogs
            <4> QED BY <1>8, <4>2, <4>3, <4>4 DEF Tick, Watched, LockTypeOK
        <3> QED BY <3>1, <3>2 DEF KeyAlive
    <2>4. LockKept'
        <3>1. ASSUME NEW m \in Locks, key = token[m], pttl = 1 PROVE key \in excused
            BY <1>8, <3>1 DEF Tick, KeyAlive, Watched
        <3> QED BY <1>8, <3>1 DEF Tick, LockTypeOK, LockKept
    <2> QED BY <2>1, <2>2, <2>3, <2>4
<1>9. CASE UNCHANGED lockVars
    BY <1>9 DEF lockVars, LockTypeOK, TokensFresh, KeyAlive, Watched, LockKept
<1> QED BY <1>1, <1>2, <1>3, <1>4, <1>5, <1>6, <1>7, <1>8, <1>9 DEF LockNext

\* Who has taken the lock keeps it until his own Unlock or its expiry, and a lock made
\* WithAutoRenew does not expire under its holder but for the reasons LockKept names
\* (TryLock, Unlock, Renew, startWatchdog).
THEOREM LockIsKept == LockSpec => []LockKept
<1>1. LockInv => LockKept
    BY DEF LockInv
<1> QED BY <1>1, InitLockInv, NextLockInv, PTL DEF LockSpec
-----------------------------------------------------------------------------
(***************************************************************************)
(* RotateLogs.                                                             *)
(***************************************************************************)

\* A file is not older than its period, and its last write not in the future.
FilesDated ==
    \A f \in DOMAIN modTime : f[1] \in Nat /\ modTime[f] \in Nat /\ f[1] <= modTime[f] /\ modTime[f] <= now

\* What waits to be removed is MaxAge old, as is its period, so that no rotation opens
\* it again (rotateNoLock).
UnlinksOld ==
    \A f \in unlinks : /\ f[1] \in Nat /\ f[1] + MaxAge <= now
                       /\ Exists(f) => modTime[f] + MaxAge <= now

LogInv ==
    /\ now \in Nat /\ FilesDated /\ UnlinksOld /\ Retention
    /\ outFh # NoFile => outFh[1] = curBaseFn

\* The start of the period is no more than a period ago.
LEMMA PeriodStart ==
    ASSUME now \in Nat
    PROVE  genFilename \in Nat /\ genFilename <= now /\ now < genFilename + MaxAge
<1>1. now % RotationTime \in Nat /\ now % RotationTime < RotationTime /\ now % RotationTime <= now
    BY RotationAssumption
<1> QED BY <1>1, RotationAssumption DEF genFilename

\* The file of the present period can be created, and opened: it is not about to be
\* removed.
LEMMA CreateKeeps ==
    ASSUME LogInv, NEW f, f[1] = genFilename, f # NoFile,
           \/ modTime' = Created(f)
           \/ modTime' = WriteLine(f, Created(f)),
           UNCHANGED <<now, lost>>
    PROVE  /\ DOMAIN modTime' = DOMAIN modTime \cup {f}
           /\ \A x \in DOMAIN modTime : x # f => modTime'[x] = modTime[x]
           /\ FilesDated'
<1> USE DEF LogInv, Exists
<1>1. genFilename \in Nat /\ genFilename <= now /\ now < genFilename + MaxAge
    BY PeriodStart
<1>2. /\ DOMAIN modTime' = DOMAIN modTime \cup {f}
      /\ \A x \in DOMAIN modTime : x # f => modTime'[x] = modTime[x]
      /\ modTime'[f] = now \/ (f \in DOMAIN modTime /\ modTime'[f] = modTime[f])
    BY DEF Created, WriteLine
<1>3. FilesDated'
    BY <1>1, <1>2 DEF FilesDated
<1> QED BY <1>2, <1>3

LEMMA OpenKeeps ==
    ASSUME LogInv, NEW f, f[1] = genFilename, f # NoFile, NEW first, OpenFile(f, first),
           \/ modTime' = Created(f)
           \/ modTime' = WriteLine(f, Created(f)),
           UNCHANGED <<now, lost>>
    PROVE  LogInv'
<1> USE DEF LogInv, Exists
<1>1. genFilename \in Nat /\ genFilename <= now /\ now < genFilename + MaxAge
    BY PeriodStart
<1>2. /\ DOMAIN modTime' = DOMAIN modTime \cup {f}
      /\ \A x \in DOMAIN modTime : x # f => modTime'[x] = modTime[x]
      /\ FilesDated'
    BY CreateKeeps
<1>4. ASSUME NEW x \in unlinks'
      PROVE  /\ x[1] \in Nat /\ x[1] + MaxAge <= now
             /\ x \in DOMAIN modTime' => modTime'[x] + MaxAge <= now
             /\ x # f
    <2>1. CASE x \in unlinks
        <3>1. x[1] \in Nat /\ x[1] + MaxAge <= now
            BY <2>1 DEF UnlinksOld
        <3>2. x # f
            BY <1>1, <3>1, RotationAssumption
        <3> QED BY <1>2, <2>1, <3>1, <3>2 DEF UnlinksOld
    <2>2. CASE x \in DOMAIN modTime /\ Expired(x)
        <3>1. x[1] \in Nat /\ modTime[x] \in Nat /\ x[1] <= modTime[x] /\ modTime[x] + MaxAge <= now
            BY <2>2 DEF FilesDated, Expired
        <3>2. x # f
            BY <1>1, <3>1, RotationAssumption
        <3>3. x[1] + MaxAge <= now
            BY <3>1, <1>1, RotationAssumption
        <3> QED BY <1>2, <2>2, <3>1, <3>2, <3>3
    <2> QED BY <1>4, <2>1, <2>2 DEF OpenFile
<1>5. Retention'
    BY <1>2, <1>4 DEF Retention, OpenFile
<1> QED BY <1>2, <1>4, <1>5 DEF UnlinksOld, OpenFile

\* LogInv is inductive.
LEMMA NextLogInv == LogInv /\ [LogNext]_logVars => LogInv'
<1> SUFFICES ASSUME LogInv, [LogNext]_logVars PROVE LogInv'
    OBVIOUS
<1> USE DEF LogInv
<1>1. CASE Write
    <2>1. CASE Rotates
        <3>1. /\ OpenFile(<<genFilename, 0>>, 0) /\ UNCHANGED <<now, lost>>
              /\ modTime' = WriteLine(<<genFilename, 0>>, Created(<<genFilename, 0>>))
            BY <1>1, <2>1 DEF Write
        <3> QED BY <3>1, OpenKeeps DEF NoFile
    <2>2. CASE ~Rotates
        <3>1. outFh # NoFile /\ outFh \in DOMAIN modTime /\ outFh \notin unlinks
            BY <1>1, <2>2 DEF Write, Retention, Exists
        <3>2. modTime' = [modTime EXCEPT ![outFh] = now]
            BY <1>1, <2>2, <3>1 DEF Write, WriteLine, Exists
        <3>3. FilesDated'
            BY <1>1, <3>1, <3>2 DEF Write, FilesDated
        <3>4. UnlinksOld'
            BY <1>1, <2>2, <3>1, <3>2 DEF Write, UnlinksOld, Exists
        <3> QED BY <1>1, <2>2, <3>1, <3>2, <3>3, <3>4 DEF Write, Retention, Exists
    <2> QED BY <2>1, <2>2
<1>2. CASE WriteFails
    BY <1>2 DEF WriteFails, FilesDated, UnlinksOld, Retention, Exists
<1>3. CASE Rotate
    <2>1. PICK f, first : /\ f[1] = genFilename /\ f # NoFile
                          /\ modTime' = Created(f)
                          /\ UNCHANGED <<now, lost>>
                          /\ \/ OpenFile(f, first)
                             \/ UNCHANGED <<curFn, curBaseFn, generation, outFh, unlinks>>
        <3> DEFINE f == NewName(genFilename, IF Rotates THEN 0 ELSE generation + 1, ~Rotates)
        <3>1. f[1] = genFilename /\ f # NoFile
            BY DEF NewName, NoFile
        <3> QED BY <1>3, <3>1 DEF Rotate
    <2>2. CASE OpenFile(f, first)
        BY <2>1, <2>2, OpenKeeps
    <2>3. CASE UNCHANGED <<curFn, curBaseFn, generation, outFh, unlinks>>
        <3>1. /\ DOMAIN modTime' = DOMAIN modTime \cup {f}
              /\ \A x \in DOMAIN modTime : x # f => modTime'[x] = modTime[x]
              /\ FilesDated'
            BY <2>1, CreateKeeps
        <3>2. genFilename \in Nat /\ genFilename <= now /\ now < genFilename + MaxAge
            BY PeriodStart
        <3>3. f \notin unlinks
            BY <2>1, <3>2, RotationAssumption DEF UnlinksOld
        <3>4. UnlinksOld'
            BY <2>1, <2>3, <3>1, <3>3 DEF UnlinksOld, Exists
        <3>5. Retention'
            BY <2>1, <2>3, <3>1 DEF Retention, Exists
        <3> QED BY <2>1, <2>3, <3>1, <3>4, <3>5
    <2> QED BY <2>1, <2>2, <2>3
<1>4. CASE \E f \in unlinks : Unlink(f)
    <2>1. PICK f \in unlinks : Unlink(f)
        BY <1>4
    <2>2. FilesDated'
        BY <2>1 DEF Unlink, FilesDated
    <2>3. UnlinksOld'
        BY <2>1 DEF Unlink, UnlinksOld, Exists
    <2>4. Exists(f) => now - modTime[f] >= MaxAge
        BY RotationAssumption DEF UnlinksOld, FilesDated, Exists
    <2>5. Retention'
        BY <2>1, <2>4 DEF Unlink, Retention, Exists
    <2> QED BY <2>1, <2>2, <2>3, <2>5 DEF Unlink
<1>5. CASE CloseLog
    BY <1>5 DEF CloseLog, FilesDated, UnlinksOld, Retention, Exists
<1>6. CASE LogCrash
    BY <1>6 DEF LogCrash, FilesDated, UnlinksOld, Retention, Exists
<1>7. CASE LogTick
    BY <1>7, RotationAssumption DEF LogTick, FilesDated, UnlinksOld, Retention, Exists
<1>8. CASE UNCHANGED logVars
    BY <1>8 DEF logVars, FilesDated, UnlinksOld, Retention, Exists
<1> QED BY <1>1, <1>2, <1>3, <1>4, <1>5, <1>6, <1>7, <1>8 DEF LogNext

\* A line stays on disk for MaxAge, and the file that is open is not unlinked, for any
\* period that is not longer than MaxAge (rotateNoLock, getWriterNoLock).
THEOREM LinesAreRetained == LogSpec => []Retention
<1>1. LogInit => LogInv
    BY DEF LogInit, LogInv, FilesDated, UnlinksOld, Retention
<1>2. LogInv => Retention
    BY DEF LogInv
<1> QED BY <1>1, <1>2, NextLogInv, PTL DEF LogSpec
-----------------------------------------------------------------------------
(***************************************************************************)
(* DataConfig.                                                             *)
(***************************************************************************)

ConfigTypeOK ==
    /\ source \in {"file", "redis"} /\ version \in Nat \ {0} /\ notices \in Nat
    /\ cpc \in {"source", "read", "load", "hook", "up", "stopping", "stopped"}
    /\ wgo \in {"off", "subscribe", "select", "change", "end"}

\* A change that somebody will still read: its notice is under way, or the goroutine of
\* the source has read it.
Coming == notices > 0 \/ (wgo = "change" /\ got = version)

\* The version of the source will not be loaded any more, or not because it is bad.
Missed == version \in missed

\* Between Init and Stop: the goroutine listens from its subscription on; what it has
\* read is not outdated unless a notice is under way; and what Init has read, loaded
\* or hooked is the version of the source or will be replaced, unless it was missed.
Live == cpc \in {"read", "load", "hook", "up"}
ConfigInv ==
    /\ ConfigTypeOK
    /\ cpc = "source" => wgo = "off" /\ ~subscribed /\ ~changeFn /\ notices = 0
    /\ Live => (wgo \in {"select", "change"} => subscribed) /\ (cpc = "up" => changeFn) /\ (changeFn => cpc = "up")
    /\ Live /\ wgo = "change" => Coming \/ Missed
    /\ cpc = "load" => bytes = version \/ Coming \/ Missed
    /\ cpc \in {"hook", "up"} => loaded = version \/ version \in BadVersions \/ Coming \/ Missed

\* ConfigInv is inductive.
LEMMA NextConfigInv == ConfigInv /\ [ConfigNext]_configVars => ConfigInv'
<1> SUFFICES ASSUME ConfigInv, [ConfigNext]_configVars PROVE ConfigInv'
    OBVIOUS
<1> USE DEF ConfigInv, ConfigTypeOK, Coming, Live, Missed, Miss
<1>1. CASE Edit
    <2>1. CASE subscribed
        BY <1>1, <2>1 DEF Edit
    <2>2. CASE ~subscribed
        <3>1. cpc \in {"source", "read"} \/ version' \in missed'
            BY <1>1, <2>2 DEF Edit
        <3> QED BY <1>1, <2>2, <3>1 DEF Edit
    <2> QED BY <2>1, <2>2
<1>2. CASE FileInit
    BY <1>2 DEF FileInit
<1>3. CASE RedisInit
    BY <1>3 DEF RedisInit
<1>4. CASE Subscribe
    BY <1>4 DEF Subscribe
<1>5. CASE ReadFirst
    <2>1. PICK data \in {0, version} :
            IF data = 0 THEN cpc' = "hook" /\ missed' = missed \cup {version} /\ UNCHANGED bytes
                        ELSE cpc' = "load" /\ bytes' = data /\ UNCHANGED missed
        BY <1>5 DEF ReadFirst, ReadBytes
    <2>a. cpc = "read" /\ UNCHANGED <<source, version, subscribed, notices, wgo, got, changeFn, loaded>>
        BY <1>5 DEF ReadFirst
    <2>2. CASE data = 0
        BY <2>a, <2>1, <2>2
    <2>3. CASE data # 0
        <3>1. cpc' = "load" /\ bytes' = version /\ missed' = missed
            BY <2>1, <2>3
        <3>2. ConfigTypeOK'
            BY <2>a, <3>1
        <3>3. Live /\ Live' /\ (Coming' <=> Coming)
            BY <2>a, <3>1
        <3> QED
            BY <2>a, <3>1, <3>2, <3>3
    <2> QED BY <2>2, <2>3
<1>6. CASE LoadFirst
    BY <1>6 DEF LoadFirst, OnLoadConfig
<1>7. CASE Receive
    <2>1. PICK data \in {0, version} :
            IF data = 0 THEN Miss(version) /\ UNCHANGED <<wgo, got>>
                        ELSE wgo' = "change" /\ got' = data /\ UNCHANGED missed
        BY <1>7 DEF Receive, ReadBytes
    <2>2. CASE data = 0
        BY <1>7, <2>1, <2>2 DEF Receive
    <2>3. CASE data = version
        BY <1>7, <2>1, <2>3 DEF Receive
    <2> QED BY <2>1, <2>2, <2>3
<1>8. CASE Change
    BY <1>8 DEF Change, OnLoadConfig
<1>9. CASE OnStop
    BY <1>9 DEF OnStop, FileStop, RedisStop
<1>10. CASE LoseNotices
    BY <1>10 DEF LoseNotices
<1>11. CASE UNCHANGED configVars
    BY <1>11 DEF configVars
<1> QED BY <1>1, <1>2, <1>3, <1>4, <1>5, <1>6, <1>7, <1>8, <1>9, <1>10, <1>11 DEF ConfigNext, ConfigSteps

\* The configuration is the last edit, unless just that one was missed or not read,
\* whatever was missed before (Component.Init, onLoadConfig, the goroutines of
\* SourceFile and SourceRedis).
THEOREM ConfigIsFresh == ConfigSpec => []ConfigFresh
<1>1. ConfigInit => ConfigInv
    BY DEF ConfigInit, ConfigInv, ConfigTypeOK, Coming, Live, Missed
<1>2. ConfigInv => ConfigFresh
    BY DEF ConfigInv, ConfigTypeOK, Coming, Missed, ConfigFresh
<1> QED BY <1>1, <1>2, NextConfigInv, PTL DEF ConfigSpec

(***************************************************************************)
(* HttpActor.                                                              *)
(***************************************************************************)

MessageTypes == {"REQUEST", "NOTIFY"}
ActorNumbers == {0, 1, 2}
Places == {"new", "body", "looked", "found", "posted", "answered"}
Statuses == {0, 200, 202, 400, 401, 404, 405, 412, 413, 415, 500, 504}
HttpRecords ==
    [pc : Places, defect : Defects, msgType : MessageTypes \cup {"none"},
     seen : ActorNumbers, found : ActorNumbers, status : Statuses]
MailRecords == [at : {"none", "queued", "dropped", "done"}, ran : ActorNumbers, result : Statuses]
ActorRecords == [nr : ActorNumbers, phase : {"up", "closing", "gone"}]

\* What the table says of the Actor, and what the Actor has made of a message.
ActorOK ==
    /\ table # "none" => actor.nr # 0 /\ table = TypeOf(actor.nr)
    /\ actor.phase # "gone" => actor.nr # 0 /\ table # "none"
MailOK(m) ==
    /\ m.at # "done" => m.ran = 0 /\ m.result = 0
    /\ m.at = "done" => m.result \in {200, 400, 404, 500, 504} /\ (m.result = 200 => m.ran # 0)
Lost(e) == e.found # actor.nr \/ actor.phase = "gone"

\* What a handler knows at each of its places (record e, its message m): nothing is
\* posted before Post, the Actor of Dispatch's look-up has the type that was read
\* first, only a REQUEST waits, nothing is written before the answer (ServeHTTP,
\* Dispatch, InvokeTarget, NotifyTarget).
Handler(e, m) ==
    /\ e.pc \in {"new", "body", "looked", "found"} => m.at = "none"
    /\ e.pc # "answered" => e.status = 0
    /\ e.pc = "body" => e.msgType \in MessageTypes
    /\ e.pc \in {"looked", "found", "posted"} => e.seen # 0 /\ e.msgType = TypeOf(e.seen)
    /\ e.pc \in {"found", "posted"} => e.found # 0
    /\ e.pc = "posted" => e.msgType = "REQUEST" /\ m.at # "none"
    /\ m.at # "none" => e.found # 0
\* What an answer says of the message.
Told(e, m) ==
    /\ e.status = 200 => m.at = "done" /\ m.ran # 0 /\ (m.ran = e.seen => TypeOf(m.ran) = "REQUEST")
    /\ e.status = 202 => m.at # "none" /\ e.msgType = "NOTIFY"
    /\ e.status \in Refusals => m.at \in {"none", "done"} /\ (m.ran = 0 \/ m.result = e.status)
\* Where the message is, by what has become of its Actor.
Kept(e, m) ==
    /\ e.found <= actor.nr
    /\ m.at = "queued" => ~Lost(e)
    /\ m.at = "dropped" => Lost(e)

HttpTypes ==
    /\ table \in MessageTypes \cup {"none"} /\ actor \in ActorRecords
    /\ req \in [HttpRequests -> HttpRecords] /\ mail \in [HttpRequests -> MailRecords]
Fits(e, m) == MailOK(m) /\ Handler(e, m) /\ Told(e, m) /\ Kept(e, m)
HttpInv == HttpTypes /\ ActorOK /\ \A r \in HttpRequests : Fits(req[r], mail[r])

\* The record of a request that has its answer, and a step for request r that leaves
\* it with record e and message m.
Answered(x, status) == [x EXCEPT !.pc = "answered", !.status = status]
RequestStep(r, e, m) ==
    /\ UNCHANGED <<table, actor>> /\ SetReq(r, e) /\ mail' = [mail EXCEPT ![r] = m]

\* The table is empty and no request has come.
LEMMA InitHttpInv == HttpInit => HttpInv
<1> SUFFICES ASSUME HttpInit PROVE HttpInv
    OBVIOUS
<1>1. NewRequest \in HttpRecords /\ NoMail \in MailRecords
    BY DEF NewRequest, HttpRecords, Places, Statuses, MessageTypes, Defects, NoMail, MailRecords, ActorNumbers
<1>2. HttpTypes /\ ActorOK
    BY <1>1 DEF HttpInit, HttpTypes, ActorOK, ActorRecords, ActorNumbers
<1>3. ASSUME NEW r \in HttpRequests PROVE Fits(req[r], mail[r])
    BY DEF HttpInit, Fits, NewRequest, NoMail, MailOK, Handler, Told, Kept, Refusals
<1> QED
    BY <1>2, <1>3 DEF HttpInv

\* What a step keeps: the steps of the lifecycle and of the Actor change the table, the
\* Actor and what is queued for it, those of a handler or of the loop one request.
LEMMA NextHttpInv == HttpInv /\ [HttpNext]_serviceVars => HttpInv'
<1> SUFFICES ASSUME HttpInv, [HttpNext]_serviceVars PROVE HttpInv'
    OBVIOUS
<1>a. HttpTypes /\ ActorOK
    BY DEF HttpInv
<1>b. \A r \in HttpRequests : Fits(req[r], mail[r]) /\ req[r] \in HttpRecords /\ mail[r] \in MailRecords
    BY DEF HttpInv, HttpTypes
<1>d. ASSUME NEW x \in HttpRecords, NEW s \in Statuses
      PROVE  /\ Answered(x, s) \in HttpRecords
             /\ Answered(x, s).pc = "answered" /\ Answered(x, s).status = s
             /\ Answered(x, s).seen = x.seen /\ Answered(x, s).found = x.found /\ Answered(x, s).msgType = x.msgType
    BY DEF HttpRecords, Answered, Places
<1>1. ASSUME UNCHANGED <<table, actor, req, mail>> PROVE HttpInv'
    BY <1>1 DEF HttpInv, HttpTypes, ActorOK, Fits, MailOK, Handler, Told, Kept, Lost
<1>2. ASSUME NEW r \in HttpRequests, NEW e \in HttpRecords, NEW m \in MailRecords, RequestStep(r, e, m), Fits(e, m)
      PROVE  HttpInv'
    <2>1. req' \in [HttpRequests -> HttpRecords] /\ req'[r] = e /\ \A q \in HttpRequests \ {r} : req'[q] = req[q]
        BY <1>2, <1>a DEF SetReq, RequestStep, HttpTypes
    <2>2. mail' \in [HttpRequests -> MailRecords] /\ mail'[r] = m /\ \A q \in HttpRequests \ {r} : mail'[q] = mail[q]
        BY <1>2, <1>a DEF RequestStep, HttpTypes
    <2>3. UNCHANGED <<table, actor>>
        BY <1>2 DEF RequestStep
    <2>4. ASSUME NEW q \in HttpRequests PROVE Fits(req[q], mail[q])'
        <3>1. CASE q = r
            BY <1>2, <2>1, <2>2, <2>3, <3>1 DEF Fits, MailOK, Handler, Told, Kept, Lost
        <3>2. CASE q # r
            <4>1. req'[q] = req[q] /\ mail'[q] = mail[q] /\ Fits(req[q], mail[q])
                BY <2>1, <2>2, <3>2, <1>b
            <4> QED
                BY <2>3, <4>1 DEF Fits, MailOK, Handler, Told, Kept, Lost
        <3> QED
            BY <3>1, <3>2
    <2>5. HttpTypes' /\ ActorOK'
        BY <1>a, <2>1, <2>2, <2>3 DEF HttpTypes, ActorOK
    <2> QED
        BY <2>4, <2>5 DEF HttpInv
<1>3. ASSUME NEW r \in HttpRequests, UNCHANGED <<table, actor, mail>>, NEW status \in Statuses, Answer(r, status),
             Fits(Answered(req[r], status), mail[r])
      PROVE  HttpInv'
    <2>1. Answered(req[r], status) \in HttpRecords /\ mail[r] \in MailRecords
        BY <1>b, <1>d
    <2>2. RequestStep(r, Answered(req[r], status), mail[r])
        BY <1>3, <1>a DEF RequestStep, Answer, Answered, HttpTypes
    <2> QED
        BY <1>2, <1>3, <2>1, <2>2
<1>4. ASSUME NEW r \in HttpRequests, UNCHANGED <<table, actor, mail>>, mail[r].at = "none",
             NEW status \in {401, 404, 405, 412, 413, 415, 504}, Answer(r, status)
      PROVE  HttpInv'
    <2>1. status \in Statuses /\ req[r] \in HttpRecords /\ Fits(req[r], mail[r])
        BY <1>b DEF Statuses
    <2> DEFINE e == Answered(req[r], status)
    <2>2. /\ e.pc = "answered" /\ e.status = status
          /\ e.seen = req[r].seen /\ e.found = req[r].found /\ e.msgType = req[r].msgType
        BY <2>1, <1>d
    <2> HIDE DEF e
    <2>3. Fits(e, mail[r])
        BY <1>4, <2>1, <2>2 DEF Fits, MailOK, Handler, Told, Kept, Lost
    <2> QED
        BY <1>3, <1>4, <2>1, <2>3 DEF e
\* The Actor goes, and what is queued for it is dropped.
<1>5. ASSUME req' = req, table' = "none", actor' = [actor EXCEPT !.phase = "gone"], mail' = Destroyed PROVE HttpInv'
    <2>1. actor' \in ActorRecords /\ actor'.nr = actor.nr /\ actor'.phase = "gone"
        BY <1>5, <1>a DEF HttpTypes, ActorRecords
    <2>2. ASSUME NEW r \in HttpRequests
          PROVE  /\ mail'[r] \in MailRecords /\ mail'[r].ran = mail[r].ran /\ mail'[r].result = mail[r].result
                 /\ mail'[r].at = IF mail[r].at = "queued" THEN "dropped" ELSE mail[r].at
        BY <1>5, <1>b DEF Destroyed, MailRecords
    <2>3. mail' \in [HttpRequests -> MailRecords]
        BY <1>5, <2>2 DEF Destroyed
    <2>4. HttpTypes' /\ ActorOK'
        BY <1>5, <1>a, <2>1, <2>3 DEF HttpTypes, ActorOK
    <2>5. ASSUME NEW r \in HttpRequests PROVE Fits(req[r], mail[r])'
        BY <1>5, <1>b, <2>1, <2>2 DEF Fits, MailOK, Handler, Told, Kept, Lost
    <2> QED
        BY <2>4, <2>5 DEF HttpInv
\* An Actor comes, with the next number.
<1>6. ASSUME UNCHANGED <<req, mail>>, table = "none", NEW n \in {1, 2}, actor.nr = n - 1,
             table' = TypeOf(n), actor' = [nr |-> n, phase |-> "up"]
      PROVE  HttpInv'
    <2>1. HttpTypes' /\ ActorOK'
        BY <1>a, <1>6 DEF HttpTypes, ActorOK, ActorRecords, ActorNumbers, MessageTypes, TypeOf
    <2>2. actor.phase = "gone" /\ actor'.nr = n /\ actor'.phase = "up"
        BY <1>a, <1>6 DEF ActorOK
    <2>3. ASSUME NEW r \in HttpRequests PROVE Fits(req[r], mail[r])'
        <3>1. Fits(req[r], mail[r]) /\ req[r].found \in ActorNumbers
            BY <1>b DEF HttpRecords
        <3>2. Kept(req[r], mail[r])'
            BY <1>6, <2>2, <3>1 DEF Fits, Kept, Lost, ActorNumbers
        <3> QED
            BY <1>6, <3>1, <3>2 DEF Fits, MailOK, Handler, Told
    <2> QED
        BY <2>1, <2>3 DEF HttpInv
<1>7. CASE HttpStarting
    <2>1. UNCHANGED <<req, mail>>
        BY <1>7 DEF HttpStarting
    <2>2. CASE UNCHANGED <<table, actor>>
        BY <1>1, <2>1, <2>2
    <2>3. CASE actor.nr = 0 /\ table' = "REQUEST" /\ actor' = [nr |-> 1, phase |-> "up"]
        <3>1. table = "none" /\ TypeOf(1) = "REQUEST"
            BY <1>a, <2>3 DEF ActorOK, TypeOf
        <3>2. actor.nr = 1 - 1
            BY <2>3
        <3> QED
            BY <1>6, <2>1, <2>3, <3>1, <3>2
    <2> QED
        BY <1>7, <2>2, <2>3 DEF HttpStarting, StartEffects
<1>8. CASE HttpStopping
    BY <1>1, <1>5, <1>8 DEF HttpStopping, StopEffects
<1>9. CASE HttpOther \/ ServerSteps
    BY <1>1, <1>9 DEF HttpOther, httpVars, ServerSteps, Serve, ServerShutdown
<1>10. CASE ActorCloses
    <2>1. UNCHANGED <<req, mail, table>> /\ actor.phase = "up" /\ actor' = [actor EXCEPT !.phase = "closing"]
        BY <1>10 DEF ActorCloses
    <2>2. actor' \in ActorRecords /\ actor'.nr = actor.nr /\ actor'.phase = "closing"
        BY <2>1, <1>a DEF HttpTypes, ActorRecords
    <2>3. HttpTypes' /\ ActorOK'
        BY <1>a, <2>1, <2>2 DEF HttpTypes, ActorOK
    <2>4. ASSUME NEW r \in HttpRequests PROVE Fits(req[r], mail[r])'
        BY <1>b, <2>1, <2>2 DEF Fits, MailOK, Handler, Told, Kept, Lost
    <2> QED
        BY <2>3, <2>4 DEF HttpInv
<1>11. CASE ActorStops
    BY <1>5, <1>11 DEF ActorStops
<1>12. CASE ActorAgain
    <2>1. actor.nr = 2 - 1
        BY <1>12 DEF ActorAgain
    <2> QED
        BY <1>6, <1>12, <2>1 DEF ActorAgain
<1>13. ASSUME NEW r \in HttpRequests, ServeHTTP(r) PROVE HttpInv'
    <2>1. PICK defect \in Defects : Admit(r, defect)
        BY <1>13 DEF ServeHTTP
    <2>2. UNCHANGED <<table, actor, mail>> /\ req[r].pc = "new"
        BY <1>13 DEF ServeHTTP
    <2>3. req[r] \in HttpRecords /\ mail[r] \in MailRecords /\ Fits(req[r], mail[r]) /\ mail[r].at = "none"
        BY <1>b, <2>2 DEF Fits, Handler
    <2>4. CASE \E status \in {401, 404, 405, 415} : Answer(r, status)
        BY <1>4, <2>2, <2>3, <2>4
    <2> DEFINE e == [req[r] EXCEPT !.pc = "body", !.defect = defect, !.msgType = table]
    <2>5. CASE SetReq(r, e) /\ table # "none"
        <3>1. e \in HttpRecords /\ e.pc = "body" /\ e.msgType \in MessageTypes /\ e.status = 0
              /\ e.seen = req[r].seen /\ e.found = req[r].found
            BY <2>2, <2>3, <2>5, <1>a, <1>b DEF HttpRecords, Places, HttpTypes, Fits, Handler
        <3>2. RequestStep(r, e, mail[r])
            BY <2>2, <2>5, <1>a DEF RequestStep, HttpTypes
        <3> HIDE DEF e
        <3>3. Fits(e, mail[r])
            BY <2>3, <3>1 DEF Fits, Handler, Told, Kept, Lost, Refusals
        <3> QED
            BY <1>2, <2>3, <3>1, <3>2, <3>3
    <2> QED
        BY <2>1, <2>4, <2>5 DEF Admit
<1>14. ASSUME NEW r \in HttpRequests, Dispatch(r) PROVE HttpInv'
    <2>1. UNCHANGED <<table, actor, mail>> /\ req[r].pc = "body"
        BY <1>14 DEF Dispatch
    <2>2. req[r] \in HttpRecords /\ mail[r] \in MailRecords /\ Fits(req[r], mail[r]) /\ mail[r].at = "none"
        BY <1>b, <2>1 DEF Fits, Handler
    <2>3. CASE \E status \in {404, 412, 413, 504} : Answer(r, status)
        BY <1>4, <2>1, <2>2, <2>3
    <2> DEFINE e == [req[r] EXCEPT !.pc = "looked", !.seen = actor.nr]
    <2>4. CASE SetReq(r, e) /\ table = req[r].msgType
        <3>1. req[r].msgType \in MessageTypes /\ req[r].status = 0
            BY <2>1, <2>2 DEF Fits, Handler
        <3>2. actor.nr # 0 /\ actor.nr \in ActorNumbers /\ req[r].msgType = TypeOf(actor.nr)
            BY <2>4, <3>1, <1>a DEF ActorOK, HttpTypes, ActorRecords, MessageTypes
        <3>3. e \in HttpRecords /\ e.pc = "looked" /\ e.seen = actor.nr /\ e.msgType = req[r].msgType /\ e.status = 0
              /\ e.found = req[r].found
            BY <2>2, <3>1, <3>2 DEF HttpRecords, Places
        <3>4. RequestStep(r, e, mail[r])
            BY <2>1, <2>4, <1>a DEF RequestStep, HttpTypes
        <3> HIDE DEF e
        <3>5. Fits(e, mail[r])
            BY <2>2, <3>2, <3>3 DEF Fits, Handler, Told, Kept, Lost, Refusals
        <3> QED
            BY <1>2, <2>2, <3>3, <3>4, <3>5
    <2>5. DispatchFails(req[r].msgType) \in {0, 404, 412} /\ (DispatchFails(req[r].msgType) = 0 => table = req[r].msgType)
        BY DEF DispatchFails
    <2> QED
        BY <1>14, <2>3, <2>4, <2>5 DEF Dispatch, Ended
<1>15. ASSUME NEW r \in HttpRequests, FindActor(r) PROVE HttpInv'
    <2>1. UNCHANGED <<table, actor, mail>> /\ req[r].pc = "looked"
        BY <1>15 DEF FindActor
    <2>2. req[r] \in HttpRecords /\ mail[r] \in MailRecords /\ Fits(req[r], mail[r]) /\ mail[r].at = "none"
        BY <1>b, <2>1 DEF Fits, Handler
    <2>3. CASE \E status \in {404, 504} : Answer(r, status)
        BY <1>4, <2>1, <2>2, <2>3
    <2> DEFINE e == [req[r] EXCEPT !.pc = "found", !.found = actor.nr]
    <2>4. CASE SetReq(r, e) /\ actor.phase = "up"
        <3>1. actor.nr # 0 /\ actor.nr \in ActorNumbers /\ req[r].status = 0
            BY <2>1, <2>2, <2>4, <1>a DEF ActorOK, HttpTypes, ActorRecords, Fits, Handler
        <3>2. e \in HttpRecords /\ e.pc = "found" /\ e.seen = req[r].seen /\ e.msgType = req[r].msgType /\ e.status = 0
              /\ e.found = actor.nr
            BY <2>2, <3>1 DEF HttpRecords, Places
        <3>3. RequestStep(r, e, mail[r])
            BY <2>1, <2>4, <1>a DEF RequestStep, HttpTypes
        <3> HIDE DEF e
        <3>4. Fits(e, mail[r])
            BY <2>1, <2>2, <3>1, <3>2 DEF Fits, Handler, Told, Kept, Lost, Refusals, ActorNumbers
        <3> QED
            BY <1>2, <2>2, <3>2, <3>3, <3>4
    <2> QED
        BY <1>15, <2>3, <2>4 DEF FindActor, Ended
<1>16. ASSUME NEW r \in HttpRequests, Post(r) PROVE HttpInv'
    <2>1. UNCHANGED <<table, actor>> /\ req[r].pc = "found"
        BY <1>16 DEF Post
    <2>2. req[r] \in HttpRecords /\ Fits(req[r], mail[r]) /\ req[r].status = 0 /\ req[r].msgType \in MessageTypes
        BY <1>b, <2>1 DEF Fits, Handler, MessageTypes, TypeOf
    <2>3. PICK at \in {"queued", "dropped"} :
              /\ at = "queued" <=> req[r].found = actor.nr /\ actor.phase # "gone"
              /\ SetMail(r, [NoMail EXCEPT !.at = at])
        BY <1>16 DEF Post
    <2> DEFINE m == [NoMail EXCEPT !.at = at]
    <2>4. m \in MailRecords /\ m.at = at /\ m.ran = 0 /\ m.result = 0
        BY <2>3 DEF NoMail, MailRecords, ActorNumbers, Statuses
    <2>5. mail' = [mail EXCEPT ![r] = m]
        BY <2>3 DEF SetMail
    <2> HIDE DEF m
    <2>6. MailOK(m) /\ Kept(req[r], m)
        BY <2>2, <2>3, <2>4 DEF MailOK, Kept, Lost, Fits
    <2>7. ASSUME NEW e \in HttpRecords, SetReq(r, e), e.pc \in {"answered", "posted"}, e.seen = req[r].seen,
                 e.found = req[r].found, e.msgType = req[r].msgType, e.status \in {0, 202},
                 e.pc = "posted" => e.msgType = "REQUEST" /\ e.status = 0, e.status = 202 => e.msgType = "NOTIFY"
          PROVE  HttpInv'
        <3>1. Fits(e, m)
            BY <2>1, <2>2, <2>4, <2>6, <2>3, <2>7 DEF Fits, Handler, Told, Kept, Lost, Refusals
        <3> QED
            BY <1>2, <2>1, <2>4, <2>5, <2>7, <3>1 DEF RequestStep
    <2>8. CASE req[r].msgType = "NOTIFY" /\ Answer(r, 202)
        <3>1. 202 \in Statuses /\ SetReq(r, Answered(req[r], 202))
            BY <2>8 DEF Statuses, Answer, Answered
        <3> QED
            BY <2>2, <2>7, <2>8, <3>1, <1>d
    <2>9. CASE req[r].msgType = "REQUEST" /\ SetReq(r, [req[r] EXCEPT !.pc = "posted"])
        <3> DEFINE e == [req[r] EXCEPT !.pc = "posted"]
        <3>1. e \in HttpRecords /\ e.pc = "posted" /\ e.seen = req[r].seen /\ e.found = req[r].found
              /\ e.msgType = req[r].msgType /\ e.status = req[r].status
            BY <2>2 DEF HttpRecords, Places
        <3> HIDE DEF e
        <3>2. SetReq(r, e)
            BY <2>9 DEF e
        <3> QED
            BY <2>2, <2>7, <2>9, <3>1, <3>2
    <2>10. CASE Answer(r, 0)
        <3>1. 0 \in Statuses /\ SetReq(r, Answered(req[r], 0))
            BY <2>10 DEF Statuses, Answer, Answered
        <3> QED
            BY <2>2, <2>7, <3>1, <1>d
    <2> QED
        BY <1>16, <2>8, <2>9, <2>10 DEF Post
<1>17. ASSUME NEW r \in HttpRequests, Run(r) PROVE HttpInv'
    <2>1. UNCHANGED <<table, actor, req>> /\ mail[r].at = "queued"
        BY <1>17 DEF Run
    <2>2. req[r] \in HttpRecords /\ mail[r] \in MailRecords /\ Fits(req[r], mail[r])
        BY <1>b
    <2>3. mail[r].ran = 0 /\ req[r].found # 0 /\ req[r].found \in ActorNumbers /\ req[r].status # 200
        BY <2>1, <2>2 DEF Fits, MailOK, Handler, Told, HttpRecords
    <2>4. ASSUME NEW m \in MailRecords, SetMail(r, m), m.at = "done", MailOK(m),
                 m.ran # 0 => req[r].status \notin Refusals
          PROVE  HttpInv'
        <3>1. Fits(req[r], m)
            BY <2>1, <2>2, <2>3, <2>4 DEF Fits, Handler, Told, Kept
        <3>2. RequestStep(r, req[r], m)
            BY <2>1, <2>4, <1>a DEF RequestStep, SetMail, SetReq, HttpTypes
        <3> QED
            BY <1>2, <2>2, <2>4, <3>1, <3>2
    <2>5. ASSUME NEW res \in {400, 404, Ended}, SetMail(r, [mail[r] EXCEPT !.at = "done", !.result = res])
          PROVE  HttpInv'
        <3> DEFINE m == [mail[r] EXCEPT !.at = "done", !.result = res]
        <3>a. res \in Statuses
            BY <2>5 DEF Statuses, Ended
        <3>b. mail[r] \in [at : {"none", "queued", "dropped", "done"}, ran : ActorNumbers, result : Statuses]
            BY <2>2 DEF MailRecords
        <3>c. m \in [at : {"none", "queued", "dropped", "done"}, ran : ActorNumbers, result : Statuses]
              /\ m.at = "done" /\ m.result = res /\ m.ran = mail[r].ran
            BY <3>a, <3>b
        <3>1. m \in MailRecords /\ m.at = "done" /\ m.result = res /\ m.ran = 0
            BY <2>3, <3>c DEF MailRecords
        <3> HIDE DEF m
        <3>2. MailOK(m)
            BY <3>1, <2>5 DEF MailOK, Ended
        <3>3. SetMail(r, m)
            BY <2>5 DEF m
        <3> QED
            BY <2>4, <3>1, <3>2, <3>3
    <2>6. ASSUME NEW res \in {200, 404, 500}, req[r].pc # "answered" \/ req[r].msgType = "NOTIFY",
                 SetMail(r, [at |-> "done", ran |-> req[r].found, result |-> res])
          PROVE  HttpInv'
        <3> DEFINE m == [at |-> "done", ran |-> req[r].found, result |-> res]
        <3>1. m \in MailRecords /\ m.at = "done" /\ m.result = res /\ m.ran # 0
            BY <2>3, <2>6 DEF MailRecords, Statuses
        <3> HIDE DEF m
        <3>2. MailOK(m)
            BY <3>1, <2>6 DEF MailOK
        <3>3. SetMail(r, m)
            BY <2>6 DEF m
        <3>4. req[r].status \notin Refusals
            BY <2>1, <2>2 DEF Fits, Told
        <3> QED
            BY <2>4, <3>1, <3>2, <3>3, <3>4
    <2>7. CASE \E res \in {400, 404, Ended} : SetMail(r, [mail[r] EXCEPT !.at = "done", !.result = res])
        <3>1. PICK res \in {400, 404, Ended} :
                  SetMail(r, [mail[r] EXCEPT !.at = "done", !.result = res])
            BY <2>7, Zenon
        <3> QED
            BY <2>5, <3>1, Zenon
    <2>8. CASE /\ req[r].pc # "answered" \/ req[r].msgType = "NOTIFY"
               /\ \E res \in {200, 404, 500} :
                     SetMail(r, [at |-> "done", ran |-> req[r].found, result |-> res])
        BY <2>6, <2>8
    <2> QED
        BY <1>17, <2>7, <2>8 DEF Run
<1>18. ASSUME NEW r \in HttpRequests, Invoked(r) PROVE HttpInv'
    <2>1. UNCHANGED <<table, actor, mail>> /\ req[r].pc = "posted"
        BY <1>18 DEF Invoked
    <2>2. req[r] \in HttpRecords /\ mail[r] \in MailRecords /\ Fits(req[r], mail[r])
        BY <1>b
    <2>3. req[r].msgType = "REQUEST" /\ req[r].seen # 0 /\ req[r].msgType = TypeOf(req[r].seen)
        BY <2>1, <2>2 DEF Fits, Handler
    <2>4. PICK status \in Statuses :
              /\ Answer(r, status)
              /\ status \in {500, 504} \/ (mail[r].at = "done" /\ status = mail[r].result)
        BY <1>18, <2>2 DEF Invoked, Ended, Statuses, MailRecords
    <2> DEFINE e == Answered(req[r], status)
    <2>5. /\ e.pc = "answered" /\ e.status = status
          /\ e.seen = req[r].seen /\ e.found = req[r].found /\ e.msgType = req[r].msgType
        BY <2>2, <2>4, <1>d
    <2> HIDE DEF e
    <2>6. Told(e, mail[r])
        BY <2>2, <2>3, <2>4, <2>5 DEF Told, Fits, MailOK, Refusals
    <2>7. Fits(e, mail[r])
        BY <2>2, <2>5, <2>6 DEF Fits, Handler, Kept, Lost
    <2> QED
        BY <1>3, <2>1, <2>4, <2>7 DEF e
<1>19. CASE UNCHANGED serviceVars
    BY <1>1, <1>19 DEF serviceVars, httpVars
<1> QED
    BY <1>7, <1>8, <1>9, <1>10, <1>11, <1>12, <1>13, <1>14, <1>15, <1>16, <1>17, <1>18, <1>19 DEF HttpNext, HandlerSteps

\* What a client reads is what became of its request (Server.ServeHTTP,
\* Table.Dispatch, InvokeTarget, NotifyTarget, invokeTyped), for any number of requests
\* and whatever becomes of the Actor and of the application between the look-ups, the
\* push and the run.
THEOREM SuccessIsRead == HttpSpec => []SuccessIsReal
<1>1. ASSUME HttpInv PROVE SuccessIsReal
    <2>1. ASSUME NEW r \in HttpRequests
          PROVE  /\ req[r].status = 200 => mail[r].ran # 0 /\ (mail[r].ran = req[r].seen => TypeOf(mail[r].ran) = "REQUEST")
                 /\ req[r].status = 202 => \/ mail[r].at \in {"queued", "done"}
                                           \/ mail[r].at = "dropped" /\ (req[r].found # actor.nr \/ actor.phase = "gone")
                 /\ req[r].status \in Refusals => mail[r].at # "queued" /\ (mail[r].ran = 0 \/ mail[r].result = req[r].status)
        <3>1. Fits(req[r], mail[r]) /\ mail[r] \in MailRecords
            BY <1>1 DEF HttpInv, HttpTypes
        <3> QED
            BY <3>1 DEF Fits, Told, Kept, Lost, MailRecords
    <2> QED
        BY <2>1 DEF SuccessIsReal
<1> QED
    BY <1>1, InitHttpInv, NextHttpInv, PTL DEF HttpSpec

(***************************************************************************)
(* Application, and the HTTP server as one of its components.              *)
(***************************************************************************)

Callbacks(k) == SubSeq(Lifecycle, 1, k)
\* How many callbacks the component at index i has had, by where Startup is.
Count(i) ==
    CASE aphase = "build"      -> 0
      [] aphase = "Init"       -> IF i < pos THEN 1 ELSE 0
      [] aphase = "AfterInit"  -> IF i < pos THEN 2 ELSE 1
      [] aphase = "select"     -> 2
      [] aphase = "BeforeStop" -> IF i > pos THEN 3 ELSE 2
      [] aphase = "Stop"       -> IF i > pos THEN 4 ELSE 3
      [] OTHER                 -> 4

Phases == {"build", "Init", "AfterInit", "select", "BeforeStop", "Stop", "ended", "aborted"}
\* The list of a started application: the actor system, then names that differ.
ListOK ==
    /\ components \in Seq(Components) /\ Len(components) > 0
    /\ components[1] = "actor" /\ Distinct(components)
\* Where the loops are: those of the start range over the list as it is.
LoopOK ==
    /\ aphase \in {"Init", "AfterInit"} => ranged = components /\ pos \in 1..Len(components) + 1
    /\ aphase \in {"BeforeStop", "Stop"} => pos \in 0..Len(components)
\* The callbacks so far are the lifecycle up to here, for each component of the list;
\* after a panic in the start no more than the two callbacks of the start.
DoneOK ==
    /\ aphase # "aborted" => \A i \in 1..Len(components) : done[components[i]] = Callbacks(Count(i))
    /\ aphase # "aborted" => \A c \in Components \ SeqSet(components) : done[c] = <<>>
    /\ aphase = "aborted" => \A c \in Components : \E k \in 0..2 : done[c] = Callbacks(k)
Unedited ==
    /\ aphase \in Phases /\ pos \in Nat
    /\ aphase = "build" => components = <<>>
    /\ aphase # "build" => ListOK
    /\ LoopOK /\ DoneOK
AppInv == edits \in Nat /\ DOMAIN done = Components /\ (edits = 0 => Unedited)

\* The server listens only while the actor system is up: it is started behind it, and
\* closed before the loop of OnStop goes on to it.
ServerOK ==
    server \in {"starting", "serving"} =>
        /\ ActorsUp /\ aphase \in {"AfterInit", "select", "BeforeStop", "Stop", "aborted"}
        /\ aphase # "aborted" =>
              \E i \in 1..Len(components) : components[i] = "http" /\ (aphase \in {"AfterInit"} => i < pos)
                                            /\ (aphase = "Stop" => i <= pos)
TableOK ==
    /\ ActorsUp => table # "none" \/ recreated
    /\ actor.nr # 0 => "AfterInit" \in SeqSet(done["actor"])
ListenInv == AppInv /\ HttpInv /\ (edits = 0 => ServerOK /\ TableOK)

\* What Append gives, by its length and its members.
LEMMA AppendIs ==
    ASSUME NEW S, NEW s \in Seq(S), NEW t \in Seq(S), NEW e \in S,
           Len(t) = Len(s) + 1, t[Len(t)] = e, \A i \in 1..Len(s) : s[i] = t[i]
    PROVE  Append(s, e) = t
<1>1. Append(s, e) \in Seq(S) /\ Len(Append(s, e)) = Len(t)
    OBVIOUS
<1>2. \A i \in 1..Len(t) : Append(s, e)[i] = t[i]
    OBVIOUS
<1> QED
    BY <1>1, <1>2, SeqEqual

\* A component that has had k callbacks gets the next one of the lifecycle.
LEMMA CallbacksGrow ==
    /\ Callbacks(0) = <<>> /\ Callbacks(4) = Lifecycle
    /\ Append(Callbacks(0), "Init") = Callbacks(1) /\ Append(Callbacks(1), "AfterInit") = Callbacks(2)
    /\ Append(Callbacks(2), "BeforeStop") = Callbacks(3) /\ Append(Callbacks(3), "Stop") = Callbacks(4)
<1> DEFINE S == {"Init", "AfterInit", "BeforeStop", "Stop"}
<1>1. Lifecycle \in Seq(S) /\ Len(Lifecycle) = 4 
    BY DEF Lifecycle
<1>2. /\ Lifecycle[1] = "Init" /\ Lifecycle[2] = "AfterInit" /\ Lifecycle[3] = "BeforeStop" /\ Lifecycle[4] = "Stop"
    BY DEF Lifecycle
<1>3. ASSUME NEW k \in 0..4
      PROVE  Callbacks(k) \in Seq(S) /\ Len(Callbacks(k)) = k /\ \A i \in 1..k : Callbacks(k)[i] = Lifecycle[i]
    <2>1. 1 \in Int /\ k \in Int /\ \A i \in 1..k : Lifecycle[i] \in S
        <3>1. \A i \in 1..4 : i = 1 \/ i = 2 \/ i = 3 \/ i = 4
            OBVIOUS
        <3>2. \A i \in 1..4 : Lifecycle[i] \in S
            BY <1>2, <3>1
        <3>3. \A i \in 1..k : i \in 1..4
            OBVIOUS
        <3> QED
            BY <3>2, <3>3
    <2> HIDE DEF S
    <2>2. /\ SubSeq(Lifecycle, 1, k) \in Seq(S) /\ Len(SubSeq(Lifecycle, 1, k)) = IF 1 <= k THEN k - 1 + 1 ELSE 0
          /\ \A i \in 1..k - 1 + 1 : SubSeq(Lifecycle, 1, k)[i] = Lifecycle[1 + i - 1]
        BY <2>1, SubSeqProperties
    <2> QED
        BY <2>2 DEF Callbacks
<1>4. ASSUME NEW k \in 0..3 PROVE Append(Callbacks(k), Lifecycle[k + 1]) = Callbacks(k + 1)
    <2> DEFINE n == k + 1
    <2>1. n \in 0..4 /\ k \in 0..4 /\ n = k + 1
        OBVIOUS
    <2> HIDE DEF n
    <2>2. Callbacks(n) \in Seq(S) /\ Len(Callbacks(n)) = n /\ \A i \in 1..n : Callbacks(n)[i] = Lifecycle[i]
        BY <1>3, <2>1
    <2>3. Callbacks(k) \in Seq(S) /\ Len(Callbacks(k)) = k /\ \A i \in 1..k : Callbacks(k)[i] = Lifecycle[i]
        BY <1>3, <2>1
    <2>4. Lifecycle[n] \in S
        BY <1>2, <2>1
    <2>5. Append(Callbacks(k), Lifecycle[n]) = Callbacks(n)
        BY <2>1, <2>2, <2>3, <2>4, AppendIs
    <2> QED
        BY <2>5 DEF n
<1>5. Callbacks(0) = <<>>
    BY <1>3
<1>6. Callbacks(4) = Lifecycle
    <2>1. Callbacks(4) \in Seq(S) /\ Len(Callbacks(4)) = 4 /\ \A i \in 1..4 : Callbacks(4)[i] = Lifecycle[i]
        BY <1>3
    <2> QED
        BY <1>1, <2>1, SeqEqual
<1> QED
    BY <1>2, <1>4, <1>5, <1>6

\* Which callbacks a component has had, by their number.
LEMMA CallbackNames ==
    ASSUME NEW k \in 0..4 
    PROVE  /\ "AfterInit" \in SeqSet(Callbacks(k)) => k >= 2
           /\ k >= 2 => "AfterInit" \in SeqSet(Callbacks(k))
           /\ "BeforeStop" \in SeqSet(Callbacks(k)) => k >= 3
           /\ "Stop" \in SeqSet(Callbacks(k)) => k = 4
<1> DEFINE S == {"Init", "AfterInit", "BeforeStop", "Stop"}
<1>1. Lifecycle \in Seq(S) /\ Len(Lifecycle) = 4 
    BY DEF Lifecycle
<1>2. /\ Lifecycle[1] = "Init" /\ Lifecycle[2] = "AfterInit" /\ Lifecycle[3] = "BeforeStop" /\ Lifecycle[4] = "Stop"
    BY DEF Lifecycle
<1>3. Len(Callbacks(k)) = k /\ \A i \in 1..k : Callbacks(k)[i] = Lifecycle[i]
    BY <1>1 DEF Callbacks
<1> QED
    BY <1>2, <1>3 DEF SeqSet

\* The members and the names of a concatenation.
LEMMA Concatenation ==
    ASSUME NEW S, NEW s \in Seq(S), NEW t \in Seq(S)
    PROVE  /\ s \o t \in Seq(S) /\ Len(s \o t) = Len(s) + Len(t)
           /\ \A i \in 1..Len(s \o t) : (s \o t)[i] = IF i <= Len(s) THEN s[i] ELSE t[i - Len(s)]
           /\ SeqSet(s \o t) = SeqSet(s) \cup SeqSet(t)
<1>1. s \o t \in Seq(S) /\ Len(s \o t) = Len(s) + Len(t)
    OBVIOUS
<1>2. \A i \in 1..Len(s \o t) : (s \o t)[i] = IF i <= Len(s) THEN s[i] ELSE t[i - Len(s)]
    OBVIOUS
<1>3. ASSUME NEW i \in 1..Len(t) PROVE (i + Len(s)) \in 1..Len(s \o t) /\ (s \o t)[i + Len(s)] = t[i]
    BY <1>1, <1>2
<1>4. ASSUME NEW i \in 1..Len(s) PROVE i \in 1..Len(s \o t) /\ (s \o t)[i] = s[i]
    BY <1>1, <1>2
<1>5. SeqSet(s \o t) \subseteq SeqSet(s) \cup SeqSet(t)
    BY <1>1, <1>2 DEF SeqSet
<1>6. SeqSet(s) \subseteq SeqSet(s \o t) /\ SeqSet(t) \subseteq SeqSet(s \o t)
    BY <1>3, <1>4 DEF SeqSet
<1> QED
    BY <1>1, <1>2, <1>5, <1>6

\* The list that Startup makes: the actor system first, no name twice.
LEMMA StartList ==
    ASSUME NEW builtin \in {<<>>, Builtin}
    PROVE  LET list == ActorSystemFirst(builtin \o UserComponents) IN
           list \in Seq(Components) /\ Len(list) > 0 /\ list[1] = "actor" /\ Distinct(list)
<1> DEFINE u == UserComponents
           all == builtin \o u
           one == <<"actor">>
           list == one \o all
<1>1. SeqSet(Builtin) = {"cluster", "discovery"} /\ Builtin \in Seq(SeqSet(Builtin)) /\ one \in Seq({"actor"})
    BY DEF Builtin, SeqSet
<1>2. u \in Seq(Components) /\ builtin \in Seq(Components) /\ one \in Seq(Components)
    <2> DEFINE S == SeqSet(Builtin) \cup SeqSet(u)
    <2>1. Builtin \in Seq(S) /\ u \in Seq(S)
        BY <1>1, ComponentsAssumption
    <2> HIDE DEF S
    <2>2. SeqSet(Builtin \o u) = SeqSet(Builtin) \cup SeqSet(u)
        BY <2>1, Concatenation
    <2>3. S \subseteq Components /\ {"actor"} \subseteq Components
        BY <2>2 DEF Components, S
    <2>4. u \in Seq(Components) /\ Builtin \in Seq(Components)
        BY <2>1, <2>3
    <2>5. <<>> \in Seq(Components) /\ one \in Seq(Components)
        BY <2>3
    <2> QED
        BY <2>4, <2>5
<1>3. /\ all \in Seq(Components) /\ Len(all) = Len(builtin) + Len(u)
      /\ \A i \in 1..Len(all) : all[i] = IF i <= Len(builtin) THEN builtin[i] ELSE u[i - Len(builtin)]
    BY <1>2, Concatenation
<1>4. Distinct(builtin) /\ \A i \in 1..Len(builtin) : builtin[i] \in {"cluster", "discovery"}
    BY DEF Builtin, Distinct
<1>5. \A i \in 1..Len(u) : u[i] \notin {"actor", "cluster", "discovery"}
    BY <1>1, ComponentsAssumption DEF SeqSet
<1>6. Distinct(all)
    BY <1>2, <1>3, <1>4, <1>5, ComponentsAssumption DEF Distinct
<1>7. \A i \in 1..Len(all) : all[i] # "actor"
    BY <1>2, <1>3, <1>4, <1>5
<1>8. Len(one) = 1 /\ one[1] = "actor"
    OBVIOUS
<1>a. one \in Seq(Components) /\ all \in Seq(Components)
    BY <1>2, <1>3
<1> HIDE DEF all, one
<1>9. /\ list \in Seq(Components) /\ Len(list) = Len(one) + Len(all)
      /\ \A i \in 1..Len(list) : list[i] = IF i <= Len(one) THEN one[i] ELSE all[i - Len(one)]
    BY <1>a, Concatenation
<1>10. Len(list) > 0 /\ list[1] = "actor"
    BY <1>3, <1>8, <1>9
<1>11. Distinct(list)
    <2> HIDE DEF list
    <2>1. Len(list) = Len(all) + 1 /\ Len(all) \in Nat
        BY <1>a, <1>8, <1>9
    <2>2. \A i \in 2..Len(list) : list[i] = all[i - 1] /\ i - 1 \in 1..Len(all)
        BY <1>8, <1>9, <2>1
    <2>3. \A i \in 2..Len(list) : list[i] # "actor"
        BY <1>7, <2>2
    <2> QED
        BY <1>6, <1>10, <2>1, <2>2, <2>3 DEF Distinct
<1> QED
    BY <1>9, <1>10, <1>11 DEF ActorSystemFirst, all, one

\* A step of the application, whatever its components do in it.
AppStep ==
    \/ Startup \/ Starting \/ Started \/ SelectSignal \/ SelectDie
    \/ (\E c \in Components : StoppingNext(c)) \/ StopFails \/ Stopped \/ Outside

\* A step of the application keeps the loops and the callbacks in step, until a
\* callback edits the list.
LEMMA NextAppInv == AppInv /\ (AppStep \/ UNCHANGED appVars) => AppInv'
<1> SUFFICES ASSUME AppInv, AppStep \/ UNCHANGED appVars PROVE AppInv'
    OBVIOUS
<1>a. edits \in Nat /\ DOMAIN done = Components /\ (edits = 0 => Unedited)
    BY DEF AppInv
<1>1. CASE Startup
    <2>1. edits' = edits /\ done' = done /\ aphase = "build" /\ aphase' = "Init" /\ pos' = 1 /\ ranged' = components'
        BY <1>1 DEF Startup
    <2>2. components' \in Seq(Components) /\ Len(components') > 0 /\ components'[1] = "actor" /\ Distinct(components')
        BY <1>1, StartList DEF Startup
    <2>3. ASSUME edits = 0 PROVE Unedited'
        <3>1. components = <<>> /\ DoneOK
            BY <1>a, <2>1, <2>3 DEF Unedited
        <3>2. \A c \in Components : done[c] = <<>>
            BY <2>1, <3>1 DEF DoneOK, SeqSet
        <3>3. \A i \in 1..Len(components') : done'[components'[i]] = Callbacks(Count(i)')
            BY <2>1, <2>2, <3>2, CallbacksGrow DEF Count
        <3>4. DoneOK' /\ LoopOK' /\ ListOK'
            BY <2>1, <2>2, <3>2, <3>3 DEF DoneOK, LoopOK, ListOK
        <3> QED
            BY <2>1, <3>4 DEF Unedited, Phases
    <2> QED
        BY <1>a, <2>1, <2>3 DEF AppInv
<1>2. CASE Starting
    <2>1. /\ edits' = edits /\ UNCHANGED <<components, ranged>> /\ aphase \in {"Init", "AfterInit"}
          /\ pos <= Len(ranged) /\ done' = [done EXCEPT ![ranged[pos]] = Append(@, aphase)]
          /\ (aphase' = aphase /\ pos' = pos + 1) \/ (aphase' = "aborted" /\ pos' = pos)
        BY <1>2 DEF Starting, Called, Panics
    <2>2. ASSUME edits = 0 PROVE Unedited'
        <3>1. ListOK /\ LoopOK /\ DoneOK /\ pos \in Nat
            BY <1>a, <2>1, <2>2 DEF Unedited
        <3>2. ranged = components /\ pos \in 1..Len(components) /\ Len(components) \in Nat
            BY <2>1, <3>1 DEF LoopOK, ListOK
        <3> DEFINE k == IF aphase = "Init" THEN 0 ELSE 1
        <3>3. done[components[pos]] = Callbacks(k)
            BY <2>1, <3>1, <3>2 DEF DoneOK, Count
        <3>4. Append(Callbacks(k), aphase) = Callbacks(k + 1)
            BY <2>1, CallbacksGrow
        <3>5. components[pos] \in Components /\ \A i \in 1..Len(components) : components[i] \in Components /\ (components[i] = components[pos] => i = pos)
            BY <3>1, <3>2 DEF ListOK, Distinct
        <3>6. done'[components[pos]] = Callbacks(k + 1) /\ \A c \in Components : c # components[pos] => done'[c] = done[c]
            BY <1>a, <2>1, <3>2, <3>3, <3>4, <3>5
        <3>7. CASE aphase' = aphase /\ pos' = pos + 1
            <4>1. \A i \in 1..Len(components') : done'[components'[i]] = Callbacks(Count(i)')
                <5> SUFFICES ASSUME NEW i \in 1..Len(components) PROVE done'[components[i]] = Callbacks(Count(i)')
                    BY <2>1
                <5>1. CASE i = pos
                    BY <2>1, <3>2, <3>6, <3>7, <5>1 DEF Count
                <5>2. CASE i # pos
                    <6>1. Count(i)' = Count(i)
                        BY <2>1, <3>2, <3>7, <5>2 DEF Count
                    <6> QED
                        BY <2>1, <3>1, <3>5, <3>6, <5>2, <6>1 DEF DoneOK
                <5> QED
                    BY <5>1, <5>2
            <4>2. components[pos] \in SeqSet(components)
                BY <3>2 DEF SeqSet
            <4>3. \A c \in Components \ SeqSet(components') : done'[c] = <<>>
                BY <2>1, <3>1, <3>6, <4>2 DEF DoneOK
            <4>4. DoneOK'
                BY <2>1, <3>7, <4>1, <4>3 DEF DoneOK
            <4>5. LoopOK' /\ ListOK'
                BY <2>1, <3>1, <3>2, <3>7 DEF LoopOK, ListOK
            <4> QED
                BY <2>1, <3>1, <3>7, <4>4, <4>5 DEF Unedited, Phases
        <3>8. CASE aphase' = "aborted" /\ pos' = pos
            <4>1. \A i \in 1..Len(components) : Count(i) \in 0..2
                BY <2>1 DEF Count
            <4>2. ASSUME NEW c \in Components PROVE \E n \in 0..2 : done'[c] = Callbacks(n)
                <5>1. CASE c = components[pos]
                    BY <3>6, <5>1
                <5>2. CASE c # components[pos] /\ c \in SeqSet(components)
                    BY <2>1, <3>1, <3>6, <4>1, <5>2 DEF DoneOK, SeqSet
                <5>3. CASE c # components[pos] /\ c \notin SeqSet(components)
                    <6>1. done'[c] = <<>>
                        BY <2>1, <3>1, <3>6, <5>3 DEF DoneOK
                    <6>2. Callbacks(0) = <<>> /\ 0 \in 0..2
                        BY CallbacksGrow
                    <6> QED
                        BY <6>1, <6>2
                <5> QED
                    BY <5>1, <5>2, <5>3
            <4>3. DoneOK'
                BY <3>8, <4>2 DEF DoneOK
            <4> QED
                BY <2>1, <3>1, <3>8, <4>3 DEF Unedited, Phases, LoopOK, ListOK
        <3> QED
            BY <2>1, <3>7, <3>8
    <2>3. DOMAIN done' = Components
        BY <1>a, <2>1
    <2> QED
        BY <1>a, <2>1, <2>2, <2>3 DEF AppInv
<1>3. CASE Started
    <2>1. /\ UNCHANGED <<edits, done, components>> /\ pos = Len(ranged) + 1
          /\ \/ aphase = "Init" /\ aphase' = "AfterInit" /\ ranged' = components /\ pos' = 1
             \/ aphase = "AfterInit" /\ aphase' = "select" /\ pos' = 0
        BY <1>3 DEF Started
    <2>2. ASSUME edits = 0 PROVE Unedited'
        <3>1. ListOK /\ LoopOK /\ DoneOK
            BY <1>a, <2>1, <2>2 DEF Unedited
        <3>2. pos = Len(components) + 1 /\ Len(components) \in Nat
            BY <2>1, <3>1 DEF LoopOK, ListOK
        <3>3. \A i \in 1..Len(components) : Count(i)' = Count(i)
            BY <2>1, <3>2 DEF Count
        <3>4. DoneOK'
            BY <2>1, <3>1, <3>3 DEF DoneOK
        <3>5. LoopOK' /\ ListOK'
            BY <2>1, <3>1, <3>2 DEF LoopOK, ListOK
        <3> QED
            BY <2>1, <3>4, <3>5 DEF Unedited, Phases
    <2> QED
        BY <1>a, <2>1, <2>2 DEF AppInv
<1>4. CASE SelectSignal \/ SelectDie
    <2>1. /\ UNCHANGED <<edits, done, components>> /\ aphase = "select" /\ aphase' = "BeforeStop" /\ pos' = Len(components)
        BY <1>4 DEF SelectSignal, SelectDie, Select
    <2>2. ASSUME edits = 0 PROVE Unedited'
        <3>1. ListOK /\ LoopOK /\ DoneOK
            BY <1>a, <2>1, <2>2 DEF Unedited
        <3>2. Len(components) \in Nat
            BY <3>1 DEF ListOK
        <3>3. \A i \in 1..Len(components) : Count(i)' = Count(i)
            BY <2>1, <3>2 DEF Count
        <3>4. DoneOK'
            BY <2>1, <3>1, <3>3 DEF DoneOK
        <3>5. LoopOK' /\ ListOK'
            BY <2>1, <3>1, <3>2 DEF LoopOK, ListOK
        <3> QED
            BY <2>1, <3>2, <3>4, <3>5 DEF Unedited, Phases
    <2> QED
        BY <1>a, <2>1, <2>2 DEF AppInv
<1>5. ASSUME NEW c \in Components, StoppingNext(c) PROVE AppInv'
    <2>1. /\ edits' = edits /\ UNCHANGED <<components, aphase>> /\ aphase \in {"BeforeStop", "Stop"}
          /\ pos \in 1..Len(components) /\ components[pos] = c /\ done' = [done EXCEPT ![c] = Append(@, aphase)]
          /\ pos' = pos - 1
        BY <1>5 DEF StoppingNext, Called, StopPanics
    <2>2. ASSUME edits = 0 PROVE Unedited'
        <3>1. ListOK /\ LoopOK /\ DoneOK
            BY <1>a, <2>1, <2>2 DEF Unedited
        <3>2. Len(components) \in Nat /\ pos \in Nat
            BY <2>1, <3>1 DEF ListOK
        <3> DEFINE k == IF aphase = "BeforeStop" THEN 2 ELSE 3
        <3>3. done[c] = Callbacks(k)
            BY <2>1, <3>1, <3>2 DEF DoneOK, Count
        <3>4. Append(Callbacks(k), aphase) = Callbacks(k + 1)
            BY <2>1, CallbacksGrow
        <3>5. \A i \in 1..Len(components) : components[i] \in Components /\ (components[i] = c => i = pos)
            BY <2>1, <3>1 DEF ListOK, Distinct
        <3>6. done'[c] = Callbacks(k + 1) /\ \A d \in Components : d # c => done'[d] = done[d]
            BY <1>a, <2>1, <3>3, <3>4
        <3>7. \A i \in 1..Len(components') : done'[components'[i]] = Callbacks(Count(i)')
            <4> SUFFICES ASSUME NEW i \in 1..Len(components) PROVE done'[components[i]] = Callbacks(Count(i)')
                BY <2>1
            <4>1. CASE i = pos
                BY <2>1, <3>2, <3>6, <4>1 DEF Count
            <4>2. CASE i # pos
                <5>1. Count(i)' = Count(i)
                    BY <2>1, <3>2, <4>2 DEF Count
                <5> QED
                    BY <2>1, <3>1, <3>5, <3>6, <4>2, <5>1 DEF DoneOK
            <4> QED
                BY <4>1, <4>2
        <3>8. c \in SeqSet(components)
            BY <2>1 DEF SeqSet
        <3>9. \A d \in Components \ SeqSet(components') : done'[d] = <<>>
            BY <2>1, <3>1, <3>6, <3>8 DEF DoneOK
        <3>10. DoneOK'
            BY <2>1, <3>7, <3>9 DEF DoneOK
        <3>11. LoopOK' /\ ListOK'
            BY <2>1, <3>1, <3>2 DEF LoopOK, ListOK
        <3> QED
            BY <2>1, <3>2, <3>10, <3>11 DEF Unedited, Phases
    <2>3. DOMAIN done' = Components
        BY <1>a, <2>1
    <2> QED
        BY <1>a, <2>1, <2>2, <2>3 DEF AppInv
<1>6. CASE StopFails
    <2>1. UNCHANGED <<edits, done>> /\ aphase \in {"BeforeStop", "Stop"} /\ pos > Len(components)
        BY <1>6 DEF StopFails
    <2>2. edits # 0
        <3>1. edits = 0 => ListOK /\ LoopOK
            BY <1>a, <2>1 DEF Unedited
        <3> QED
            BY <2>1, <3>1 DEF LoopOK, ListOK
    <2> QED
        BY <1>a, <2>1, <2>2 DEF AppInv
<1>7. CASE Stopped
    <2>1. /\ UNCHANGED <<edits, done, components>> /\ pos = 0
          /\ \/ aphase = "BeforeStop" /\ aphase' = "Stop" /\ pos' = Len(components)
             \/ aphase = "Stop" /\ aphase' = "ended" /\ pos' = pos
        BY <1>7 DEF Stopped
    <2>2. ASSUME edits = 0 PROVE Unedited'
        <3>1. ListOK /\ LoopOK /\ DoneOK
            BY <1>a, <2>1, <2>2 DEF Unedited
        <3>2. Len(components) \in Nat
            BY <3>1 DEF ListOK
        <3>3. \A i \in 1..Len(components) : Count(i)' = Count(i)
            BY <2>1, <3>2 DEF Count
        <3>4. DoneOK'
            BY <2>1, <3>1, <3>3 DEF DoneOK
        <3>5. LoopOK' /\ ListOK'
            BY <2>1, <3>1, <3>2 DEF LoopOK, ListOK
        <3> QED
            BY <2>1, <3>2, <3>4, <3>5 DEF Unedited, Phases
    <2> QED
        BY <1>a, <2>1, <2>2 DEF AppInv
<1>8. CASE Outside
    <2>1. ASSUME NEW s \in Callers, Shutdown(s) PROVE AppInv'
        BY <1>a, <2>1 DEF AppInv, Unedited, ListOK, LoopOK, DoneOK, Count, Shutdown
    <2>2. CASE Register(Late) \/ \E c \in Components : RemoveComponent(c)
        BY <1>a, <2>2 DEF AppInv, Register, RemoveComponent
    <2> QED
        BY <1>8, <2>1, <2>2 DEF Outside
<1>9. CASE UNCHANGED appVars
    BY <1>a, <1>9 DEF appVars, AppInv, Unedited, ListOK, LoopOK, DoneOK, Count
<1> QED
    BY <1>1, <1>2, <1>3, <1>4, <1>5, <1>6, <1>7, <1>8, <1>9 DEF AppStep

\* Every step of the service is a step of the application or none of its business.
LEMMA ServiceStep == [HttpNext]_serviceVars => AppStep \/ UNCHANGED appVars
<1> USE DEF AppStep
<1>1. HttpStarting \/ HttpStopping \/ HttpOther => AppStep
    BY DEF HttpStarting, HttpStopping, HttpOther
<1>2. ServerSteps \/ ActorCloses \/ ActorStops \/ ActorAgain \/ UNCHANGED serviceVars => UNCHANGED appVars
    BY DEF ServerSteps, Serve, ServerShutdown, ActorCloses, ActorStops, ActorAgain, serviceVars
<1>3. ASSUME NEW r \in HttpRequests, ServeHTTP(r) \/ Dispatch(r) \/ FindActor(r) \/ Post(r) \/ Run(r) \/ Invoked(r)
      PROVE  UNCHANGED appVars
    BY <1>3 DEF ServeHTTP, Dispatch, FindActor, Post, Run, Invoked
<1> QED
    BY <1>1, <1>2, <1>3 DEF HttpNext, HandlerSteps

\* A service starts with an empty list.
LEMMA InitAppInv == HttpInit => AppInv
<1> SUFFICES ASSUME HttpInit PROVE AppInv
    OBVIOUS
<1>1. aphase = "build" /\ components = <<>> /\ pos = 0 /\ edits = 0 /\ done = [c \in Components |-> <<>>]
    BY DEF HttpInit, AppInit
<1>2. DoneOK /\ LoopOK
    BY <1>1 DEF DoneOK, LoopOK
<1> QED
    BY <1>1, <1>2 DEF AppInv, Unedited, Phases

\* The invariant gives what a stopped application promises.
LEMMA AppInvAllStopped == AppInv => AllStopped
<1> SUFFICES ASSUME AppInv, edits = 0
             PROVE  /\ aphase = "ended" => \A c \in SeqSet(components) : done[c] = Lifecycle
                    /\ aphase = "aborted" => \A c \in Components : "BeforeStop" \notin SeqSet(done[c])
    BY DEF AllStopped
<1>1. DoneOK
    BY DEF AppInv, Unedited
<1>2. ASSUME aphase = "ended", NEW c \in SeqSet(components) PROVE done[c] = Lifecycle
    BY <1>1, <1>2, CallbacksGrow DEF DoneOK, Count, SeqSet
<1>3. ASSUME aphase = "aborted", NEW c \in Components PROVE "BeforeStop" \notin SeqSet(done[c])
    <2>1. PICK k \in 0..2 : done[c] = Callbacks(k)
        BY <1>1, <1>3 DEF DoneOK
    <2>2. k \in 0..4 /\ ~(k >= 3)
        OBVIOUS
    <2> QED
        BY <2>1, <2>2, CallbackNames
<1> QED
    BY <1>2, <1>3

\* Startup takes every component of the list through the four callbacks of its
\* lifecycle, each once and in order, also when callbacks of the shutdown panic, for
\* any list of components (Application.Startup, Register, Try).
THEOREM LifecycleIsComplete == HttpSpec => []AllStopped
BY InitAppInv, NextAppInv, ServiceStep, AppInvAllStopped, PTL DEF HttpSpec

\* The actor system is up between its second and its fourth callback.
LEMMA UpBetween ==
    ASSUME NEW k \in 0..4, NEW names, names = Callbacks(k)
    PROVE  /\ k \in {2, 3} => "AfterInit" \in SeqSet(names) /\ "Stop" \notin SeqSet(names)
           /\ k \notin {2, 3} => "AfterInit" \notin SeqSet(names) \/ "Stop" \in SeqSet(names)
<1>1. "Stop" \in SeqSet(Callbacks(4))
    BY CallbacksGrow DEF Lifecycle, SeqSet
<1> QED
    BY <1>1, CallbackNames

\* A step keeps the server behind the actor system.
LEMMA NextListenInv == ListenInv /\ [HttpNext]_serviceVars => ListenInv'
<1> SUFFICES ASSUME ListenInv, [HttpNext]_serviceVars, edits' = 0 PROVE ServerOK' /\ TableOK'
    BY NextAppInv, NextHttpInv, ServiceStep DEF ListenInv
<1>a. AppInv /\ edits = 0
    <2>1. AppInv
        BY DEF ListenInv
    <2>2. edits = 0
        BY <2>1, ServiceStep DEF AppInv, AppStep, Startup, Starting, Started, SelectSignal, SelectDie, Select, StoppingNext,
            StopFails, Stopped, Outside, Register, RemoveComponent, Shutdown, appVars
    <2> QED
        BY <2>1, <2>2
<1>b. ServerOK /\ TableOK /\ Unedited
    BY <1>a DEF ListenInv, AppInv
<1>1. ASSUME UNCHANGED <<aphase, pos, components, done, table, recreated>>, actor'.nr = actor.nr, server' = server \/ server' \notin {"starting", "serving"}
      PROVE  ServerOK' /\ TableOK'
    BY <1>1, <1>b DEF ServerOK, TableOK, ActorsUp
<1>2. CASE HttpOther
    <2>1. UNCHANGED <<server, table, actor, recreated, done>>
        BY <1>2, <1>a DEF HttpOther, httpVars, Startup, Started, StopFails, Stopped, SelectSignal, SelectDie, Select, Outside,
            Register, RemoveComponent, Shutdown
    <2>2. TableOK' /\ (ActorsUp => ActorsUp')
        BY <1>b, <2>1 DEF TableOK, ActorsUp
    <2>3. ASSUME server \in {"starting", "serving"} PROVE ServerOK'
        <3>1. /\ ActorsUp /\ aphase \in {"AfterInit", "select", "BeforeStop", "Stop", "aborted"}
              /\ aphase # "aborted" =>
                    \E i \in 1..Len(components) : components[i] = "http" /\ (aphase \in {"AfterInit"} => i < pos)
                                                  /\ (aphase = "Stop" => i <= pos)
            BY <1>b, <2>3 DEF ServerOK
        <3>2. CASE Startup \/ Started \/ SelectSignal \/ SelectDie
            BY <2>2, <3>1, <3>2 DEF Startup, Started, SelectSignal, SelectDie, Select, ServerOK
        <3>3. CASE StopFails
            BY <1>b, <3>3 DEF StopFails, Unedited, LoopOK, ListOK
        <3>4. CASE Stopped
            BY <2>2, <3>1, <3>4 DEF Stopped, ServerOK
        <3>5. CASE Outside
            <4>1. \E s \in Callers : Shutdown(s)
                BY <1>a, <3>5 DEF Outside, Register, RemoveComponent
            <4> QED
                BY <1>1, <2>1, <4>1 DEF Shutdown
        <3> QED
            BY <1>2, <3>2, <3>3, <3>4, <3>5 DEF HttpOther
    <2> QED
        BY <2>1, <2>2, <2>3 DEF ServerOK
<1>3. CASE HttpStarting
    <2>1. /\ aphase \in {"Init", "AfterInit"} /\ pos \in 1..Len(components) /\ ranged = components
          /\ components' = components /\ done' = [done EXCEPT ![components[pos]] = Append(@, aphase)]
          /\ (aphase' = aphase /\ pos' = pos + 1) \/ (aphase' = "aborted" /\ pos' = pos)
        <3>1. aphase \in {"Init", "AfterInit"} /\ pos <= Len(ranged)
            BY <1>3 DEF HttpStarting, Starting
        <3>2. ranged = components /\ pos \in 1..Len(components) + 1 /\ Len(components) \in Nat
            BY <1>b, <3>1 DEF Unedited, LoopOK, ListOK
        <3>3. pos \in 1..Len(components)
            BY <3>1, <3>2
        <3> QED
            BY <1>3, <3>1, <3>2, <3>3 DEF HttpStarting, Starting, Called, Panics
    <2>2. /\ recreated' = recreated
          /\ aphase = "Init" => server' = server /\ actor' = actor
          /\ aphase = "AfterInit" =>
                /\ table' = IF components[pos] = "actor" /\ actor.nr = 0 THEN "REQUEST" ELSE table
                /\ components[pos] # "actor" => actor' = actor
                /\ server' = IF components[pos] = "http" /\ server = "none" THEN "starting" ELSE server
        BY <1>3, <2>1 DEF HttpStarting, StartEffects
    <2> DEFINE n == IF aphase = "Init" THEN 1 ELSE 2
    <2>3. ListOK /\ DoneOK /\ 1 \in 1..Len(components) /\ components[1] = "actor" /\ "actor" \in Components
        BY <1>b, <2>1 DEF Unedited, ListOK, Components
    <2>4. done["actor"] = Callbacks(IF 1 < pos THEN n ELSE n - 1)
        BY <2>1, <2>3 DEF DoneOK, Count
    <2>5. DOMAIN done = Components /\ (components[pos] = "actor" => pos = 1)
        BY <1>a, <2>1, <2>3 DEF AppInv, ListOK, Distinct
    <2>6. Append(Callbacks(n - 1), aphase) = Callbacks(n)
        BY <2>1, CallbacksGrow
    <2>7. done'["actor"] = Callbacks(n)
        <3>1. CASE pos = 1
            <4>1. done["actor"] = Callbacks(n - 1) /\ components[pos] = "actor"
                BY <2>3, <2>4, <3>1
            <4> HIDE DEF n
            <4>2. done'["actor"] = Append(done["actor"], aphase)
                BY <2>1, <2>3, <2>5, <4>1
            <4> QED
                BY <2>6, <4>1, <4>2
        <3>2. CASE pos # 1
            <4>1. 1 < pos /\ components[pos] # "actor"
                BY <2>1, <2>5, <3>2
            <4>2. done'["actor"] = done["actor"]
                BY <2>1, <4>1
            <4> QED
                BY <2>4, <4>1, <4>2
        <3> QED
            BY <3>1, <3>2
    <2>8. CASE aphase = "Init"
        <3>1. ~ActorsUp' /\ server' \notin {"starting", "serving"}
            BY <1>b, <2>2, <2>7, <2>8, UpBetween DEF ActorsUp, ServerOK
        <3>2. actor'.nr = 0
            <4>1. done["actor"] \in {Callbacks(0), Callbacks(1)}
                BY <2>4, <2>8
            <4>2. "AfterInit" \notin SeqSet(done["actor"])
                BY <4>1, CallbackNames
            <4> QED
                BY <1>b, <2>2, <2>8, <4>2 DEF TableOK
        <3> QED
            BY <3>1, <3>2 DEF ServerOK, TableOK
    <2>9. CASE aphase = "AfterInit"
        <3>1. ActorsUp' /\ (1 < pos => ActorsUp)
            BY <2>4, <2>7, <2>9, UpBetween DEF ActorsUp
        <3>2. TableOK'
            <4>1. "AfterInit" \in SeqSet(done'["actor"])
                BY <3>1 DEF ActorsUp
            <4>2. components[pos] = "actor" => actor.nr = 0
                <5>1. components[pos] = "actor" => done["actor"] = Callbacks(1)
                    BY <2>4, <2>5, <2>9
                <5>2. "AfterInit" \notin SeqSet(Callbacks(1))
                    BY CallbackNames
                <5> QED
                    BY <1>b, <5>1, <5>2 DEF TableOK
            <4>3. components[pos] # "actor" => 1 < pos
                BY <2>1, <2>3
            <4> QED
                BY <1>b, <2>1, <2>2, <2>9, <3>1, <4>1, <4>2, <4>3 DEF TableOK
        <3>3. ASSUME server' \in {"starting", "serving"}
              PROVE  \E i \in 1..Len(components) : components[i] = "http" /\ i < pos + 1
            BY <1>b, <2>1, <2>2, <2>9, <3>3 DEF ServerOK
        <3>4. ServerOK'
            BY <2>1, <2>9, <3>1, <3>3 DEF ServerOK
        <3> QED
            BY <3>2, <3>4
    <2> QED
        BY <2>1, <2>8, <2>9
<1>4. CASE HttpStopping
    <2>1. PICK c \in Components : StoppingNext(c) /\ StopEffects(c)
        BY <1>4 DEF HttpStopping
    <2>2. /\ aphase \in {"BeforeStop", "Stop"} /\ pos \in 1..Len(components) /\ components[pos] = c
          /\ UNCHANGED <<components, aphase>> /\ done' = [done EXCEPT ![c] = Append(@, aphase)] /\ pos' = pos - 1
        BY <2>1 DEF StoppingNext, Called, StopPanics
    <2>3. UNCHANGED <<server, recreated>>
        BY <1>4 DEF HttpStopping, StopEffects
    <2>4. ListOK /\ DoneOK /\ 1 \in 1..Len(components) /\ components[1] = "actor" /\ "actor" \in Components
        BY <1>b, <2>2 DEF Unedited, ListOK, Components
    <2>5. DOMAIN done = Components /\ (c = "actor" => pos = 1) /\ pos \in Nat
        BY <1>a, <2>2, <2>4 DEF AppInv, ListOK, Distinct
    <2> DEFINE k == IF aphase = "BeforeStop" THEN 2 ELSE 3
    <2>6. done["actor"] = Callbacks(k)
        BY <2>2, <2>4, <2>5 DEF DoneOK, Count
    <2>7. Append(Callbacks(k), aphase) = Callbacks(k + 1)
        BY <2>2, CallbacksGrow
    <2>8. done'["actor"] = Callbacks(IF c = "actor" THEN k + 1 ELSE k)
        BY <2>2, <2>5, <2>6, <2>7, <2>4
    <2>9. ActorsUp /\ (ActorsUp' \/ (c = "actor" /\ aphase = "Stop"))
        BY <2>2, <2>6, <2>8, UpBetween DEF ActorsUp
    <2>10. TableOK'
        <3>a. "AfterInit" \in SeqSet(done'["actor"])
            <4>1. done'["actor"] \in {Callbacks(2), Callbacks(3), Callbacks(4)}
                BY <2>8
            <4> QED
                BY <4>1, CallbackNames
        <3>1. CASE c = "actor" /\ aphase = "Stop"
            BY <2>8, <3>1, <3>a, UpBetween DEF TableOK, ActorsUp
        <3>2. CASE ~(c = "actor" /\ aphase = "Stop")
            BY <1>b, <2>1, <2>3, <2>9, <3>2, <3>a DEF TableOK, StopEffects
        <3> QED
            BY <3>1, <3>2
    <2>11. ASSUME server \in {"starting", "serving"} PROVE ServerOK'
        <3>1. PICK i \in 1..Len(components) : components[i] = "http" /\ (aphase = "Stop" => i <= pos)
            BY <1>b, <2>2, <2>11 DEF ServerOK
        <3>2. aphase = "Stop" => c # "http"
            BY <2>1, <2>11 DEF StopEffects
        <3>3. aphase = "Stop" => i <= pos - 1 /\ c # "actor"
            BY <2>2, <2>4, <2>5, <3>1, <3>2
        <3> QED
            BY <2>2, <2>9, <3>1, <3>3 DEF ServerOK
    <2> QED
        BY <2>3, <2>10, <2>11 DEF ServerOK
<1>5. CASE Serve
    BY <1>5, <1>b DEF Serve, appVars, ServerOK, TableOK, ActorsUp
<1>6. CASE ServerShutdown
    BY <1>1, <1>6 DEF ServerShutdown, appVars
<1>7. CASE ActorCloses \/ ActorStops \/ ActorAgain
    <2>1. UNCHANGED <<aphase, pos, components, done, server>>
        BY <1>7 DEF ActorCloses, ActorStops, ActorAgain, appVars
    <2>2. actor.nr # 0 \/ ActorsUp => "AfterInit" \in SeqSet(done["actor"])
        BY <1>b DEF TableOK, ActorsUp
    <2>3. actor'.nr # 0 => actor.nr # 0 \/ ActorsUp
        <3>1. actor \in ActorRecords
            BY DEF ListenInv, HttpInv, HttpTypes
        <3> QED
            BY <1>7, <3>1 DEF ActorCloses, ActorStops, ActorAgain, ActorRecords
    <2>4. ActorsUp => table' # "none" \/ recreated'
        BY <1>7, <1>b DEF ActorCloses, ActorStops, ActorAgain, TableOK
    <2> QED
        BY <1>b, <2>1, <2>2, <2>3, <2>4 DEF ServerOK, TableOK, ActorsUp
<1>8. ASSUME NEW r \in HttpRequests, ServeHTTP(r) \/ Dispatch(r) \/ FindActor(r) \/ Post(r) \/ Run(r) \/ Invoked(r)
      PROVE  ServerOK' /\ TableOK'
    BY <1>1, <1>8 DEF ServeHTTP, Dispatch, FindActor, Post, Run, Invoked, appVars
<1>9. CASE UNCHANGED serviceVars
    BY <1>1, <1>9 DEF serviceVars, appVars, httpVars
<1> QED
    BY <1>2, <1>3, <1>4, <1>5, <1>6, <1>7, <1>8, <1>9 DEF HttpNext, HandlerSteps, ServerSteps

\* While the server takes requests the actor system is up and, unless its Actor has
\* stopped by itself, the method is registered (Application.Startup, OnAfterInit and
\* OnStop of the HTTP server and of the actor system), wherever the server is in the
\* list of components.
THEOREM ListenersAreCovered == HttpSpec => []ListenersCovered
<1>1. HttpInit => ListenInv
    <2>1. HttpInit => TableOK
        <3>1. HttpInit => done["actor"] = <<>> /\ actor.nr = 0
            BY DEF HttpInit, AppInit, Components
        <3>2. SeqSet(<<>>) = {}
            BY DEF SeqSet
        <3> QED
            BY <3>1, <3>2 DEF TableOK, ActorsUp
    <2>2. HttpInit => ServerOK
        BY DEF HttpInit, ServerOK
    <2> QED
        BY <2>1, <2>2, InitAppInv, InitHttpInv DEF ListenInv
<1>2. ListenInv => ListenersCovered
    BY DEF ListenInv, ServerOK, TableOK, ListenersCovered
<1> QED
    BY <1>1, <1>2, NextListenInv, PTL DEF HttpSpec

(***************************************************************************)
(* ActorEvents.                                                            *)
(***************************************************************************)

EventsTypeOK ==
    /\ path \in Paths /\ current \in Instances \cup {0}
    /\ life \in [Instances -> {"none", "init", "work", "stopping", "ended"}]
    /\ funcMap \in [Instances -> Seq({0} \cup UniqueIDs)] /\ events \in [Instances -> Seq(UniqueIDs)]
    /\ given \in [Instances -> SUBSET ({0} \cup UniqueIDs)] /\ early \subseteq Instances
    /\ calls \subseteq Instances \X ({0} \cup UniqueIDs) \X UniqueIDs

Registers(i) == life[i] \in {"init", "work"}

\* Only the Actor in the map registers and posts; one that is not early has no predecessor
\* in onStop, so the subscription of the path is its own.
CurrentOK ==
    /\ \A i \in Instances : Registers(i) => current = i
    /\ \A i \in Instances \ early : Registers(i) => \A j \in Instances : life[j] # "stopping"
    /\ actorEventMap # {} => \E i \in Instances : (Registers(i) \/ life[i] = "stopping") /\ funcMap[i] # <<>>
    /\ \A i \in Instances \ early : Registers(i) /\ funcMap[i] # <<>> => actorEventMap = {funcMap[i][Len(funcMap[i])]}

\* What an Actor has registered, what is queued for it and what its functions have seen.
GivenOK ==
    /\ \A i \in Instances : \A k \in 1..Len(funcMap[i]) : funcMap[i][k] \in given[i]
    /\ \A i \in Instances : life[i] = "none" => given[i] = {} /\ events[i] = <<>> /\ funcMap[i] = <<>>
    /\ \A i \in Instances \ early : \A k \in 1..Len(events[i]) :
           given[i] # {} /\ \A f \in given[i] : given[i] = {f} => f \in {0, events[i][k]}
CallsOK ==
    \A c \in calls : c[2] \in given[c[1]] /\ (given[c[1]] # {c[2]} \/ c[1] \in early \/ c[2] \in {0, c[3]})
EventsInv == EventsTypeOK /\ CurrentOK /\ GivenOK /\ CallsOK

\* A part of a sequence, taken out by its place.
LEMMA PartOfSequence ==
    ASSUME NEW S, NEW s \in Seq(S), NEW t \in Seq(S), NEW m \in Nat, m + Len(t) <= Len(s),
           \A i \in 1..Len(t) : s[m + i] = t[i]
    PROVE  SubSeq(s, m + 1, m + Len(t)) = t
<1> DEFINE u == SubSeq(s, m + 1, m + Len(t))
<1>1. Len(t) \in Nat /\ m + 1 \in Int /\ m + Len(t) \in Int /\ \A i \in m + 1..m + Len(t) : s[i] \in S
    OBVIOUS
<1>2. u \in Seq(S) /\ Len(u) = (IF m + 1 <= m + Len(t) THEN m + Len(t) - (m + 1) + 1 ELSE 0)
      /\ \A i \in 1..m + Len(t) - (m + 1) + 1 : u[i] = s[m + 1 + i - 1]
    BY <1>1, SubSeqProperties
<1> HIDE DEF u
<1>3. Len(u) = Len(t) /\ \A i \in 1..Len(t) : u[i] = s[m + i]
    <2>1. m + Len(t) - (m + 1) + 1 = Len(t) /\ (m + 1 <= m + Len(t) <=> Len(t) >= 1)
        BY <1>1
    <2>2. Len(u) = Len(t)
        BY <1>1, <1>2, <2>1
    <2>3. ASSUME NEW i \in 1..Len(t) PROVE u[i] = s[m + i]
        <3>1. i \in 1..m + Len(t) - (m + 1) + 1 /\ m + 1 + i - 1 = m + i
            BY <1>1, <2>1
        <3> QED
            BY <1>2, <3>1
    <2> QED
        BY <2>2, <2>3
<1>4. u = t
    BY <1>2, <1>3, SeqEqual
<1> QED
    BY <1>4 DEF u

\* ToActorPath of a path in which no ID has a dot finds its Actor and child again.
LEMMA PathIsParsed ==
    ASSUME path \in Paths, NoDots
    PROVE  GetActorWithPath(NewChildPath(path)) = {current} \ {0}
<1> DEFINE n == path.node
           a == path.actor
           k == path.child
           na == n \o a
           s == na \o k
           len == Len(n)
<1>1. n \in Seq(STRING) /\ a \in Seq(STRING) /\ k \in Seq(STRING)
    BY EventsAssumption
<1>2. len \in {1, 4} /\ Len(a) = 1 /\ Len(k) \in {0, 1}
    BY <1>1 DEF NoDots
<1>3. NewChildPath(path) = s
    BY DEF NewChildPath
<1> HIDE DEF n, a, k
<1>4. na \in Seq(STRING) /\ Len(na) = len + 1 /\ na[len + 1] = a[1]
    <2>1. na \in Seq(STRING) /\ Len(na) = Len(n) + Len(a)
          /\ \A i \in 1..Len(n) + Len(a) : na[i] = IF i <= Len(n) THEN n[i] ELSE a[i - Len(n)]
        BY <1>1, ConcatProperties
    <2> QED
        BY <1>2, <2>1
<1> HIDE DEF na
<1>5. s \in Seq(STRING) /\ Len(s) = len + 1 + Len(k) /\ s[len + 1] = a[1] /\ \A i \in 1..Len(k) : s[len + 1 + i] = k[i]
    <2>1. s \in Seq(STRING) /\ Len(s) = Len(na) + Len(k)
          /\ \A i \in 1..Len(na) + Len(k) : s[i] = IF i <= Len(na) THEN na[i] ELSE k[i - Len(na)]
        BY <1>1, <1>4, ConcatProperties
    <2> HIDE DEF s, len
    <2>2. ASSUME NEW i \in 1..Len(k) PROVE s[len + 1 + i] = k[i]
        BY <1>2, <1>4, <2>1
    <2> QED
        BY <1>2, <1>4, <2>1, <2>2
<1> HIDE DEF s, len
<1>6. SubSeq(s, len + 1, len + 1) = a
    <2>1. \A i \in 1..Len(a) : s[len + i] = a[i]
        BY <1>2, <1>5
    <2> QED
        BY <1>1, <1>2, <1>5, <2>1, PartOfSequence
<1>7. SubSeq(s, len + 2, Len(s)) = k
    <2>1. SubSeq(s, (len + 1) + 1, (len + 1) + Len(k)) = k
        BY <1>1, <1>2, <1>5, PartOfSequence
    <2> QED
        BY <1>2, <1>5, <2>1
<1>8. \E p \in ToActorPath(s) : p.actor = a /\ p.child = k
    <2>1. CASE len = 1
        <3>1. len + 1 = 2 /\ len + 2 = 3 /\ Len(s) \in {2, 3} /\ Len(s) \notin {5, 6}
            BY <1>2, <1>5, <2>1
        <3>2. SubSeq(s, 2, 2) = a /\ SubSeq(s, 3, Len(s)) = k
            BY <1>6, <1>7, <3>1
        <3>3. ToActorPath(s) = {[node |-> SubSeq(s, 1, 1), actor |-> a, child |-> k]}
            BY <3>1, <3>2 DEF ToActorPath
        <3> QED
            BY <3>3
    <2>2. CASE len = 4
        <3>1. len + 1 = 5 /\ len + 2 = 6 /\ Len(s) \in {5, 6} /\ Len(s) \notin {2, 3}
            BY <1>2, <1>5, <2>2
        <3>2. SubSeq(s, 5, 5) = a /\ SubSeq(s, 6, Len(s)) = k
            BY <1>6, <1>7, <3>1
        <3>3. ToActorPath(s) = {[node |-> SubSeq(s, 1, 4), actor |-> a, child |-> k]}
            BY <3>1, <3>2 DEF ToActorPath
        <3> QED
            BY <3>3
    <2> QED
        BY <1>2, <2>1, <2>2
<1> QED
    BY <1>3, <1>8 DEF GetActorWithPath, a, k

\* The last registration counts, and is among those of the Actor.
LEMMA LastGiven ==
    ASSUME EventsInv, NEW i \in Instances, funcMap[i] # <<>>
    PROVE  Len(funcMap[i]) \in 1..Len(funcMap[i]) /\ funcMap[i][Len(funcMap[i])] \in given[i]
<1>1. funcMap[i] \in Seq({0} \cup UniqueIDs)
    BY DEF EventsInv, EventsTypeOK
<1>2. Len(funcMap[i]) \in Nat \ {0}
    BY <1>1, EmptySeq
<1>3. Len(funcMap[i]) \in 1..Len(funcMap[i])
    BY <1>2
<1> QED
    BY <1>3 DEF EventsInv, GivenOK

\* An event that is queued for an Actor on its own asks for what it registered.
LEMMA SubscriberMatches ==
    ASSUME EventsInv, NEW i \in Instances \ early, life[i] = "work", NEW u \in UniqueIDs, Matches(u)
    PROVE  given[i] # {} /\ \A f \in given[i] : given[i] = {f} => f \in {0, u}
<1>1. Registers(i) /\ current = i /\ (\A j \in Instances : life[j] # "stopping" /\ (Registers(j) => j = i))
    BY EventsAssumption DEF Registers, EventsInv, CurrentOK
<1>2. funcMap[i] # <<>>
    BY <1>1 DEF Matches, EventsInv, CurrentOK
<1>3. actorEventMap = {funcMap[i][Len(funcMap[i])]} /\ funcMap[i][Len(funcMap[i])] \in given[i]
    BY <1>1, <1>2, LastGiven DEF EventsInv, CurrentOK
<1> QED
    BY <1>3 DEF Matches

\* Every step of the actors, and of the goroutines that post events, keeps the bookkeeping
\* of what was given to whom.
LEMMA NextEventsInv == EventsInv /\ [EventsNext]_eventVars => EventsInv'
<1> SUFFICES ASSUME EventsInv, [EventsNext]_eventVars PROVE EventsInv'
    OBVIOUS
<1> USE EventsAssumption DEF EventsInv
<1>1. ASSUME NEW i \in Instances, CreateUnderPath(i) PROVE EventsInv'
    <2>1. EventsTypeOK'
        BY <1>1 DEF CreateUnderPath, EventsTypeOK
    <2>2. life[i] = "none" /\ (\A j \in Instances : ~Registers(j)) /\ funcMap[i] = <<>>
        BY <1>1 DEF CreateUnderPath, CurrentOK, GivenOK
    <2>3. life'[i] = "init" /\ (\A j \in Instances : j # i => life'[j] = life[j])
        BY <1>1 DEF CreateUnderPath, EventsTypeOK
    <2>4. CurrentOK'
        BY <1>1, <2>2, <2>3 DEF CreateUnderPath, EventsTypeOK, CurrentOK, Registers
    <2>5. GivenOK'
        BY <1>1, <2>3 DEF CreateUnderPath, GivenOK
    <2>6. CallsOK'
        BY <1>1 DEF CreateUnderPath, CallsOK
    <2> QED
        BY <2>1, <2>4, <2>5, <2>6
<1>2. ASSUME NEW i \in Instances, StartsWork(i) PROVE EventsInv'
    <2>1. EventsTypeOK'
        BY <1>2 DEF StartsWork, EventsTypeOK
    <2>2. life[i] = "init" /\ life'[i] = "work" /\ (\A j \in Instances : j # i => life'[j] = life[j])
        BY <1>2 DEF StartsWork, EventsTypeOK
    <2>3. CurrentOK'
        BY <1>2, <2>2 DEF StartsWork, EventsTypeOK, CurrentOK, Registers
    <2>4. GivenOK' /\ CallsOK'
        BY <1>2, <2>2 DEF StartsWork, GivenOK, CallsOK
    <2> QED
        BY <2>1, <2>3, <2>4
<1>3. ASSUME NEW i \in Instances, NEW u \in {0} \cup UniqueIDs, RegisterEvent(i, u) PROVE EventsInv'
    <2> DEFINE s == funcMap[i]
               t == Append(s, u)
    <2>1. s \in Seq({0} \cup UniqueIDs)
        BY DEF EventsTypeOK
    <2>2. t \in Seq({0} \cup UniqueIDs) /\ Len(s) \in Nat /\ Len(t) = Len(s) + 1 /\ t[Len(t)] = u /\ t # <<>>
          /\ \A k \in 1..Len(t) : t[k] = u \/ (k \in 1..Len(s) /\ t[k] = s[k])
        BY <2>1
    <2>3. funcMap' = [funcMap EXCEPT ![i] = t] /\ Registers(i) /\ actorEventMap' = {u}
        BY <1>3 DEF RegisterEvent, addActorEvent, Registers
    <2> HIDE DEF s, t
    <2>4. EventsTypeOK'
        <3>1. funcMap' \in [Instances -> Seq({0} \cup UniqueIDs)]
            BY <2>2, <2>3 DEF EventsTypeOK
        <3>2. given' \in [Instances -> SUBSET ({0} \cup UniqueIDs)]
            BY <1>3 DEF RegisterEvent, EventsTypeOK
        <3> QED
            BY <1>3, <3>1, <3>2 DEF RegisterEvent, EventsTypeOK
    <2>5. funcMap'[i] = t /\ (\A j \in Instances : j # i => funcMap'[j] = funcMap[j] /\ ~Registers(j))
        BY <2>3 DEF EventsTypeOK, CurrentOK
    <2>6. given'[i] = given[i] \cup {u} /\ (\A j \in Instances : j # i => given'[j] = given[j])
        BY <1>3 DEF RegisterEvent, EventsTypeOK
    <2>7. CurrentOK'
        BY <1>3, <2>2, <2>3, <2>5 DEF RegisterEvent, CurrentOK, Registers
    <2>8. GivenOK'
        <3>1. ASSUME NEW j \in Instances, NEW k \in 1..Len(funcMap'[j]) PROVE funcMap'[j][k] \in given'[j]
            <4>1. CASE j = i
                <5>1. k \in 1..Len(t) /\ (t[k] = u \/ (k \in 1..Len(s) /\ t[k] = s[k]))
                    BY <2>2, <2>5, <3>1, <4>1
                <5>2. \A m \in 1..Len(s) : s[m] \in given[i]
                    BY DEF GivenOK, s
                <5> QED
                    BY <2>5, <2>6, <4>1, <5>1, <5>2
            <4>2. CASE j # i
                BY <2>5, <2>6, <3>1, <4>2 DEF GivenOK
            <4> QED
                BY <4>1, <4>2
        <3>2. \A j \in Instances \ early : \A k \in 1..Len(events[j]) :
                 given'[j] # {} /\ \A f \in given'[j] : given'[j] = {f} => f \in {0, events[j][k]}
            BY <2>6 DEF GivenOK
        <3> QED
            BY <1>3, <2>3, <2>5, <2>6, <3>1, <3>2 DEF RegisterEvent, GivenOK, Registers
    <2>9. CallsOK'
        <3>1. ASSUME NEW c \in calls
              PROVE  c[2] \in given'[c[1]] /\ (given'[c[1]] # {c[2]} \/ c[1] \in early \/ c[2] \in {0, c[3]})
            <4>1. c[1] \in Instances /\ c[2] \in given[c[1]] /\ (given[c[1]] # {c[2]} \/ c[1] \in early \/ c[2] \in {0, c[3]})
                BY DEF CallsOK, EventsTypeOK
            <4> QED
                BY <2>6, <4>1
        <3> QED
            BY <1>3, <3>1 DEF RegisterEvent, CallsOK
    <2> QED
        BY <2>4, <2>7, <2>8, <2>9
<1>4. ASSUME NEW i \in Instances, UnregisterEvent(i) PROVE EventsInv'
    <2>1. EventsTypeOK'
        BY <1>4 DEF UnregisterEvent, EventsTypeOK
    <2>2. funcMap'[i] = <<>> /\ Registers(i) /\ actorEventMap' = {} /\ Len(funcMap'[i]) = 0
          /\ (\A j \in Instances : j # i => funcMap'[j] = funcMap[j] /\ ~Registers(j))
        BY <1>4 DEF UnregisterEvent, removeActorEvent, EventsTypeOK, CurrentOK, Registers
    <2>3. CurrentOK'
        BY <1>4, <2>2 DEF UnregisterEvent, CurrentOK, Registers
    <2>4. GivenOK' /\ CallsOK'
        BY <1>4, <2>2 DEF UnregisterEvent, GivenOK, CallsOK
    <2> QED
        BY <2>1, <2>3, <2>4
<1>5. ASSUME NEW u \in UniqueIDs, PostEvent(u) PROVE EventsInv'
    <2> DEFINE Gets(i) == i \in GetActorWithPath(NewChildPath(path)) /\ life[i] = "work" /\ Matches(u)
    <2>1. ASSUME NEW i \in Instances
          PROVE  /\ events'[i] \in Seq(UniqueIDs) /\ (~Gets(i) => events'[i] = events[i])
                 /\ \A k \in 1..Len(events'[i]) :
                       (k \in 1..Len(events[i]) /\ events'[i][k] = events[i][k]) \/ (Gets(i) /\ events'[i][k] = u)
        <3>1. events'[i] = IF Gets(i) THEN Append(events[i], u) ELSE events[i]
            BY <1>5 DEF PostEvent
        <3> HIDE DEF Gets
        <3> DEFINE s == events[i]
                   t == Append(s, u)
        <3>2. s \in Seq(UniqueIDs)
            BY DEF EventsTypeOK
        <3>3. t \in Seq(UniqueIDs) /\ \A k \in 1..Len(t) : (k \in 1..Len(s) /\ t[k] = s[k]) \/ t[k] = u
            BY <3>2
        <3> HIDE DEF s, t
        <3>4. (Gets(i) => events'[i] = t) /\ (~Gets(i) => events'[i] = s)
            BY <3>1 DEF s, t
        <3>5. \A k \in 1..Len(events'[i]) : (k \in 1..Len(s) /\ events'[i][k] = s[k]) \/ (Gets(i) /\ events'[i][k] = u)
            <4>1. CASE Gets(i)
                BY <3>3, <3>4, <4>1
            <4>2. CASE ~Gets(i)
                BY <3>4, <4>2
            <4> QED
                BY <4>1, <4>2
        <3> QED
            BY <3>2, <3>3, <3>4, <3>5 DEF s
    <2> HIDE DEF Gets
    <2>2. EventsTypeOK'
        BY <1>5, <2>1 DEF PostEvent, EventsTypeOK
    <2>3. CurrentOK' /\ CallsOK'
        BY <1>5 DEF PostEvent, CurrentOK, CallsOK, Registers
    <2>4. GivenOK'
        <3>1. \A i \in Instances : life[i] = "none" => events'[i] = <<>>
            BY <2>1 DEF Gets, GivenOK
        <3>2. ASSUME NEW i \in Instances \ early, NEW k \in 1..Len(events'[i])
              PROVE  given[i] # {} /\ \A f \in given[i] : given[i] = {f} => f \in {0, events'[i][k]}
            <4>1. CASE k \in 1..Len(events[i]) /\ events'[i][k] = events[i][k]
                BY <4>1 DEF GivenOK
            <4>2. CASE Gets(i) /\ events'[i][k] = u
                BY <4>2, SubscriberMatches DEF Gets
            <4> QED
                BY <2>1, <4>1, <4>2
        <3> QED
            <4>1. UNCHANGED <<given, funcMap, life, early>>
                BY <1>5 DEF PostEvent
            <4> QED
                BY <3>1, <3>2, <4>1 DEF GivenOK
    <2> QED
        BY <2>2, <2>3, <2>4
<1>6. ASSUME NEW i \in Instances, InvokeFuncs(i) PROVE EventsInv'
    <2> DEFINE s == events[i]
               t == Tail(s)
    <2>1. s \in Seq(UniqueIDs) /\ s # <<>>
        BY <1>6 DEF EventsTypeOK, InvokeFuncs
    <2>2. t \in Seq(UniqueIDs) /\ Head(s) = s[1] /\ 1 \in 1..Len(s) /\ s[1] \in UniqueIDs
          /\ \A k \in 1..Len(t) : k + 1 \in 1..Len(s) /\ t[k] = s[k + 1]
        BY <2>1
    <2>3. events' = [events EXCEPT ![i] = t] /\ life[i] = "work"
        BY <1>6 DEF InvokeFuncs
    <2> HIDE DEF s, t
    <2>4. events'[i] = t /\ (\A j \in Instances : j # i => events'[j] = events[j])
        BY <2>3 DEF EventsTypeOK
    <2>5. PICK n \in 0..Len(funcMap[i]) : calls' = calls \cup {<<i, funcMap[i][k], Head(s)>> : k \in 1..n}
        BY <1>6 DEF InvokeFuncs, s
    <2>6. Len(funcMap[i]) \in Nat /\ funcMap[i] \in Seq({0} \cup UniqueIDs)
        BY DEF EventsTypeOK
    <2>7. \A k \in 1..n : k \in 1..Len(funcMap[i]) /\ funcMap[i][k] \in {0} \cup UniqueIDs /\ funcMap[i][k] \in given[i]
        BY <2>6 DEF GivenOK
    <2>8. EventsTypeOK'
        <3>1. calls' \subseteq Instances \X ({0} \cup UniqueIDs) \X UniqueIDs
            <4>1. Head(s) \in UniqueIDs
                BY <2>2
            <4>2. \A k \in 1..n : <<i, funcMap[i][k], Head(s)>> \in Instances \X ({0} \cup UniqueIDs) \X UniqueIDs
                BY <2>7, <4>1
            <4>3. calls \subseteq Instances \X ({0} \cup UniqueIDs) \X UniqueIDs
                BY DEF EventsTypeOK
            <4> QED
                BY <2>5, <4>2, <4>3
        <3>2. events' \in [Instances -> Seq(UniqueIDs)]
            BY <2>2, <2>3 DEF EventsTypeOK
        <3> QED
            BY <1>6, <3>1, <3>2 DEF InvokeFuncs, EventsTypeOK
    <2>9. CurrentOK'
        BY <1>6 DEF InvokeFuncs, CurrentOK, Registers
    <2>10. GivenOK'
        <3>1. ASSUME NEW j \in Instances \ early, NEW k \in 1..Len(events'[j])
              PROVE  given[j] # {} /\ \A f \in given[j] : given[j] = {f} => f \in {0, events'[j][k]}
            <4>1. PICK m \in 1..Len(events[j]) : events'[j][k] = events[j][m]
                <5>1. CASE j = i
                    BY <2>2, <2>4, <3>1, <5>1 DEF s
                <5>2. CASE j # i
                    BY <2>4, <3>1, <5>2
                <5> QED
                    BY <5>1, <5>2
            <4> QED
                BY <4>1 DEF GivenOK
        <3>2. \A j \in Instances : life[j] = "none" => j # i
            BY <2>3
        <3> QED
            BY <1>6, <2>4, <3>1, <3>2 DEF InvokeFuncs, GivenOK
    <2>11. CallsOK'
        <3>1. \A f \in given[i] : given[i] = {f} /\ i \notin early => f \in {0, Head(s)}
            <4>1. Head(s) = events[i][1] /\ 1 \in 1..Len(events[i])
                BY <2>2 DEF s
            <4>2. i \notin early => \A f \in given[i] : given[i] = {f} => f \in {0, events[i][1]}
                BY <4>1 DEF GivenOK
            <4> QED
                BY <4>1, <4>2
        <3>2. ASSUME NEW c \in calls', c \notin calls
              PROVE  c[2] \in given[c[1]] /\ (given[c[1]] # {c[2]} \/ c[1] \in early \/ c[2] \in {0, c[3]})
            <4>1. PICK k \in 1..n : c = <<i, funcMap[i][k], Head(s)>>
                BY <2>5, <3>2
            <4>2. c[1] = i /\ c[2] = funcMap[i][k] /\ c[3] = Head(s)
                BY <4>1
            <4> QED
                BY <2>7, <3>1, <4>2
        <3> QED
            BY <1>6, <3>2 DEF InvokeFuncs, CallsOK
    <2> QED
        BY <2>8, <2>9, <2>10, <2>11
<1>7. ASSUME NEW i \in Instances, LeaveMap(i) PROVE EventsInv'
    <2>1. EventsTypeOK'
        BY <1>7 DEF LeaveMap, EventsTypeOK
    <2>2. life[i] = "work" /\ life'[i] = "stopping" /\ (\A j \in Instances : j # i => life'[j] = life[j] /\ ~Registers(j))
        BY <1>7 DEF LeaveMap, EventsTypeOK, CurrentOK
    <2>3. CurrentOK'
        BY <1>7, <2>2 DEF LeaveMap, CurrentOK, Registers
    <2>4. GivenOK' /\ CallsOK'
        BY <1>7, <2>2 DEF LeaveMap, GivenOK, CallsOK
    <2> QED
        BY <2>1, <2>3, <2>4
<1>8. ASSUME NEW i \in Instances, EventOnStop(i) PROVE EventsInv'
    <2>1. <<>> \in Seq({0} \cup UniqueIDs) /\ <<>> \in Seq(UniqueIDs)
        OBVIOUS
    <2>2. EventsTypeOK'
        BY <1>8, <2>1 DEF EventOnStop, EventsTypeOK
    <2>3. life[i] = "stopping" /\ life'[i] = "ended" /\ funcMap'[i] = <<>> /\ events'[i] = <<>>
          /\ (\A j \in Instances : j # i => life'[j] = life[j] /\ funcMap'[j] = funcMap[j] /\ events'[j] = events[j])
        BY <1>8 DEF EventOnStop, EventsTypeOK
    <2>4. \A j \in Instances \ early : ~Registers(j)
        BY <2>3 DEF CurrentOK
    <2>5. CurrentOK'
        BY <1>8, <2>3, <2>4 DEF EventOnStop, removeActorEvent, CurrentOK, Registers
    <2>6. GivenOK'
        BY <1>8, <2>3 DEF EventOnStop, GivenOK
    <2>7. CallsOK'
        BY <1>8 DEF EventOnStop, CallsOK
    <2> QED
        BY <2>2, <2>5, <2>6, <2>7
<1>9. CASE UNCHANGED eventVars
    BY <1>9 DEF eventVars, EventsTypeOK, CurrentOK, GivenOK, CallsOK, Registers
<1> QED
    BY <1>1, <1>2, <1>3, <1>4, <1>5, <1>6, <1>7, <1>8, <1>9 DEF EventsNext

\* A working Actor is found under its path and subscribed with what it registered, and its
\* functions see the events they asked for, whatever the other Actors under the path do and
\* however events and restarts interleave, but for the three uses the property names
\* (PostEvent, addActorEvent, removeActorEvent, ToActorPath).
THEOREM EventsReachTheirActors == EventsSpec => []EventsReachActors
<1>1. EventsInit => EventsInv
    <2>1. EventsInit => EventsTypeOK
        BY DEF EventsInit, EventsTypeOK
    <2>2. Len(<<>>) = 0
        OBVIOUS
    <2> QED
        BY <2>1, <2>2 DEF EventsInit, EventsInv, CurrentOK, GivenOK, CallsOK, Registers
<1>2. EventsInv => EventsReachActors
    BY EventsAssumption, PathIsParsed DEF EventsInv, EventsTypeOK, CurrentOK, CallsOK, EventsReachActors, Registers
<1> QED
    BY <1>1, <1>2, NextEventsInv, PTL DEF EventsSpec

(***************************************************************************)
(* RequestHops.                                                            *)
(***************************************************************************)

Hop == [kind : {"entry", "invoke", "notify", "cluster"}, parent : Nat, requestId : Nat, codec : Nat, deadline : Nat,
        cell : Nat, sent : SUBSET Nat, under : SUBSET Nat]
Wire == [kind : {"invoke", "notify"},
         message : [parent : Nat, requestId : Nat, codec : Nat, deadline : Nat, held : SUBSET Nat]]

\* What holds of the context i of a chain of contexts hs with the states hp: it has a cell of
\* its own, and its deadline, codec and request ID are bounded by or equal to its caller's.
HopOK(hs, hp, i) ==
    /\ hs[i].cell = i /\ hp[i] \ {i} = hs[i].sent /\ hp[i] \subseteq 1..Len(hs)
    /\ hs[i].kind = "notify" => i > 1 /\ hs[i].under = {}
    /\ i > 1 => /\ hs[i].parent \in 1..Len(hs) /\ hs[i].deadline > 0
                /\ hs[hs[i].parent].deadline # 0 => hs[i].deadline <= hs[hs[i].parent].deadline
                /\ hs[i].codec = hs[1].codec /\ hs[i].codec # 0 /\ hs[i].requestId = hs[1].requestId
\* The same of a message on its way to another node, in milliseconds.
MessageOK(hs, m) ==
    /\ m.parent \in 1..Len(hs) /\ m.deadline > 0 /\ m.held \subseteq 1..Len(hs)
    /\ hs[m.parent].deadline # 0 => m.deadline * TicksPerMs <= hs[m.parent].deadline
    /\ m.codec = hs[1].codec /\ m.codec # 0 /\ m.requestId = hs[1].requestId
Chain(hs, hp, ws) ==
    /\ hs \in Seq(Hop) /\ hp \in Seq(SUBSET Nat) /\ Len(hp) = Len(hs) /\ ws \subseteq Wire
    /\ \A i \in 1..Len(hs) : HopOK(hs, hp, i)
    /\ \A w \in ws : MessageOK(hs, w.message)
HopsInv == ticks \in Nat /\ ticks >= TicksPerMs /\ Chain(hops, heap, underWay)

\* The fields of a context.
LEMMA ContextFields ==
    ASSUME NEW kind \in {"entry", "invoke", "notify", "cluster"}, NEW parent \in Nat, NEW requestId \in Nat, NEW codec \in Nat,
           NEW deadline \in Nat, NEW cell \in Nat, NEW sent \in SUBSET Nat, NEW under \in SUBSET Nat
    PROVE  LET c == Context(kind, parent, requestId, codec, deadline, cell, sent, under) IN
           /\ c \in Hop /\ c.kind = kind /\ c.parent = parent /\ c.requestId = requestId /\ c.codec = codec
           /\ c.deadline = deadline /\ c.cell = cell /\ c.sent = sent /\ c.under = under
BY DEF Context, Hop

\* ensureRequestContext changes the codec, and only one that is missing.
LEMMA EnsureFields ==
    ASSUME NEW h \in Hop
    PROVE  LET c == ensureRequestContext(h) IN
           /\ c \in Hop /\ c.kind = h.kind /\ c.parent = h.parent /\ c.requestId = h.requestId
           /\ c.deadline = h.deadline /\ c.cell = h.cell /\ c.sent = h.sent /\ c.under = h.under
           /\ c.codec # 0 /\ (h.codec # 0 => c.codec = h.codec)
BY DEF ensureRequestContext, Hop, DefaultCodec, ProtobufCodec

\* Filling in the codec of a caller leaves the chain in order: a context other than the first
\* has a codec, and the first one has it once there is another or a message.
LEMMA EnsureChain ==
    ASSUME NEW hs, NEW hp, NEW ws, Chain(hs, hp, ws), NEW i \in 1..Len(hs)
    PROVE  LET gs == [hs EXCEPT ![i] = ensureRequestContext(hs[i])] IN
           Chain(gs, hp, ws) /\ Len(gs) = Len(hs) /\ gs[i] = ensureRequestContext(hs[i]) /\ gs[1].codec = gs[i].codec /\ gs[i].codec # 0
           /\ gs[i].deadline = hs[i].deadline /\ gs[i].cell = i /\ gs[1].requestId = gs[i].requestId
<1> DEFINE c == ensureRequestContext(hs[i])
           gs == [hs EXCEPT ![i] = c]
<1>1. hs \in Seq(Hop) /\ Len(hs) \in Nat /\ hs[i] \in Hop /\ \A k \in 1..Len(hs) : hs[k] \in Hop
    BY DEF Chain
<1>2. /\ c \in Hop /\ c.kind = hs[i].kind /\ c.parent = hs[i].parent /\ c.requestId = hs[i].requestId
      /\ c.deadline = hs[i].deadline /\ c.cell = hs[i].cell /\ c.sent = hs[i].sent /\ c.under = hs[i].under
      /\ c.codec # 0 /\ (hs[i].codec # 0 => c.codec = hs[i].codec)
    BY <1>1, EnsureFields
<1> HIDE DEF c
<1>3. gs \in Seq(Hop) /\ Len(gs) = Len(hs) /\ gs[i] = c /\ \A k \in 1..Len(hs) : k # i => gs[k] = hs[k]
    BY <1>1, <1>2, ExceptSeq
<1> HIDE DEF gs
<1>4. 1 \in 1..Len(hs)
    BY <1>1
<1>5. \A k \in 1..Len(hs) : /\ gs[k].kind = hs[k].kind /\ gs[k].parent = hs[k].parent /\ gs[k].requestId = hs[k].requestId
                              /\ gs[k].deadline = hs[k].deadline /\ gs[k].cell = hs[k].cell /\ gs[k].sent = hs[k].sent
                              /\ gs[k].under = hs[k].under /\ (hs[k].codec # 0 => gs[k].codec = hs[k].codec)
    BY <1>2, <1>3
<1>6. ASSUME NEW k \in 1..Len(hs) PROVE HopOK(gs, hp, k)
    <2>1. HopOK(hs, hp, k)
        BY DEF Chain
    <2>2. k > 1 => gs[k].codec = gs[1].codec /\ gs[k].codec # 0
        BY <1>4, <1>5, <2>1 DEF HopOK
    <2> QED
        BY <1>3, <1>4, <1>5, <2>1, <2>2 DEF HopOK
<1>7. ASSUME NEW w \in ws PROVE MessageOK(gs, w.message)
    <2>1. MessageOK(hs, w.message)
        BY DEF Chain
    <2> QED
        BY <1>3, <1>4, <1>5, <2>1 DEF MessageOK
<1>8. Chain(gs, hp, ws)
    BY <1>3, <1>6, <1>7 DEF Chain
<1>9. gs[1].codec = gs[i].codec /\ gs[1].requestId = gs[i].requestId /\ hs[i].cell = i
    <2>1. HopOK(gs, hp, i) /\ HopOK(hs, hp, i)
        BY <1>6 DEF Chain
    <2> QED
        BY <1>1, <2>1 DEF HopOK
<1> QED
    BY <1>2, <1>3, <1>5, <1>8, <1>9 DEF c, gs

\* A new context that is in order with its caller's keeps the chain in order.
LEMMA AppendChain ==
    ASSUME NEW hs, NEW hp, NEW ws, Chain(hs, hp, ws), NEW c \in Hop, NEW held \in SUBSET (1..Len(hs)), Len(hs) > 0,
           c.cell = Len(hs) + 1, c.sent = held, c.kind = "notify" => c.under = {}, c.parent \in 1..Len(hs), c.deadline > 0,
           hs[c.parent].deadline # 0 => c.deadline <= hs[c.parent].deadline,
           c.codec = hs[1].codec, c.codec # 0, c.requestId = hs[1].requestId
    PROVE  Chain(Append(hs, c), Append(hp, held), ws)
<1> DEFINE gs == Append(hs, c)
           gp == Append(hp, held)
           n == Len(hs)
<1>1. hs \in Seq(Hop) /\ n \in Nat /\ n > 0 /\ hp \in Seq(SUBSET Nat) /\ Len(hp) = n /\ held \in SUBSET Nat
    BY DEF Chain
<1>2. gs \in Seq(Hop) /\ Len(gs) = n + 1 /\ gs[n + 1] = c /\ \A k \in 1..n : gs[k] = hs[k]
    BY <1>1
<1>3. gp \in Seq(SUBSET Nat) /\ Len(gp) = n + 1 /\ gp[n + 1] = held /\ \A k \in 1..n : gp[k] = hp[k]
    BY <1>1
<1> HIDE DEF gs, gp, n
<1>4. 1 \in 1..n /\ 1..n \subseteq 1..n + 1 /\ n + 1 \notin 1..n
    BY <1>1
<1>5. ASSUME NEW k \in 1..n PROVE HopOK(gs, gp, k)
    <2>1. HopOK(hs, hp, k)
        BY DEF Chain, n
    <2> QED
        BY <1>2, <1>3, <1>4, <2>1 DEF HopOK, n
<1>6. HopOK(gs, gp, n + 1)
    BY <1>1, <1>2, <1>3, <1>4 DEF HopOK, n
<1>7. ASSUME NEW w \in ws PROVE MessageOK(gs, w.message)
    <2>1. MessageOK(hs, w.message)
        BY DEF Chain
    <2> QED
        BY <1>2, <1>4, <2>1 DEF MessageOK, n
<1>8. \A k \in 1..Len(gs) : HopOK(gs, gp, k)
    BY <1>1, <1>2, <1>5, <1>6
<1>9. ws \subseteq Wire
    BY DEF Chain
<1>10. Chain(gs, gp, ws)
    BY <1>2, <1>3, <1>7, <1>8, <1>9 DEF Chain
<1> QED
    BY <1>10 DEF gs, gp

\* A deadline in whole milliseconds is not later than it was, and not lost.
LEMMA Milliseconds ==
    ASSUME NEW x \in Nat, NEW t \in Nat \ {0}
    PROVE  x \div t \in Nat /\ (x \div t) * t <= x /\ (x >= t => x \div t > 0)
<1>1. x \div t \in Int /\ x = (t * (x \div t)) + (x % t)
    OBVIOUS
<1>2. x % t >= 0 /\ x \div t >= 0
    OBVIOUS
<1>3. x >= t => x \div t > 0
    OBVIOUS
<1>4. (x \div t) * t = t * (x \div t)
    BY <1>1
<1>5. t * (x \div t) \in Int /\ x % t \in Int
    BY <1>1
<1> QED
    BY <1>1, <1>2, <1>3, <1>4, <1>5

\* Fewer messages on their way are still in order.
LEMMA FewerMessages ==
    ASSUME NEW hs, NEW hp, NEW ws, Chain(hs, hp, ws), NEW vs \in SUBSET ws
    PROVE  Chain(hs, hp, vs)
BY DEF Chain

\* The deadline of a call: the caller's, or the time-out of the system from now.
LEMMA DeadlineOfCall ==
    ASSUME HopsInv, NEW c \in Hop
    PROVE  Deadline(c) \in Nat /\ Deadline(c) > 0 /\ (c.deadline # 0 => Deadline(c) = c.deadline)
                /\ ((c.deadline # 0 => ticks < c.deadline) => Deadline(c) >= TicksPerMs)
<1>1. ticks \in Nat /\ ticks >= TicksPerMs /\ CallTimeout \in Nat \ {0} /\ TicksPerMs \in Nat \ {0} /\ c.deadline \in Nat
    BY HopsAssumption DEF HopsInv, Hop
<1> QED
    BY <1>1 DEF Deadline

\* What holds of a context that may call: it is one of the chain, and its deadline is ahead.
LEMMA CallerOK ==
    ASSUME HopsInv, NEW i, MayCall(i)
    PROVE  /\ i \in 1..Len(hops) /\ hops[i] \in Hop /\ hops[i].cell = i /\ Len(hops) \in Nat /\ Len(hops) > 0
           /\ heap[i] \in SUBSET (1..Len(hops)) /\ (hops[i].deadline # 0 => ticks < hops[i].deadline)
<1>1. i \in 1..Len(hops) /\ hops \in Seq(Hop) /\ HopOK(hops, heap, i)
    BY DEF HopsInv, Chain, MayCall, HopRuns
<1>2. hops[i] \in Hop /\ Len(hops) \in Nat /\ Len(hops) > 0
    BY <1>1
<1>3. hops[i].deadline \in Nat /\ ticks \in Nat
    BY <1>2 DEF HopsInv, Hop
<1> QED
    BY <1>1, <1>2, <1>3 DEF HopOK, MayCall, Err, PastDeadline

\* A call to an Actor of this node: the caller's context gets its codec, and the new one is
\* in order with it.
LEMMA CallLocalHops ==
    ASSUME HopsInv, NEW i, CallLocal(i)
    PROVE  HopsInv'
<1> DEFINE c == ensureRequestContext(hops[i])
           gs == [hops EXCEPT ![i] = c]
<1>1. /\ i \in 1..Len(hops) /\ hops[i] \in Hop /\ hops[i].cell = i /\ Len(hops) \in Nat /\ Len(hops) > 0
      /\ heap[i] \in SUBSET (1..Len(hops))
    BY CallerOK DEF CallLocal
<1>2. Chain(hops, heap, underWay)
    BY DEF HopsInv
<1>3. /\ Chain(gs, heap, underWay) /\ Len(gs) = Len(hops) /\ gs[i] = c /\ gs[1].codec = gs[i].codec /\ gs[i].codec # 0
      /\ gs[i].deadline = hops[i].deadline /\ gs[i].cell = i /\ gs[1].requestId = gs[i].requestId
    BY <1>1, <1>2, EnsureChain
<1>4. c \in Hop
    BY <1>1, EnsureFields
<1>5. PICK x \in {newInvokeContext(c, i), newNotifyContext(c, i)} : hops' = Append(gs, x) /\ heap' = Append(heap, heap[i])
    BY <1>1 DEF CallLocal
<1> HIDE DEF c, gs
<1>6. Deadline(c) \in Nat /\ Deadline(c) > 0 /\ (c.deadline # 0 => Deadline(c) = c.deadline)
    BY <1>4, DeadlineOfCall
<1>7. PICK kind \in {"invoke", "notify"}, under \in SUBSET Nat :
          x = Context(kind, i, c.requestId, c.codec, Deadline(c), Len(hops) + 1, heap[i], under) /\ (kind = "notify" => under = {})
    <2>1. hops[i].under \cup {i} \in SUBSET Nat
        BY <1>1 DEF Hop
    <2>2. CASE x = newInvokeContext(c, i)
        BY <1>3, <2>1, <2>2 DEF newInvokeContext, Clone
    <2>3. CASE x = newNotifyContext(c, i)
        BY <1>3, <2>3 DEF newNotifyContext, Clone
    <2> QED
        BY <1>5, <2>2, <2>3
<1>8. /\ x \in Hop /\ x.kind = kind /\ x.parent = i /\ x.requestId = c.requestId /\ x.codec = c.codec
      /\ x.deadline = Deadline(c) /\ x.cell = Len(hops) + 1 /\ x.sent = heap[i] /\ x.under = under
    <2>1. /\ kind \in {"entry", "invoke", "notify", "cluster"} /\ i \in Nat /\ c.requestId \in Nat /\ c.codec \in Nat
          /\ Len(hops) + 1 \in Nat /\ heap[i] \in SUBSET Nat
        BY <1>1, <1>4 DEF Hop
    <2> QED
        BY <1>6, <1>7, <2>1 DEF Context, Hop
<1>9. Chain(Append(gs, x), Append(heap, heap[i]), underWay)
    <2>1. gs[x.parent].deadline # 0 => x.deadline <= gs[x.parent].deadline
        BY <1>3, <1>6, <1>8
    <2>2. heap[i] \in SUBSET (1..Len(gs)) /\ Len(gs) > 0 /\ x.parent \in 1..Len(gs) /\ x.cell = Len(gs) + 1
        BY <1>1, <1>3, <1>8
    <2>3. x.codec = gs[1].codec /\ x.codec # 0 /\ x.requestId = gs[1].requestId /\ x.deadline > 0 /\ (x.kind = "notify" => x.under = {})
        BY <1>3, <1>6, <1>7, <1>8
    <2> QED
        BY <1>3, <1>8, <2>1, <2>2, <2>3, AppendChain
<1> QED
    BY <1>5, <1>9 DEF HopsInv, CallLocal

\* A call through the cluster: the message has the caller's deadline in whole milliseconds.
LEMMA CallRemoteHops ==
    ASSUME HopsInv, NEW i, CallRemote(i)
    PROVE  HopsInv'
<1> DEFINE c == ensureRequestContext(hops[i])
           gs == [hops EXCEPT ![i] = c]
           m == buildMessage(c, i)
<1>1. /\ i \in 1..Len(hops) /\ hops[i] \in Hop /\ hops[i].cell = i /\ Len(hops) \in Nat /\ Len(hops) > 0
      /\ heap[i] \in SUBSET (1..Len(hops)) /\ (hops[i].deadline # 0 => ticks < hops[i].deadline)
    BY CallerOK DEF CallRemote
<1>2. Chain(hops, heap, underWay)
    BY DEF HopsInv
<1>3. /\ Chain(gs, heap, underWay) /\ Len(gs) = Len(hops) /\ gs[i] = c /\ gs[1].codec = gs[i].codec /\ gs[i].codec # 0
      /\ gs[i].deadline = hops[i].deadline /\ gs[i].cell = i /\ gs[1].requestId = gs[i].requestId
    BY <1>1, <1>2, EnsureChain
<1>4. c \in Hop
    BY <1>1, EnsureFields
<1>5. PICK kind \in {"invoke", "notify"} :
          hops' = gs /\ (underWay' = underWay \cup {[kind |-> kind, message |-> m]} \/ underWay' = underWay)
    BY DEF CallRemote
<1> HIDE DEF c, gs
<1>6. /\ Deadline(c) \in Nat /\ Deadline(c) > 0 /\ (c.deadline # 0 => Deadline(c) = c.deadline) /\ Deadline(c) >= TicksPerMs
      /\ TicksPerMs \in Nat \ {0}
    BY <1>1, <1>3, <1>4, DeadlineOfCall, HopsAssumption
<1>7. newInvokeContext(c, i).deadline = Deadline(c)
    BY DEF newInvokeContext, Clone, Context
<1>8. m = [parent |-> i, requestId |-> c.requestId, codec |-> c.codec,
           deadline |-> Deadline(c) \div TicksPerMs, held |-> heap[i]]
    BY <1>3, <1>7 DEF buildMessage, cloneBytesMap
<1>9. LET d == Deadline(c) \div TicksPerMs IN d \in Nat /\ d * TicksPerMs <= Deadline(c) /\ d > 0
    BY <1>6, Milliseconds
<1> HIDE DEF m
<1>10. /\ m.parent = i /\ m.requestId = c.requestId /\ m.codec = c.codec /\ m.held = heap[i]
       /\ m.deadline = Deadline(c) \div TicksPerMs
    BY <1>8
<1>11. [kind |-> kind, message |-> m] \in Wire
    <2>1. i \in Nat /\ c.requestId \in Nat /\ c.codec \in Nat /\ heap[i] \in SUBSET Nat
        BY <1>1, <1>4 DEF Hop
    <2> QED
        BY <1>8, <1>9, <2>1 DEF Wire
<1>12. MessageOK(gs, m)
    <2>1. gs[i].deadline # 0 => m.deadline * TicksPerMs <= gs[i].deadline
        BY <1>3, <1>6, <1>9, <1>10
    <2> QED
        BY <1>1, <1>3, <1>9, <1>10, <2>1 DEF MessageOK
<1>13. Chain(gs, heap, underWay')
    <2> DEFINE w == [kind |-> kind, message |-> m]
    <2>1. w \in Wire /\ w.message = m
        BY <1>11
    <2> HIDE DEF w
    <2>2. underWay' = underWay \cup {w} \/ underWay' = underWay
        BY <1>5 DEF w
    <2> QED
        BY <1>3, <1>12, <2>1, <2>2 DEF Chain
<1> QED
    BY <1>5, <1>13 DEF HopsInv, CallRemote

\* A message that arrives in time becomes a context, with the deadline that it brings.
LEMMA ArriveHops ==
    ASSUME HopsInv, NEW w \in underWay, Arrive(w)
    PROVE  HopsInv'
<1> DEFINE m == w.message
           b == messageContext(m)
           x == [b EXCEPT !.kind = w.kind, !.deadline = Deadline(b)]
<1>1. Chain(hops, heap, underWay) /\ w \in Wire /\ MessageOK(hops, m) /\ hops \in Seq(Hop)
    BY DEF HopsInv, Chain
<1>2. Chain(hops, heap, underWay')
    BY <1>1, FewerMessages DEF Arrive
<1>3. ticks' = ticks /\ ticks \in Nat /\ ticks >= TicksPerMs
    BY DEF Arrive, HopsInv
<1>4. CASE hops' = hops /\ heap' = heap
    BY <1>2, <1>3, <1>4 DEF HopsInv
<1>5. CASE hops' = Append(hops, x) /\ heap' = Append(heap, m.held)
    <2>1. /\ w.kind \in {"invoke", "notify"} /\ m.parent \in Nat /\ m.requestId \in Nat /\ m.codec \in Nat /\ m.deadline \in Nat
          /\ m.held \in SUBSET Nat /\ Len(hops) \in Nat /\ TicksPerMs \in Nat \ {0}
        BY <1>1, HopsAssumption DEF Wire
    <2> HIDE DEF m
    <2>2. m.deadline * TicksPerMs \in Nat /\ m.deadline * TicksPerMs > 0
        BY <1>1, <2>1 DEF MessageOK
    <2>3. /\ b \in Hop /\ b.parent = m.parent /\ b.requestId = m.requestId /\ b.codec = m.codec
          /\ b.deadline = m.deadline * TicksPerMs /\ b.cell = Len(hops) + 1 /\ b.sent = m.held /\ b.under = {}
        BY <2>1, <2>2 DEF messageContext, Context, Hop
    <2> HIDE DEF b
    <2>4. Deadline(b) = m.deadline * TicksPerMs
        BY <2>2, <2>3, DeadlineOfCall
    <2>5. /\ x \in Hop /\ x.parent = m.parent /\ x.requestId = m.requestId /\ x.codec = m.codec
          /\ x.deadline = m.deadline * TicksPerMs /\ x.cell = Len(hops) + 1 /\ x.sent = m.held /\ x.under = {}
        BY <2>1, <2>2, <2>3, <2>4 DEF Hop
    <2> HIDE DEF x
    <2>6. Len(hops) > 0 /\ m.held \in SUBSET (1..Len(hops)) /\ x.parent \in 1..Len(hops) /\ x.deadline > 0
        BY <1>1, <2>1, <2>2, <2>5 DEF MessageOK
    <2>7. /\ x.codec = hops[1].codec /\ x.codec # 0 /\ x.requestId = hops[1].requestId
          /\ hops[x.parent].deadline # 0 => x.deadline <= hops[x.parent].deadline
        BY <1>1, <2>5 DEF MessageOK
    <2>8. Chain(Append(hops, x), Append(heap, m.held), underWay')
        BY <1>2, <2>5, <2>6, <2>7, AppendChain
    <2> QED
        BY <1>3, <1>5, <2>8 DEF HopsInv
<1> QED
    BY <1>4, <1>5 DEF Arrive, Queue

\* A handler changes the state of its own context alone.
LEMMA ChangeHops ==
    ASSUME HopsInv, NEW i, ChangeState(i)
    PROVE  HopsInv'
<1>1. /\ hops \in Seq(Hop) /\ heap \in Seq(SUBSET Nat) /\ Len(heap) = Len(hops) /\ underWay \subseteq Wire
      /\ i \in 1..Len(hops) /\ Len(hops) \in Nat /\ \A k \in 1..Len(hops) : HopOK(hops, heap, k)
    BY DEF HopsInv, Chain, ChangeState, HopRuns
<1>2. heap' = [heap EXCEPT ![i] = heap[i] \cup {i}]
    BY <1>1 DEF ChangeState, HopOK
<1>3. heap[i] \cup {i} \in SUBSET Nat
    BY <1>1
<1>4. heap' \in Seq(SUBSET Nat) /\ Len(heap') = Len(heap) /\ heap'[i] = heap[i] \cup {i} /\ \A k \in 1..Len(heap) : k # i => heap'[k] = heap[k]
    BY <1>1, <1>2, <1>3, ExceptSeq
<1>5. \A k \in 1..Len(hops) : HopOK(hops, heap', k)
    BY <1>1, <1>4 DEF HopOK
<1>6. Chain(hops, heap', underWay)
    BY <1>1, <1>4, <1>5 DEF HopsInv, Chain
<1> QED
    BY <1>6 DEF HopsInv, ChangeState

\* A request comes in: its context has no caller, and a state of its own.
LEMMA EnterHops ==
    ASSUME HopsInv, EnterTransport \/ EnterInternal
    PROVE  HopsInv'
<1>1. PICK x \in Hop : Enter(x) /\ x.kind = "entry" /\ x.cell = 1 /\ x.sent = {}
    <2>1. CASE EnterInternal
        <3> DEFINE x == Context("entry", 0, 0, 0, 0, 1, {}, {})
        <3>1. x \in Hop /\ x.kind = "entry" /\ x.cell = 1 /\ x.sent = {}
            BY ContextFields
        <3> QED
            BY <2>1, <3>1 DEF EnterInternal
    <2>2. CASE EnterTransport
        <3>1. PICK transport \in {"http", "agp"}, asked \in ClientTimeouts, codec \in BodyCodecs :
              \E id \in RequestIds(transport) :
                  Enter(Context("entry", 0, id, codec,
                      ticks + (IF transport = "http" THEN httpTimeout(asked) ELSE agpTimeout(asked)), 1, copySession, {}))
            BY <2>2 DEF EnterTransport
        <3> DEFINE timeout == IF transport = "http" THEN httpTimeout(asked) ELSE agpTimeout(asked)
        <3>2. PICK id \in RequestIds(transport) : Enter(Context("entry", 0, id, codec, ticks + timeout, 1, copySession, {}))
            BY <3>1
        <3>3. asked \in Nat /\ MaxTimeout \in Nat /\ DefaultTimeout \in Nat /\ ticks \in Nat
            BY HopsAssumption DEF HopsInv
        <3>4. agpTimeout(asked) \in Nat
            BY <3>3 DEF agpTimeout
        <3>5. httpTimeout(asked) \in Nat
            <4> DEFINE a == IF asked > 0 THEN asked ELSE DefaultTimeout
            <4>1. a \in Nat
                BY <3>3
            <4> HIDE DEF a
            <4>2. \E k \in {a, MaxTimeout} : \A l \in {a, MaxTimeout} : k <= l
                BY <3>3, <4>1
            <4>3. Min({a, MaxTimeout}) \in {a, MaxTimeout}
                BY <4>2 DEF Min
            <4> QED
                BY <3>3, <4>1, <4>3 DEF httpTimeout, a
        <3>6. ticks + timeout \in Nat
            BY <3>3, <3>4, <3>5
        <3> HIDE DEF timeout
        <3> DEFINE x == Context("entry", 0, id, codec, ticks + timeout, 1, copySession, {})
        <3>7. id \in Nat /\ codec \in Nat
            BY DEF RequestIds, BodyCodecs, ProtobufCodec, JSONCodec
        <3>8. x \in Hop /\ x.kind = "entry" /\ x.cell = 1 /\ x.sent = {}
            BY <3>6, <3>7 DEF copySession, Context, Hop
        <3> QED
            BY <3>2, <3>8
    <2> QED
        BY <2>1, <2>2
<1>2. hops = <<>> /\ hops' = <<x>> /\ heap' = <<{}>> /\ underWay' = underWay /\ ticks' = ticks
    BY <1>1 DEF Enter, copySession
<1>3. underWay = {}
    <2>1. \A w \in underWay : w.message.parent \in 1..0
        BY <1>2 DEF HopsInv, Chain, MessageOK
    <2> QED
        BY <2>1
<1>4. hops' \in Seq(Hop) /\ Len(hops') = 1 /\ hops'[1] = x /\ heap' \in Seq(SUBSET Nat) /\ Len(heap') = 1 /\ heap'[1] = {}
    BY <1>1, <1>2
<1>5. HopOK(hops', heap', 1)
    BY <1>1, <1>4 DEF HopOK
<1>6. Chain(hops', heap', {})
    BY <1>4, <1>5 DEF Chain
<1> QED
    BY <1>2, <1>3, <1>6 DEF HopsInv

\* Every step keeps the contexts in order with their callers'.
LEMMA NextHopsInv ==
    ASSUME HopsInv, [HopsNext]_hopVars
    PROVE  HopsInv'
<1>1. CASE EnterTransport \/ EnterInternal
    BY <1>1, EnterHops
<1>2. CASE HangUp
    BY <1>2 DEF HopsInv, HangUp
<1>3. CASE TickPasses
    <2>1. ticks' \in Nat /\ ticks' >= TicksPerMs
        BY <1>3, HopsAssumption DEF HopsInv, TickPasses
    <2> QED
        BY <1>3, <2>1 DEF HopsInv, TickPasses
<1>4. ASSUME NEW i \in DOMAIN hops, CallLocal(i) PROVE HopsInv'
    BY <1>4, CallLocalHops
<1>5. ASSUME NEW i \in DOMAIN hops, CallRemote(i) PROVE HopsInv'
    BY <1>5, CallRemoteHops
<1>6. ASSUME NEW i \in DOMAIN hops, ChangeState(i) PROVE HopsInv'
    BY <1>6, ChangeHops
<1>7. ASSUME NEW i \in DOMAIN hops, Return(i) PROVE HopsInv'
    BY <1>7 DEF HopsInv, Return
<1>8. ASSUME NEW w \in underWay, Arrive(w) PROVE HopsInv'
    BY <1>8, ArriveHops
<1>9. CASE UNCHANGED hopVars
    BY <1>9 DEF HopsInv, hopVars
<1> QED
    BY <1>1, <1>2, <1>3, <1>4, <1>5, <1>6, <1>7, <1>8, <1>9 DEF HopsNext

\* The context of a request travels with it through every chain of calls, of this node or
\* through the cluster: no call has more time than its caller, the codec and the request ID
\* are those of the entry, what a callee holds is what its caller held, and a notification
\* outlives its sender (Clone, newInvokeContext, newNotifyContext, buildClusterMessage,
\* messageContext).
THEOREM ContextsTravel == HopsSpec => []StateTravels
<1>1. HopsInit => HopsInv
    <2> SUFFICES ASSUME HopsInit PROVE HopsInv
        OBVIOUS
    <2>1. ticks \in Nat /\ ticks >= TicksPerMs
        BY HopsAssumption DEF HopsInit
    <2>2. hops \in Seq(Hop) /\ heap \in Seq(SUBSET Nat) /\ Len(hops) = 0 /\ Len(heap) = 0 /\ underWay = {}
        BY DEF HopsInit
    <2>3. Chain(hops, heap, underWay)
        BY <2>2 DEF Chain
    <2> QED
        BY <2>1, <2>3 DEF HopsInv
<1>2. HopsInv /\ [HopsNext]_hopVars => HopsInv'
    BY NextHopsInv
<1>3. HopsInv => StateTravels
    <2> SUFFICES ASSUME HopsInv, NEW i \in DOMAIN hops
                 PROVE  /\ i > 1 => /\ hops[i].deadline > 0
                                    /\ hops[hops[i].parent].deadline # 0 => hops[i].deadline <= hops[hops[i].parent].deadline
                                    /\ hops[i].codec = hops[1].codec /\ hops[i].requestId = hops[1].requestId
                        /\ heap[hops[i].cell] \ {i} = hops[i].sent
                        /\ hops[i].kind = "notify" /\ Cancelled(i) => i \in returned
        BY DEF StateTravels
    <2>1. i \in 1..Len(hops) /\ HopOK(hops, heap, i)
        BY DEF HopsInv, Chain
    <2>2. hops[i].kind = "notify" /\ Cancelled(i) => i \in returned
        BY <2>1 DEF HopOK, Cancelled
    <2> QED
        BY <2>1, <2>2 DEF HopOK
<1> QED
    BY <1>1, <1>2, <1>3, PTL DEF HopsSpec

(***************************************************************************)
(* The data of an AGP call (MethodCall).                                   *)
(***************************************************************************)

\* The sum over nothing.
LEMMA NoMetadata == MetadataSize(<<>>) = 0
<1>1. DOMAIN <<>> = {}
    OBVIOUS
<1>2. MapThenSumSet(LAMBDA k : k + <<>>[k], {}) = 0
    BY DEF MapThenSumSet, MapThenFoldSet
<1> QED
    BY <1>1, <1>2 DEF MetadataSize

\* Normalized limits are positive, whatever was configured.
LEMMA NormalizedLimits ==
    ASSUME NEW l \in ConfiguredLimits
    PROVE  NormalizeLimits(l) \in [LimitFields -> Nat \ {0}]
<1> DEFINE set == [f \in DOMAIN Default |-> IF l[f] <= 0 THEN Default[f] ELSE l[f]]
<1>1. set \in [LimitFields -> Nat \ {0}]
    BY MethodCallAssumption
<1>2. "packet" \in LimitFields /\ "body" \in LimitFields
    BY DEF LimitFields
<1> HIDE DEF set
<1>3. Min({set.body, set.packet}) \in Nat \ {0}
    <2>1. PICK x \in {set.body, set.packet} : \A y \in {set.body, set.packet} : x =< y
        BY <1>1, <1>2
    <2>2. Min({set.body, set.packet}) \in {set.body, set.packet}
        BY <2>1 DEF Min
    <2> QED
        BY <1>1, <1>2, <2>2
<1>4. NormalizeLimits(l) = [set EXCEPT !.body = Min({set.body, set.packet})]
    BY DEF NormalizeLimits, set
<1> QED
    BY <1>1, <1>3, <1>4

\* An answer that answers: the codec refuses it for its size alone.
Answerable(a) ==
    /\ a.kind = "response" /\ a.codec \in {Protobuf, JSON} /\ a.requestId # 0
    /\ a.body \in Nat /\ a.message \in Nat /\ a.metadata = <<>>
\* What the codec refuses of such answers is too large for one of its limits (ValidatePacket).
LEMMA RefusedForItsSize ==
    ASSUME limits \in ConfiguredLimits, NEW a, Answerable(a), ~Encodes(a)
    PROVE  a.body > NormalizeLimits(limits).body \/ MarshalSize(a) > NormalizeLimits(limits).packet
<1> DEFINE n == NormalizeLimits(limits)
<1>1. n.packet \in Nat /\ n.body \in Nat /\ n.keys \in Nat /\ n.size \in Nat
    BY NormalizedLimits DEF LimitFields
<1>2. MetadataSize(a.metadata) = 0 /\ DOMAIN a.metadata = {} /\ Cardinality(DOMAIN a.metadata) = 0
    BY NoMetadata, FS_EmptySet DEF Answerable
<1>3. MarshalSize(a) \in Nat
    BY <1>2 DEF MarshalSize, Answerable
<1>4. a.body <= n.body => ValidatePacket(a, limits)
    BY <1>1, <1>2 DEF ValidatePacket, Answerable
<1> QED
    BY <1>1, <1>3, <1>4 DEF Encodes, Answerable

Ends == {"DEADLINE_EXCEEDED", "CANCELLED"}
Settled == box \in {"none", "done"}
SaidOK == ran.does = "error" /\ ran.typed /\ ran.code = "OK"
Returned == ran.does = "return" /\ ended = "no"

\* What an InvokeResult x of a request says of the call: it has a payload only for the
\* response the handler returned, OK only from the handler, a refusal only when none
\* runs, and the end of the context only when that has ended, unless the handler said so.
ResultOK(x) ==
    /\ x.message \in Nat
    /\ Returned => x.code = "OK"
    /\ x.code = "OK" => \/ ran.does = "return" /\ ran.size \in Nat /\ x.payload = {ran}
                        \/ SaidOK /\ x.payload = {}
    /\ x.code # "OK" => x.payload = {}
    /\ x.code \in NotRun => ran.does = "not run" \/ OwnCode(x.code)
    /\ IF x.code \in Ends THEN x.code = ended \/ OwnCode(x.code) ELSE Settled
\* What the answer says.
AnswerOK ==
    /\ Answerable(answer)
    /\ Returned => IF ran.encodable THEN answer.code = "OK" /\ answer.body = ran.size ELSE answer.code = "INTERNAL"
    /\ answer.code = "OK" => \/ ran.does = "return" /\ ran.encodable /\ answer.body = ran.size
                             \/ SaidOK /\ answer.body = 0
    /\ answer.code \in NotRun => ran.does = "not run" \/ OwnCode(answer.code)
    /\ IF answer.code \in Ends THEN answer.code = ended \/ OwnCode(answer.code) ELSE Settled

Posted == {"wait", "respond", "send", "sent", "closed", "end"}
Accepted == {"dispatch"} \cup Posted
\* What is known of the call: what was registered, what was let in, what the loop has
\* made of the message, and what the connection has made of that.
EntryOK == entry.handler \in Signatures /\ adapt(entry.handler)
PacketOK ==
    /\ packet.kind \in {"request", "notify"} /\ packet.codec \in {Protobuf, JSON}
    /\ packet.kind = "request" => packet.requestId # 0
BoxOK ==
    /\ box \in {"none", "queued", "invoke", "done", "lost"}
    /\ box # "none" => mpc \in Posted /\ MsgType(entry.handler) = packet.kind
    /\ box # "done" => ran.does = "not run"
    /\ box = "invoke" \/ ran.does # "not run" => (packet.codec = Protobuf => entry.handler.protobuf = TRUE)
    /\ box = "done" /\ packet.kind = "request" => ResultOK(reply)
StageOK ==
    /\ mpc = "respond" /\ packet.kind = "request" => ResultOK(result)
    /\ mpc \in {"send", "sent", "closed"} => AnswerOK
    /\ mpc = "closed" => ~Encodes(answer)
AnswerInv ==
    /\ limits \in ConfiguredLimits /\ ended \in {"no"} \cup Ends
    /\ mpc \in Accepted \cup {"read"} => EntryOK
    /\ mpc \in Accepted => PacketOK
    /\ BoxOK /\ StageOK

\* An error is a result, when its code is one.
LEMMA ErrorIsResult ==
    ASSUME NEW code, NEW size \in Nat, ~Returned, code # "OK",
           code \in NotRun => ran.does = "not run", IF code \in Ends THEN code = ended ELSE Settled
    PROVE  ResultOK(ErrorResult(code, size))
BY DEF ResultOK, ErrorResult

\* What has been let in is well formed, the handler is of a kind that can be answered,
\* and what the loop does behind a call that has its answer changes nothing of it.
LEMMA NextAnswerInv ==
    ASSUME AnswerInv, CallNext
    PROVE  AnswerInv'
<1>a. limits \in ConfiguredLimits /\ ended \in {"no"} \cup Ends /\ BoxOK /\ StageOK
    BY DEF AnswerInv
<1>b. /\ mpc \in Accepted \cup {"read"} => EntryOK
      /\ mpc \in Accepted => PacketOK
    BY DEF AnswerInv
<1>1. CASE RegisterMethod
    <2>1. PICK h \in Signatures, id \in MethodIds :
              IF adapt(h) THEN mpc' = "read" /\ entry' = [id |-> id, handler |-> h] ELSE mpc' = "panic" /\ UNCHANGED entry
        BY <1>1 DEF RegisterMethod
    <2>2. UNCHANGED <<limits, ended, box, ran, packet>> /\ mpc = "register"
        BY <1>1 DEF RegisterMethod
    <2>3. mpc' = "panic" \/ (mpc' = "read" /\ entry'.handler = h /\ adapt(h))
        BY <2>1
    <2>4. box = "none"
        BY <1>a, <2>2 DEF BoxOK, Posted
    <2>5. BoxOK' /\ StageOK'
        BY <1>a, <2>2, <2>3, <2>4 DEF BoxOK, StageOK
    <2> QED
        BY <1>a, <2>2, <2>3, <2>5 DEF AnswerInv, EntryOK, Accepted, Posted
<1>2. CASE ReadPacket
    <2>1. PICK p \in Packets : packet' = p /\ mpc' = IF Decodes(p) THEN "dispatch" ELSE "refused"
        BY <1>2 DEF ReadPacket
    <2>2. UNCHANGED <<limits, entry, ended, box, ran>> /\ mpc = "read"
        BY <1>2 DEF ReadPacket
    <2>3. p.kind \in {"request", "notify"}
        BY DEF Packets
    <2>4. Decodes(p) => p.codec \in {Protobuf, JSON} /\ (p.kind = "request" => p.requestId # 0)
        BY DEF Decodes, ValidatePacket
    <2>5. box = "none" /\ ran.does = "not run"
        BY <1>a, <2>2 DEF BoxOK, Posted
    <2>6. mpc' \in {"refused", "dispatch"} /\ (mpc' = "dispatch" => PacketOK')
        BY <2>1, <2>3, <2>4 DEF PacketOK
    <2>7. BoxOK' /\ StageOK'
        BY <2>2, <2>5, <2>6 DEF BoxOK, StageOK
    <2> QED
        BY <1>a, <1>b, <2>2, <2>6, <2>7 DEF AnswerInv, Accepted, Posted, EntryOK
<1>3. CASE ContextEnds
    <2>1. UNCHANGED <<mpc, limits, entry, packet, box, ran, reply, result, answer>> /\ ended = "no" /\ ended' \in Ends
          /\ (mpc \in {"dispatch", "wait"} \/ box = "queued")
        BY <1>3 DEF ContextEnds, Ends
    <2>2. ASSUME NEW x, ResultOK(x) PROVE ResultOK(x)'
        BY <2>1, <2>2 DEF ResultOK, Returned, Ends, Settled, SaidOK, OwnCode
    <2>3. BoxOK'
        BY <1>a, <2>1, <2>2 DEF BoxOK
    <2>4. StageOK'
        <3>1. mpc = "respond" /\ packet.kind = "request" => ResultOK(result)'
            BY <1>a, <2>1, <2>2 DEF StageOK
        <3>2. mpc \in {"send", "sent", "closed"} => AnswerOK'
            BY <1>a, <2>1 DEF StageOK, AnswerOK, Returned, Ends, Settled, SaidOK, OwnCode
        <3>3. Encodes(answer)' <=> Encodes(answer)
            BY <2>1 DEF Encodes, ValidatePacket, MarshalSize
        <3> QED
            BY <1>a, <2>1, <3>1, <3>2, <3>3 DEF StageOK
    <2> QED
        BY <1>a, <1>b, <2>1, <2>3, <2>4 DEF AnswerInv, EntryOK, PacketOK
<1>4. CASE DispatchMethod
    <2>1. UNCHANGED <<limits, entry, packet, ended, ran, reply>> /\ mpc = "dispatch"
        BY <1>4 DEF DispatchMethod
    <2>2. box = "none" /\ ran.does = "not run" /\ EntryOK /\ PacketOK
        BY <1>a, <1>b, <2>1 DEF BoxOK, Posted, Accepted
    <2>3. EntryOK' /\ PacketOK' /\ limits' \in ConfiguredLimits /\ ended' \in {"no"} \cup Ends
        BY <1>a, <2>1, <2>2 DEF EntryOK, PacketOK
    <2>4. ASSUME NEW code \in {"NOT_FOUND", "FAILED_PRECONDITION", ended}, code # "no", result' = ErrorResult(code, 0),
                 mpc' = "respond", box' = box
          PROVE  AnswerInv'
        <3>1. ResultOK(ErrorResult(code, 0))
            BY <1>a, <2>2, <2>4, ErrorIsResult DEF Returned, NotRun, Ends, Settled
        <3>2. ResultOK(result)'
            BY <2>1, <2>4, <3>1 DEF ResultOK, Returned, Settled, SaidOK, OwnCode
        <3>3. BoxOK' /\ StageOK'
            BY <2>1, <2>2, <2>4, <3>2 DEF BoxOK, StageOK
        <3> QED
            BY <2>3, <3>3 DEF AnswerInv
    <2>5. ASSUME MsgType(entry.handler) = packet.kind, box' = "queued", mpc' = "wait" \/ (mpc' = "respond" /\ packet.kind # "request")
          PROVE  AnswerInv'
        <3>1. BoxOK' /\ StageOK'
            BY <2>1, <2>2, <2>5 DEF BoxOK, StageOK, Posted
        <3> QED
            BY <2>3, <3>1 DEF AnswerInv
    <2>6. CASE mpc' = "respond" /\ UNCHANGED box
        <3>1. \E code \in {"NOT_FOUND", "FAILED_PRECONDITION", ended} : code # "no" /\ result' = ErrorResult(code, 0)
            BY <1>4, <2>2, <2>6 DEF DispatchMethod
        <3> QED
            BY <2>4, <2>6, <3>1
    <2> QED
        BY <1>4, <2>5, <2>6 DEF DispatchMethod
\* The steps of the loop: the connection waits, or has a result that does not depend on
\* them, since its context has ended.
<1>5. ASSUME UNCHANGED <<mpc, limits, entry, packet, ended, result, answer>>, box \in {"queued", "invoke"},
             box' \in {"invoke", "done", "lost"}, BoxOK'
      PROVE  AnswerInv'
    <2>1. ~Settled /\ ran.does = "not run"
        BY <1>a, <1>5 DEF BoxOK, Settled
    <2>2. ASSUME NEW x, ResultOK(x) PROVE ResultOK(x)'
        BY <1>5, <2>1, <2>2 DEF ResultOK, Returned, Ends, NotRun, SaidOK, OwnCode
    <2>3. mpc = "respond" /\ packet.kind = "request" => ResultOK(result)'
        BY <1>a, <1>5, <2>2 DEF StageOK
    <2>4. mpc \in {"send", "sent", "closed"} => AnswerOK'
        BY <1>a, <1>5, <2>1 DEF StageOK, AnswerOK, Returned, Ends, NotRun, SaidOK, OwnCode
    <2>5. Encodes(answer)' <=> Encodes(answer)
        BY <1>5 DEF Encodes, ValidatePacket, MarshalSize
    <2>6. StageOK'
        BY <1>a, <1>5, <2>3, <2>4, <2>5 DEF StageOK
    <2> QED
        BY <1>a, <1>b, <1>5, <2>6 DEF AnswerInv, EntryOK, PacketOK
<1>6. CASE MessageLost
    <2>1. UNCHANGED <<mpc, limits, entry, packet, ended, ran, result, answer>> /\ box = "queued" /\ box' = "lost"
        BY <1>6 DEF MessageLost
    <2>2. BoxOK'
        BY <1>a, <2>1 DEF BoxOK
    <2> QED
        BY <1>5, <2>1, <2>2
<1>7. CASE InvokeReturns
    <2>1. UNCHANGED <<limits, entry, packet, ended, box, ran, reply>> /\ mpc = "wait" /\ mpc' = "respond"
        BY <1>7 DEF InvokeReturns
    <2>2. ASSUME packet.kind = "request" PROVE ResultOK(result)'
        <3>1. CASE box = "done" /\ result' = reply
            <4>1. ResultOK(reply)
                BY <1>a, <2>2, <3>1 DEF BoxOK
            <4> QED
                BY <2>1, <3>1, <4>1 DEF ResultOK, Returned, Settled, SaidOK, OwnCode
        <3>2. CASE ended # "no" /\ result' = ErrorResult(ended, 0)
            <4>1. ended \in Ends /\ ended # "OK" /\ ended \notin NotRun
                BY <1>a, <3>2 DEF Ends, NotRun
            <4>2. ResultOK(ErrorResult(ended, 0))
                BY <3>2, <4>1, ErrorIsResult DEF Returned
            <4> QED
                BY <2>1, <3>2, <4>2 DEF ResultOK, Returned, Settled, SaidOK, OwnCode
        <3> QED
            BY <1>7, <3>1, <3>2 DEF InvokeReturns
    <2>3. BoxOK'
        <3>1. ResultOK(reply)' <=> ResultOK(reply)
            BY <2>1 DEF ResultOK, Returned, Settled, SaidOK, OwnCode
        <3> QED
            BY <1>a, <2>1, <3>1 DEF BoxOK, Posted
    <2>4. StageOK'
        BY <2>1, <2>2 DEF StageOK
    <2>5. EntryOK' /\ PacketOK'
        BY <1>b, <2>1 DEF EntryOK, PacketOK, Accepted, Posted
    <2> QED
        BY <1>a, <2>1, <2>3, <2>4, <2>5 DEF AnswerInv
<1>8. CASE DecodePayload
    <2>1. UNCHANGED <<mpc, limits, entry, packet, ended, ran, result, answer>> /\ box = "queued"
        BY <1>8 DEF DecodePayload
    <2>2. mpc \in Posted /\ ran.does = "not run" /\ MsgType(entry.handler) = packet.kind
        BY <1>a, <2>1 DEF BoxOK
    <2>3. entry.handler.protobuf \in BOOLEAN
        BY <1>b, <2>2 DEF EntryOK, Signatures, Accepted
    <2>4. CASE box' = "invoke" /\ (packet.codec = Protobuf => entry.handler.protobuf)
        <3>1. BoxOK'
            BY <1>a, <2>1, <2>2, <2>3, <2>4 DEF BoxOK
        <3> QED
            BY <1>5, <2>1, <2>4, <3>1
    <2>5. ASSUME NEW code \in {"NOT_FOUND", "UNSUPPORTED_MEDIA", "INVALID_ARGUMENT", ended}, code # "no", NEW size \in Nat,
                 box' = "done", reply' = ErrorResult(code, size)
          PROVE  AnswerInv'
        <3>1. code # "OK" /\ (code \in Ends => code = ended)
            BY <1>a, <2>5 DEF Ends
        <3>2. ResultOK(reply)'
            BY <2>1, <2>2, <2>5, <3>1 DEF ResultOK, ErrorResult, Returned, Settled
        <3>3. BoxOK'
            BY <1>a, <2>1, <2>2, <2>5, <3>2 DEF BoxOK
        <3> QED
            BY <1>5, <2>1, <2>5, <3>3
    <2>6. CASE box' = "done"
        <3>1. 0 \in Nat /\ Sizes \subseteq Nat
            BY MethodCallAssumption
        <3>2. \E code \in {"NOT_FOUND", "UNSUPPORTED_MEDIA", "INVALID_ARGUMENT", ended}, size \in Nat :
                  code # "no" /\ reply' = ErrorResult(code, size)
            BY <1>8, <2>6, <3>1 DEF DecodePayload
        <3> QED
            BY <2>5, <2>6, <3>2
    <2> QED
        BY <1>8, <2>4, <2>6 DEF DecodePayload
<1>9. CASE InvokeMethod
    <2>1. UNCHANGED <<mpc, limits, entry, packet, ended, result, answer>> /\ box = "invoke" /\ box' = "done"
        BY <1>9 DEF InvokeMethod
    <2>2. PICK o \in Outcomes :
              /\ ran' = o
              /\ reply' = CASE o.does = "panic" -> ErrorResult("INTERNAL", 0)
                            [] o.does = "error" -> resultFromError(o)
                            [] OTHER -> IF packet.kind = "notify" THEN OKResult({})
                                        ELSE IF o.does = "nil" THEN ErrorResult("INTERNAL", 0)
                                        ELSE OKResult({o})
        BY <1>9 DEF InvokeMethod
    <2>3. ASSUME packet.kind = "request" PROVE ResultOK(reply)'
        <3>1. CASE o.does = "return"
            <4>1. o.size \in Nat
                BY <3>1, MethodCallAssumption DEF Outcomes
            <4>2. reply' = OKResult({o})
                BY <2>2, <2>3, <3>1
            <4> QED
                BY <2>1, <2>2, <3>1, <4>1, <4>2 DEF ResultOK, OKResult, Settled, NotRun, Ends
        <3>2. CASE o.does \in {"nil", "panic"}
            <4>1. reply' = ErrorResult("INTERNAL", 0)
                BY <2>2, <2>3, <3>2
            <4> QED
                <5>1. reply'.code = "INTERNAL" /\ reply'.payload = {} /\ reply'.message \in Nat
                    BY <4>1 DEF ErrorResult
                <5>2. ran'.does # "return" /\ box' \in {"none", "done"}
                    BY <2>1, <2>2, <3>2
                <5> QED
                    BY <5>1, <5>2 DEF ResultOK, Returned, Settled, NotRun, Ends
        <3>3. CASE o.does = "error"
            <4>1. reply' = resultFromError(o)
                BY <2>2, <3>3
            <4>2. o.size \in Nat /\ o.code \in ErrorCodes
                BY <3>3, MethodCallAssumption DEF Outcomes
            <4>3. /\ reply'.message \in Nat /\ reply'.payload = {} /\ (reply'.code = "OK" => o.typed /\ o.code = "OK")
                  /\ reply'.code = "INTERNAL" \/ (reply'.code \in ErrorCodes /\ o.typed /\ o.code = reply'.code)
                BY <4>1, <4>2 DEF resultFromError, ErrorResult, ErrorCodes
            <4> QED
                BY <2>1, <2>2, <3>3, <4>3 DEF ResultOK, SaidOK, OwnCode, Returned, Settled, NotRun, Ends, ErrorCodes
        <3> QED
            BY <3>1, <3>2, <3>3 DEF Outcomes
    <2>4. BoxOK'
        BY <1>a, <2>1, <2>3 DEF BoxOK
    <2> QED
        BY <1>5, <2>1, <2>4
<1>10. CASE RespondTo
    <2>1. UNCHANGED <<limits, entry, packet, ended, box, ran, reply, result>> /\ mpc = "respond" /\ mpc' \in {"end", "send"}
        BY <1>10 DEF RespondTo
    <2>2. EntryOK /\ PacketOK /\ EntryOK' /\ PacketOK'
        BY <1>b, <2>1 DEF EntryOK, PacketOK, Accepted, Posted
    <2>3. BoxOK'
        <3>1. ResultOK(reply)' <=> ResultOK(reply)
            BY <2>1 DEF ResultOK, Returned, Settled, SaidOK, OwnCode
        <3> QED
            BY <1>a, <2>1, <3>1 DEF BoxOK, Posted
    <2>4. mpc' = "send" => AnswerOK'
        <3> SUFFICES ASSUME mpc' = "send" PROVE AnswerOK'
            OBVIOUS
        <3>1. packet.kind = "request"
            BY <1>10 DEF RespondTo
        <3>2. ResultOK(result) /\ packet.codec \in {Protobuf, JSON} /\ packet.requestId # 0
            BY <1>a, <2>1, <2>2, <3>1 DEF StageOK, PacketOK
        <3>3. UNCHANGED <<Returned, SaidOK, Settled, ran, ended>>
            BY <2>1 DEF Returned, SaidOK, Settled
        <3>4. CASE result.payload = {}
            <4>1. answer' = responsePacket(result, 0)
                BY <1>10, <3>4 DEF RespondTo
            <4>2. Answerable(answer') /\ answer'.code = result.code /\ answer'.body = 0
                BY <3>2, <4>1 DEF ResultOK, Answerable, responsePacket
            <4>3. ~Returned /\ (result.code = "OK" => SaidOK)
                BY <3>2, <3>4 DEF ResultOK, Returned, SaidOK, OwnCode
            <4> QED
                BY <2>1, <3>2, <4>2, <4>3 DEF ResultOK, AnswerOK, SaidOK, OwnCode, Returned, Settled
        <3>5. CASE result.payload # {}
            <4>1. result.payload = {ran} /\ ran.does = "return" /\ ran.size \in Nat /\ Settled /\ result.code = "OK"
                BY <3>2, <3>5 DEF ResultOK, Ends
            <4>2. answer' = IF Marshals(ran) THEN responsePacket(result, ran.size)
                            ELSE responsePacket(ErrorResult("INTERNAL", 0), 0)
                BY <1>10, <3>1, <4>1 DEF RespondTo
            <4>3. Marshals(ran) <=> ran.encodable
                <5>1. box # "none"
                    BY <1>a, <4>1 DEF BoxOK
                <5>2. MsgType(entry.handler) = "request" /\ (packet.codec = Protobuf => entry.handler.protobuf = TRUE)
                    BY <1>a, <3>1, <4>1, <5>1 DEF BoxOK
                <5>3. entry.handler.protoResponse = entry.handler.protobuf
                    BY <2>2, <5>2 DEF EntryOK, adapt, MsgType
                <5> QED
                    BY <3>2, <5>2, <5>3 DEF Marshals, Lookup
            <4>4. CASE ran.encodable
                <5>1. answer' = responsePacket(result, ran.size)
                    BY <4>2, <4>3, <4>4
                <5> QED
                    BY <2>1, <3>2, <4>1, <4>4, <5>1 DEF AnswerOK, Answerable, responsePacket, ResultOK, SaidOK, OwnCode, Settled, NotRun, Ends
            <4>5. CASE ~ran.encodable
                <5>1. answer' = responsePacket(ErrorResult("INTERNAL", 0), 0)
                    BY <4>2, <4>3, <4>5
                <5> QED
                    BY <2>1, <3>2, <4>1, <4>5, <5>1 DEF AnswerOK, Answerable, responsePacket, ErrorResult, SaidOK, OwnCode, Settled, NotRun, Ends
            <4> QED
                BY <4>4, <4>5
        <3> QED
            BY <3>4, <3>5
    <2>5. StageOK'
        BY <2>1, <2>4 DEF StageOK
    <2> QED
        BY <1>a, <2>1, <2>2, <2>3, <2>5 DEF AnswerInv
<1>11. CASE SendAnswer
    <2>1. UNCHANGED <<limits, entry, packet, ended, box, ran, reply, result, answer>> /\ mpc = "send"
          /\ mpc' = IF Encodes(answer) THEN "sent" ELSE "closed"
        BY <1>11 DEF SendAnswer
    <2>2. Encodes(answer)' <=> Encodes(answer)
        BY <2>1 DEF Encodes, ValidatePacket, MarshalSize
    <2>3. AnswerOK'
        BY <1>a, <2>1 DEF StageOK, AnswerOK, SaidOK, OwnCode, Returned, Settled
    <2>4. StageOK'
        BY <2>1, <2>2, <2>3 DEF StageOK
    <2>5. BoxOK'
        <3>1. ResultOK(reply)' <=> ResultOK(reply)
            BY <2>1 DEF ResultOK, Returned, Settled, SaidOK, OwnCode
        <3> QED
            BY <1>a, <2>1, <3>1 DEF BoxOK, Posted
    <2>6. EntryOK' /\ PacketOK'
        BY <1>b, <2>1 DEF EntryOK, PacketOK, Accepted, Posted
    <2> QED
        BY <1>a, <2>1, <2>4, <2>5, <2>6 DEF AnswerInv
<1> QED
    BY <1>1, <1>2, <1>3, <1>4, <1>6, <1>7, <1>8, <1>9, <1>10, <1>11 DEF CallNext

\* A request the codec has let in is answered with what happened, also when its context
\* ends before or while the handler runs, its Actor goes or its response cannot be
\* encoded, and its answer passes the same codec unless it is too large for it, whatever
\* the limits and the sizes (ValidatePacket, adapt, Dispatch, InvokeTarget, invokeTyped,
\* handleRequest, writeLoop).
THEOREM AnswersPassTheCodec == CallSpec => []CallIsAnswered
<1>1. CallInit => AnswerInv
    <2> SUFFICES ASSUME CallInit PROVE AnswerInv
        OBVIOUS
    <2>1. mpc = "register" /\ limits \in ConfiguredLimits /\ ran.does = "not run" /\ box = "none" /\ ended = "no"
        BY DEF CallInit
    <2>2. BoxOK /\ StageOK
        BY <2>1 DEF BoxOK, StageOK
    <2> QED
        BY <2>1, <2>2 DEF AnswerInv, Accepted, Posted
<1>2. AnswerInv /\ [CallNext]_callVars => AnswerInv'
    <2> SUFFICES ASSUME AnswerInv, UNCHANGED callVars PROVE AnswerInv'
        BY NextAnswerInv
    <2>1. Encodes(answer)' <=> Encodes(answer)
        BY DEF callVars, Encodes
    <2>2. (ResultOK(result)' <=> ResultOK(result)) /\ (ResultOK(reply)' <=> ResultOK(reply)) /\ (AnswerOK' <=> AnswerOK)
        BY DEF callVars, ResultOK, AnswerOK, Returned, Settled, SaidOK, OwnCode
    <2>3. (BoxOK' <=> BoxOK) /\ (StageOK' <=> StageOK)
        BY <2>1, <2>2 DEF callVars, BoxOK, StageOK
    <2>4. (EntryOK' <=> EntryOK) /\ (PacketOK' <=> PacketOK)
        BY DEF callVars, EntryOK, PacketOK
    <2> QED
        BY <2>3, <2>4 DEF callVars, AnswerInv
<1>3. AnswerInv => CallIsAnswered
    <2> SUFFICES ASSUME AnswerInv PROVE CallIsAnswered
        OBVIOUS
    <2>1. mpc = "closed" => \/ answer.body > NormalizeLimits(limits).body
                            \/ MarshalSize(answer) > NormalizeLimits(limits).packet
        BY RefusedForItsSize DEF AnswerInv, StageOK, AnswerOK
    <2>2. NotRun \cap Ends = {}
        BY DEF NotRun, Ends
    <2> QED
        BY <2>1, <2>2 DEF AnswerInv, StageOK, AnswerOK, SaidOK, OwnCode, Returned, Settled, Ends, CallIsAnswered
<1> QED
    BY <1>1, <1>2, <1>3, PTL DEF CallSpec

(***************************************************************************)
(* Calendar time (Calendar).                                               *)
(***************************************************************************)

MonthLength(y, m) == (<<31, 28, 31, 30, 31, 30, 31, 31, 30, 31, 30, 31>>)[m] + IF m = 2 THEN LeapDay(y) ELSE 0

\* What a division and its remainder say.
LEMMA DivMod == \A a \in Int, b \in Nat \ {0} : a \div b \in Int /\ (a % b) \in 0..b-1 /\ a = b * (a \div b) + (a % b)
OBVIOUS

\* And which numbers they are.
LEMMA DivUnique == \A a,q,r \in Int, b \in Nat \ {0} : 0 <= r /\ r < b /\ a = b*q + r => q = a \div b /\ r = (a % b)
<1> SUFFICES ASSUME NEW a \in Int, NEW q \in Int, NEW r \in Int, NEW b \in Nat \ {0}, 0 <= r, r < b, a = b*q+r
    PROVE q = a \div b /\ r = (a % b)
  OBVIOUS
<1> DEFINE p == a \div b
           s == a % b
<1>1. p \in Int /\ s \in 0..b-1 /\ a = b * p + s
  BY DivMod
<1> HIDE DEF p, s
<1>2. b * (p - q) = r - s
  BY <1>1
<1>3. p = q
  <2> DEFINE e == p - q
  <2>1. e \in Int /\ b * e = r - s
    BY <1>1, <1>2
  <2> HIDE DEF e
  <2>2. e >= 1 => b * e >= b
    BY <2>1
  <2>3. e <= -1 => b * e <= -b
    BY <2>1
  <2>4. e = 0
    BY <1>1, <2>1, <2>2, <2>3
  <2> QED
    BY <1>1, <2>4 DEF e
<1> QED
  BY <1>1, <1>3 DEF p, s

\* A multiple of the divisor goes before the division.
LEMMA DivPast == \A a, k \in Int, b \in Nat \ {0} : (b * k + a) \div b = k + a \div b /\ ((b * k + a) % b) = (a % b)
<1> SUFFICES ASSUME NEW a \in Int, NEW k \in Int, NEW b \in Nat \ {0}
             PROVE  (b * k + a) \div b = k + a \div b /\ ((b * k + a) % b) = (a % b)
  OBVIOUS
<1> DEFINE q == a \div b
           r == a % b
           z == b * k + a
<1>1. q \in Int /\ r \in 0..b-1 /\ a = b * q + r
  BY DivMod
<1> HIDE DEF q, r
<1>2. z \in Int /\ z = b * (k + q) + r /\ k + q \in Int
  BY <1>1
<1> HIDE DEF z
<1>3. k + q = z \div b /\ r = (z % b)
  BY <1>1, <1>2, DivUnique
<1> QED
  BY <1>3 DEF q, r, z

\* A day has seconds (SecondsPerDay).
LEMMA DayLength == SecondsPerDay \in Nat \ {0, 1} /\ SecondsPerDay - 1 \in Nat
BY DEF SecondsPerDay

\* The seconds of a day.
LEMMA InSeconds == \A s : s \in Seconds <=> s \in Int /\ 0 <= s /\ s <= SecondsPerDay - 1
BY DayLength DEF Seconds

\* The seconds of a day are not carried over, and others are.
LEMMA WithinDay == \A s \in Seconds : s \in Int /\ s \div SecondsPerDay = 0 /\ (s % SecondsPerDay) = s
<1> SUFFICES ASSUME NEW s \in Seconds PROVE s \in Int /\ s \div SecondsPerDay = 0 /\ (s % SecondsPerDay) = s
  OBVIOUS
<1>1. s \in Int /\ 0 <= s /\ s < SecondsPerDay /\ SecondsPerDay \in Nat \ {0}
  BY InSeconds, DayLength
<1>2. s = SecondsPerDay * 0 + s
  BY <1>1
<1> QED
  BY <1>1, <1>2, DivUnique

\* The days and the seconds that any number of seconds comes to (Date).
LEMMA CarriedSeconds == \A s \in Int : s \div SecondsPerDay \in Int /\ (s % SecondsPerDay) \in Seconds
BY DayLength, DivMod DEF Seconds

\* A leap day or none.
LEMMA LeapDayIs == \A y \in Int : LeapDay(y) \in {0, 1}
BY DEF LeapDay

\* A year is 365 days long, and a leap year one more (time.Date).
LEMMA YearLength == \A y \in Int : BeforeYear(y) \in Int /\ BeforeYear(y + 1) = BeforeYear(y) + 365 + LeapDay(y)
<1> SUFFICES ASSUME NEW y \in Int
             PROVE  BeforeYear(y) \in Int /\ BeforeYear(y + 1) = BeforeYear(y) + 365 + LeapDay(y)
  OBVIOUS
<1>1. y \div 4 = (y - 1) \div 4 + (IF (y % 4) = 0 THEN 1 ELSE 0)
  OBVIOUS
<1>2. y \div 100 = (y - 1) \div 100 + (IF (y % 100) = 0 THEN 1 ELSE 0)
  OBVIOUS
<1>3. y \div 400 = (y - 1) \div 400 + (IF (y % 400) = 0 THEN 1 ELSE 0)
  OBVIOUS
<1>4. ((y % 400) = 0 => (y % 100) = 0) /\ ((y % 100) = 0 => (y % 4) = 0)
  OBVIOUS
<1>5. (y + 1) - 1 = y
  OBVIOUS
<1>6. (y - 1) \div 4 \in Int /\ (y - 1) \div 100 \in Int /\ (y - 1) \div 400 \in Int
  OBVIOUS
<1> QED
  BY <1>1, <1>2, <1>3, <1>4, <1>5, <1>6 DEF BeforeYear, LeapDay, Leap

\* Earlier years end earlier.
LEMMA YearsGrow == \A y, z \in Int : y < z => BeforeYear(y) < BeforeYear(z)
<1> SUFFICES ASSUME NEW y \in Int, NEW z \in Int, y < z
             PROVE  BeforeYear(y) < BeforeYear(z)
  OBVIOUS
<1> DEFINE a == y - 1
           b == z - 1
<1>1. /\ 4 * (a \div 4) <= a /\ 100 * (a \div 100) > a - 100 /\ 400 * (a \div 400) <= a
      /\ a \div 4 \in Int /\ a \div 100 \in Int /\ a \div 400 \in Int
  OBVIOUS
<1>2. /\ 4 * (b \div 4) > b - 4 /\ 100 * (b \div 100) <= b /\ 400 * (b \div 400) > b - 400
      /\ b \div 4 \in Int /\ b \div 100 \in Int /\ b \div 400 \in Int
  OBVIOUS
<1> QED
  BY <1>1, <1>2 DEF BeforeYear

\* The tables of the months, entry by entry.
LEMMA MonthTable ==
    ASSUME NEW y \in Int
    PROVE  /\ BeforeMonth(y, 1) = 0 /\ MonthLength(y, 1) = 31
           /\ BeforeMonth(y, 2) = 31 /\ MonthLength(y, 2) = 28 + LeapDay(y)
           /\ BeforeMonth(y, 3) = 59 + LeapDay(y) /\ MonthLength(y, 3) = 31
           /\ BeforeMonth(y, 4) = 90 + LeapDay(y) /\ MonthLength(y, 4) = 30
           /\ BeforeMonth(y, 5) = 120 + LeapDay(y) /\ MonthLength(y, 5) = 31
           /\ BeforeMonth(y, 6) = 151 + LeapDay(y) /\ MonthLength(y, 6) = 30
           /\ BeforeMonth(y, 7) = 181 + LeapDay(y) /\ MonthLength(y, 7) = 31
           /\ BeforeMonth(y, 8) = 212 + LeapDay(y) /\ MonthLength(y, 8) = 31
           /\ BeforeMonth(y, 9) = 243 + LeapDay(y) /\ MonthLength(y, 9) = 30
           /\ BeforeMonth(y, 10) = 273 + LeapDay(y) /\ MonthLength(y, 10) = 31
           /\ BeforeMonth(y, 11) = 304 + LeapDay(y) /\ MonthLength(y, 11) = 30
           /\ BeforeMonth(y, 12) = 334 + LeapDay(y) /\ MonthLength(y, 12) = 31
<1>0. LeapDay(y) \in {0, 1}
  BY LeapDayIs
<1>1. BeforeMonth(y, 1) = 0 /\ MonthLength(y, 1) = 31
  BY <1>0 DEF BeforeMonth, MonthLength
<1>2. BeforeMonth(y, 2) = 31 /\ MonthLength(y, 2) = 28 + LeapDay(y)
  BY <1>0 DEF BeforeMonth, MonthLength
<1>3. BeforeMonth(y, 3) = 59 + LeapDay(y) /\ MonthLength(y, 3) = 31
  BY <1>0 DEF BeforeMonth, MonthLength
<1>4. BeforeMonth(y, 4) = 90 + LeapDay(y) /\ MonthLength(y, 4) = 30
  BY <1>0 DEF BeforeMonth, MonthLength
<1>5. BeforeMonth(y, 5) = 120 + LeapDay(y) /\ MonthLength(y, 5) = 31
  BY <1>0 DEF BeforeMonth, MonthLength
<1>6. BeforeMonth(y, 6) = 151 + LeapDay(y) /\ MonthLength(y, 6) = 30
  BY <1>0 DEF BeforeMonth, MonthLength
<1>7. BeforeMonth(y, 7) = 181 + LeapDay(y) /\ MonthLength(y, 7) = 31
  BY <1>0 DEF BeforeMonth, MonthLength
<1>8. BeforeMonth(y, 8) = 212 + LeapDay(y) /\ MonthLength(y, 8) = 31
  BY <1>0 DEF BeforeMonth, MonthLength
<1>9. BeforeMonth(y, 9) = 243 + LeapDay(y) /\ MonthLength(y, 9) = 30
  BY <1>0 DEF BeforeMonth, MonthLength
<1>10. BeforeMonth(y, 10) = 273 + LeapDay(y) /\ MonthLength(y, 10) = 31
  BY <1>0 DEF BeforeMonth, MonthLength
<1>11. BeforeMonth(y, 11) = 304 + LeapDay(y) /\ MonthLength(y, 11) = 30
  BY <1>0 DEF BeforeMonth, MonthLength
<1>12. BeforeMonth(y, 12) = 334 + LeapDay(y) /\ MonthLength(y, 12) = 31
  BY <1>0 DEF BeforeMonth, MonthLength
<1> QED
  BY <1>1, <1>2, <1>3, <1>4, <1>5, <1>6, <1>7, <1>8, <1>9, <1>10, <1>11, <1>12

\* The months of a year follow one another.
LEMMA MonthTyped == \A y \in Int, m \in 1..12 : BeforeMonth(y, m) \in Nat /\ MonthLength(y, m) \in 28..31
<1> SUFFICES ASSUME NEW y \in Int, NEW m \in 1..12
             PROVE  BeforeMonth(y, m) \in Nat /\ MonthLength(y, m) \in 28..31
  OBVIOUS
<1>1. LeapDay(y) \in {0, 1}
  BY LeapDayIs
<1> QED
  BY <1>1, MonthTable

\* A month begins where the one before it ends,
LEMMA MonthNext ==
    \A y \in Int, m \in 1..12 : m < 12 => BeforeMonth(y, m + 1) = BeforeMonth(y, m) + MonthLength(y, m)
<1> SUFFICES ASSUME NEW y \in Int, NEW m \in 1..12, m < 12
             PROVE  BeforeMonth(y, m + 1) = BeforeMonth(y, m) + MonthLength(y, m)
  OBVIOUS
<1>1. LeapDay(y) \in {0, 1}
  BY LeapDayIs
<1>2. m \in {1, 2, 3, 4, 5, 6, 7, 8, 9, 10, 11}
  OBVIOUS
<1> QED
  BY <1>1, <1>2, MonthTable

\* and the twelve of them make the year.
LEMMA MonthEnds ==
    \A y \in Int : BeforeMonth(y, 1) = 0 /\ BeforeMonth(y, 12) + MonthLength(y, 12) = 365 + LeapDay(y)
<1> SUFFICES ASSUME NEW y \in Int
             PROVE  BeforeMonth(y, 1) = 0 /\ BeforeMonth(y, 12) + MonthLength(y, 12) = 365 + LeapDay(y)
  OBVIOUS
<1>1. LeapDay(y) \in {0, 1}
  BY LeapDayIs
<1> QED
  BY <1>1, MonthTable

\* Two days of different months of a year are different.
LEMMA MonthsGrow ==
    \A y \in Int, l, m \in 1..12 : l < m => BeforeMonth(y, l) + MonthLength(y, l) <= BeforeMonth(y, m)
<1> SUFFICES ASSUME NEW y \in Int, NEW l \in 1..12, NEW m \in 1..12, l < m
             PROVE  BeforeMonth(y, l) + MonthLength(y, l) <= BeforeMonth(y, m)
  OBVIOUS
<1>1. LeapDay(y) \in {0, 1}
  BY LeapDayIs
<1>2. m \in {1, 2, 3, 4, 5, 6, 7, 8, 9, 10, 11, 12} /\ l \in {1, 2, 3, 4, 5, 6, 7, 8, 9, 10, 11, 12}
  OBVIOUS
<1> QED
  BY <1>1, <1>2, MonthTable

\* The calendar repeats after 400 years.
LEMMA YearsRepeat == \A c, l \in Int : BeforeYear(400 * c + l) = 146097 * c + BeforeYear(l)
<1> SUFFICES ASSUME NEW c \in Int, NEW l \in Int
             PROVE  BeforeYear(400 * c + l) = 146097 * c + BeforeYear(l)
  OBVIOUS
<1> DEFINE a == l - 1
           n == (400 * c + l) - 1
           h == 100 * c
           f == 4 * c
<1>1. /\ n = 4 * h + a /\ n = 100 * f + a /\ n = 400 * c + a
      /\ a \in Int /\ n \in Int /\ h \in Int /\ f \in Int /\ h = 100 * c /\ f = 4 * c
  OBVIOUS
<1>2. BeforeYear(400 * c + l) = 365 * n + n \div 4 - n \div 100 + n \div 400
  BY DEF BeforeYear
<1>3. BeforeYear(l) = 365 * a + a \div 4 - a \div 100 + a \div 400
  BY DEF BeforeYear
<1> HIDE DEF a, n, h, f
<1>4. n \div 4 = h + a \div 4
  BY <1>1, DivPast
<1>5. n \div 100 = f + a \div 100
  BY <1>1, DivPast
<1>6. n \div 400 = c + a \div 400
  BY <1>1, DivPast
<1>7. a \div 4 \in Int /\ a \div 100 \in Int /\ a \div 400 \in Int
  BY <1>1
<1> QED
  BY <1>1, <1>2, <1>3, <1>4, <1>5, <1>6, <1>7

\* Every day lies in one of at most three years after the least one it can be in.
LEMMA YearExists ==
    ASSUME NEW n \in Int
    PROVE  YearAt(n) \in Int /\ BeforeYear(YearAt(n)) < n /\ n <= BeforeYear(YearAt(n) + 1)
<1> DEFINE c == n \div 146097
           r == n % 146097
           l == r \div 366
           least == 400 * c + l
<1>1. c \in Int /\ r \in Int /\ 0 <= r /\ r < 146097 /\ n = 146097 * c + r
  BY DivMod, SMT
<1> HIDE DEF c, r
<1>2. l \in Nat /\ l < 400 /\ 366 * l <= r /\ r < 366 * l + 366
  <2>1. l \in Int /\ 0 <= (r % 366) /\ (r % 366) < 366 /\ r = 366 * l + (r % 366)
    BY <1>1, DivMod, SMT
  <2> QED
    BY <1>1, <2>1
<1> HIDE DEF l
<1>3. BeforeYear(400 * c + l) = 146097 * c + BeforeYear(l)
  BY <1>1, <1>2, YearsRepeat
<1>4. BeforeYear(400 * c + l + 3) = 146097 * c + BeforeYear(l + 3)
  <2>1. l + 3 \in Int /\ 400 * c + l + 3 = 400 * c + (l + 3)
    BY <1>1, <1>2
  <2> QED
    BY <1>1, <2>1, YearsRepeat
<1>5. BeforeYear(l) < r
  <2>1. 4 * ((l - 1) \div 4) <= l - 1 /\ 100 * ((l - 1) \div 100) > l - 101 /\ 400 * ((l - 1) \div 400) <= l - 1
        /\ (l - 1) \div 4 \in Int /\ (l - 1) \div 100 \in Int /\ (l - 1) \div 400 \in Int
    BY <1>2
  <2> QED
    BY <1>1, <1>2, <2>1 DEF BeforeYear
<1>6. r <= BeforeYear(l + 3)
  <2>1. 4 * ((l + 2) \div 4) > l - 2 /\ 100 * ((l + 2) \div 100) <= l + 2 /\ (l + 2) \div 400 \in {0, 1}
        /\ (l + 2) \div 4 \in Int /\ (l + 2) \div 100 \in Int /\ l + 3 - 1 = l + 2
    BY <1>2
  <2> QED
    BY <1>1, <1>2, <2>1 DEF BeforeYear
<1>7. least \in Int /\ BeforeYear(least) < n /\ n <= BeforeYear(least + 3)
  <2>1. BeforeYear(l) \in Int /\ BeforeYear(l + 3) \in Int
    BY <1>2, YearLength
  <2> QED
    BY <1>1, <1>2, <1>3, <1>4, <1>5, <1>6, <2>1
<1>8. \E y \in least .. least + 2 : BeforeYear(y) < n /\ n <= BeforeYear(y + 1)
  <2> HIDE DEF least
  <2>1. BeforeYear(least + 1) \in Int /\ BeforeYear(least + 2) \in Int /\ least + 2 + 1 = least + 3 /\ least + 1 + 1 = least + 2
    BY <1>7, YearLength
  <2>2. CASE n <= BeforeYear(least + 1)
    BY <1>7, <2>2
  <2>3. CASE BeforeYear(least + 1) < n /\ n <= BeforeYear(least + 2)
    <3>1. least + 1 \in least..least + 2
      BY <1>7
    <3> QED
      BY <2>1, <2>3, <3>1
  <2>4. CASE BeforeYear(least + 2) < n
    <3>1. least + 2 \in least..least + 2
      BY <1>7
    <3> QED
      BY <1>7, <2>1, <2>4, <3>1
  <2> QED
    BY <2>1, <2>2, <2>3, <2>4
<1>9. YearAt(n) = CHOOSE y \in least .. least + 2 : BeforeYear(y) < n /\ n <= BeforeYear(y + 1)
  BY DEF YearAt, c, r, l
<1> HIDE DEF least
<1>10. YearAt(n) \in least .. least + 2 /\ BeforeYear(YearAt(n)) < n /\ n <= BeforeYear(YearAt(n) + 1)
  BY <1>8, <1>9
<1> QED
  BY <1>7, <1>10

\* And in one month of it.
LEMMA MonthExists ==
    ASSUME NEW y \in Int, NEW d \in Int, 0 < d, d <= 365 + LeapDay(y)
    PROVE  \E m \in 1..12 : BeforeMonth(y, m) < d /\ (m = 12 \/ d <= BeforeMonth(y, m + 1))
<1>1. \A m \in 1..12 : BeforeMonth(y, m) \in Nat
  BY MonthTyped, MonthEnds
<1>2. BeforeMonth(y, 1) = 0
  BY MonthTyped, MonthEnds
<1>3. \A m \in 1..12 : m = 12 \/ m + 1 \in 1..12
  OBVIOUS
<1> QED
  BY <1>1, <1>2, <1>3

\* The parts of a date.
LEMMA DateParts ==
    ASSUME NEW t \in Dates
    PROVE  /\ t.year \in Int /\ t.month \in 1..12 /\ t.day \in 1..31 /\ t.sec \in Seconds
           /\ t.day <= MonthLength(t.year, t.month)
           /\ t = [year |-> t.year, month |-> t.month, day |-> t.day, sec |-> t.sec]
BY DEF Dates, LengthOf, MonthLength

\* And a date put together of parts that are in their ranges.
LEMMA IsDate ==
    ASSUME NEW y \in Int, NEW m \in 1..12, NEW d \in Nat, d > 0, d <= MonthLength(y, m), NEW s \in Seconds
    PROVE  [year |-> y, month |-> m, day |-> d, sec |-> s] \in Dates
<1> DEFINE t == [year |-> y, month |-> m, day |-> d, sec |-> s]
<1>1. MonthLength(y, m) \in 28..31
  BY MonthTyped, MonthEnds
<1>2. t \in [year : Int, month : 1..12, day : 1..31, sec : Seconds]
  BY <1>1
<1>3. LengthOf(t) = MonthLength(y, m)
  BY DEF LengthOf, MonthLength
<1>4. t.day <= LengthOf(t)
  BY <1>3
<1> HIDE DEF t
<1>5. t \in Dates
  BY <1>2, <1>4 DEF Dates
<1> QED
  BY <1>5 DEF t

\* The days of a year are numbered one after the other.
LEMMA DayInYear ==
    ASSUME NEW t \in Dates
    PROVE  /\ DayNumber(t) \in Int
           /\ BeforeYear(t.year) < DayNumber(t) /\ DayNumber(t) <= BeforeYear(t.year + 1)
<1>1. /\ t.year \in Int /\ t.month \in 1..12 /\ t.day \in 1..31 /\ t.day <= MonthLength(t.year, t.month)
  BY DateParts
<1>2. /\ BeforeYear(t.year) \in Int /\ BeforeYear(t.year + 1) = BeforeYear(t.year) + 365 + LeapDay(t.year)
      /\ BeforeMonth(t.year, t.month) \in Nat
  <2> DEFINE y == t.year
             m == t.month
  <2>1. y \in Int /\ m \in 1..12
    BY <1>1
  <2> HIDE DEF y, m
  <2>2. BeforeYear(y) \in Int /\ BeforeYear(y + 1) = BeforeYear(y) + 365 + LeapDay(y)
    BY <2>1, YearLength
  <2>3. BeforeMonth(y, m) \in Nat
    BY <2>1, MonthTyped
  <2> QED
    BY <2>2, <2>3 DEF y, m
<1>3. BeforeMonth(t.year, t.month) + MonthLength(t.year, t.month) <= 365 + LeapDay(t.year)
  <2> DEFINE y == t.year
             m == t.month
  <2>1. y \in Int /\ m \in 1..12 /\ 12 \in 1..12
    BY <1>1
  <2> HIDE DEF y, m
  <2>2. BeforeMonth(y, 12) + MonthLength(y, 12) = 365 + LeapDay(y) /\ LeapDay(y) \in {0, 1}
    BY <2>1, MonthEnds, LeapDayIs
  <2>3. BeforeMonth(y, 12) \in Nat /\ MonthLength(y, 12) \in 28..31 /\ BeforeMonth(y, m) \in Nat /\ MonthLength(y, m) \in 28..31
    BY <2>1, MonthTyped
  <2>4. m = 12 \/ BeforeMonth(y, m) + MonthLength(y, m) <= BeforeMonth(y, 12)
    BY <2>1, MonthsGrow
  <2>5. BeforeMonth(y, m) + MonthLength(y, m) <= 365 + LeapDay(y)
    BY <2>2, <2>3, <2>4
  <2> QED
    BY <2>5 DEF y, m
<1>4. LeapDay(t.year) \in {0, 1} /\ MonthLength(t.year, t.month) \in 28..31
  BY <1>1, LeapDayIs, MonthTyped, MonthEnds
<1> QED
  BY <1>1, <1>2, <1>3, <1>4 DEF DayNumber

\* Different dates have different numbers.
LEMMA SameDate ==
    ASSUME NEW s \in Dates, NEW t \in Dates, DayNumber(s) = DayNumber(t), s.sec = t.sec
    PROVE  s = t
<1>1. /\ s.year \in Int /\ s.month \in 1..12 /\ s.day \in 1..31 /\ s.day <= MonthLength(s.year, s.month)
      /\ t.year \in Int /\ t.month \in 1..12 /\ t.day \in 1..31 /\ t.day <= MonthLength(t.year, t.month)
  BY DateParts
<1>2. ASSUME NEW a \in Dates, NEW b \in Dates, a.year < b.year PROVE DayNumber(a) < DayNumber(b)
  <2>1. /\ DayNumber(a) \in Int /\ DayNumber(b) \in Int /\ a.year \in Int /\ b.year \in Int
        /\ DayNumber(a) <= BeforeYear(a.year + 1) /\ BeforeYear(b.year) < DayNumber(b)
    BY DayInYear, DateParts
  <2>2. BeforeYear(a.year + 1) <= BeforeYear(b.year) /\ BeforeYear(a.year + 1) \in Int /\ BeforeYear(b.year) \in Int
    <3>1. a.year + 1 = b.year \/ a.year + 1 < b.year
      BY <1>2, <2>1
    <3>2. a.year + 1 \in Int
      BY <2>1
    <3>3. BeforeYear(a.year + 1) \in Int /\ BeforeYear(b.year) \in Int
      BY <2>1, <3>2, YearLength
    <3>4. a.year + 1 < b.year => BeforeYear(a.year + 1) < BeforeYear(b.year)
      BY <2>1, <3>2, YearsGrow
    <3> QED
      BY <3>1, <3>3, <3>4
  <2> QED
    BY <2>1, <2>2
<1>3. DayNumber(s) \in Int /\ DayNumber(t) \in Int
  BY DayInYear
<1>4. s.year = t.year
  <2>1. ~ (s.year < t.year) /\ ~ (t.year < s.year)
    BY <1>2, <1>3
  <2> QED
    BY <1>1, <2>1
<1>5. /\ BeforeMonth(s.year, s.month) \in Nat /\ BeforeMonth(s.year, t.month) \in Nat
      /\ MonthLength(s.year, s.month) \in 28..31 /\ MonthLength(s.year, t.month) \in 28..31
  BY <1>1, MonthTyped
<1>5a. BeforeYear(s.year) \in Int
  BY <1>1, YearLength
<1>6. BeforeMonth(s.year, s.month) + s.day = BeforeMonth(s.year, t.month) + t.day
  <2>1. /\ DayNumber(s) = BeforeYear(s.year) + BeforeMonth(s.year, s.month) + s.day
        /\ DayNumber(t) = BeforeYear(s.year) + BeforeMonth(s.year, t.month) + t.day
    BY <1>4 DEF DayNumber
  <2> DEFINE a == s.day
             b == t.day
             k == BeforeMonth(s.year, s.month)
             l == BeforeMonth(s.year, t.month)
             f == BeforeYear(s.year)
  <2>2. a \in Int /\ b \in Int /\ k \in Int /\ l \in Int /\ f \in Int
    BY <1>1, <1>5, <1>5a
  <2>3. f + k + a = f + l + b
    BY <2>1
  <2> HIDE DEF a, b, k, l, f
  <2>4. k + a = l + b
    BY <2>2, <2>3
  <2> QED
    BY <2>4 DEF a, b, k, l
<1>7. s.month = t.month
  <2>1. s.month < t.month => BeforeMonth(s.year, s.month) + MonthLength(s.year, s.month) <= BeforeMonth(s.year, t.month)
    BY <1>1, MonthsGrow
  <2>2. t.month < s.month => BeforeMonth(s.year, t.month) + MonthLength(s.year, t.month) <= BeforeMonth(s.year, s.month)
    BY <1>1, MonthsGrow
  <2> DEFINE a == s.day
             b == t.day
             k == s.month
             l == t.month
             y == s.year
  <2>3. /\ a \in 1..31 /\ b \in 1..31 /\ k \in 1..12 /\ l \in 1..12
        /\ a <= MonthLength(y, k) /\ b <= MonthLength(y, l)
    BY <1>1, <1>4
  <2> HIDE DEF a, b, k, l, y
  <2>4. BeforeMonth(y, k) + a = BeforeMonth(y, l) + b /\ BeforeMonth(y, k) \in Nat /\ BeforeMonth(y, l) \in Nat
        /\ MonthLength(y, k) \in Int /\ MonthLength(y, l) \in Int
    BY <1>5, <1>6 DEF a, b, k, l, y
  <2>5. k < l => BeforeMonth(y, k) + MonthLength(y, k) <= BeforeMonth(y, l)
    BY <2>1 DEF k, l, y
  <2>6. l < k => BeforeMonth(y, l) + MonthLength(y, l) <= BeforeMonth(y, k)
    BY <2>2 DEF k, l, y
  <2>7. k = l
    BY <2>3, <2>4, <2>5, <2>6
  <2> QED
    BY <2>7 DEF k, l
<1>8. s.day = t.day
  BY <1>1, <1>5, <1>6, <1>7
<1>9. s = [year |-> s.year, month |-> s.month, day |-> s.day, sec |-> s.sec]
      /\ t = [year |-> t.year, month |-> t.month, day |-> t.day, sec |-> t.sec]
  BY DateParts
<1> QED
  BY <1>4, <1>7, <1>8, <1>9

\* The date of a day has its number.
LEMMA CivilIs ==
    ASSUME NEW n \in Int, NEW s \in Seconds
    PROVE  Civil(n, s) \in Dates /\ DayNumber(Civil(n, s)) = n /\ Civil(n, s).sec = s
<1> DEFINE y == YearAt(n)
           d == n - BeforeYear(y)
           m == MonthAt(y, d)
           t == [year |-> y, month |-> m, day |-> d - BeforeMonth(y, m), sec |-> s]
<1>1. Civil(n, s) = t
  BY DEF Civil
<1>3. y \in Int /\ BeforeYear(y) < n /\ n <= BeforeYear(y + 1)
  BY YearExists
<1> HIDE DEF y
<1>4. y \in Int /\ BeforeYear(y) \in Int /\ BeforeYear(y + 1) = BeforeYear(y) + 365 + LeapDay(y) /\ LeapDay(y) \in {0, 1}
  BY <1>3, YearLength, LeapDayIs
<1>5. d \in Int /\ 0 < d /\ d <= 365 + LeapDay(y)
  BY <1>3, <1>4
<1>6. n = BeforeYear(y) + d
  BY <1>4
<1> HIDE DEF d
<1>7. m \in 1..12 /\ BeforeMonth(y, m) < d /\ (m = 12 \/ d <= BeforeMonth(y, m + 1))
  BY <1>4, <1>5, MonthExists DEF MonthAt
<1> HIDE DEF m
<1> DEFINE e == d - BeforeMonth(y, m)
<1>8. /\ BeforeMonth(y, m) \in Nat /\ MonthLength(y, m) \in 28..31
      /\ m < 12 => BeforeMonth(y, m + 1) = BeforeMonth(y, m) + MonthLength(y, m)
      /\ m = 12 => BeforeMonth(y, m) + MonthLength(y, m) = 365 + LeapDay(y)
  <2>1. BeforeMonth(y, m) \in Nat /\ MonthLength(y, m) \in 28..31
    BY <1>4, <1>7, MonthTyped
  <2>2. m < 12 => BeforeMonth(y, m + 1) = BeforeMonth(y, m) + MonthLength(y, m)
    BY <1>4, <1>7, MonthNext
  <2>3. BeforeMonth(y, 12) + MonthLength(y, 12) = 365 + LeapDay(y)
    BY <1>4, MonthEnds
  <2> QED
    BY <2>1, <2>2, <2>3
<1>9. e \in Nat /\ e > 0 /\ e <= MonthLength(y, m) /\ BeforeMonth(y, m) + e = d
  BY <1>4, <1>5, <1>7, <1>8
<1>10. t = [year |-> y, month |-> m, day |-> e, sec |-> s]
  OBVIOUS
<1> HIDE DEF e
<1>11. t \in Dates
  BY <1>4, <1>7, <1>9, <1>10, IsDate
<1>12. t.year = y /\ t.month = m /\ t.day = e /\ t.sec = s
  BY <1>10
<1> HIDE DEF t
<1>13. DayNumber(t) = n
  BY <1>4, <1>5, <1>6, <1>8, <1>9, <1>12 DEF DayNumber
<1> QED
  BY <1>1, <1>11, <1>12, <1>13

\* The months of all years, one after the other: MonthIndex is their number.
Index(y, m) == 12 * y + m
YearOf(i) == (i - 1) \div 12
MonthOf(i) == ((i - 1) % 12) + 1
FirstOf(i) == BeforeYear(YearOf(i)) + BeforeMonth(YearOf(i), MonthOf(i))
LengthAt(i) == MonthLength(YearOf(i), MonthOf(i))

\* Each month of all years begins where the one before it ends.
LEMMA MonthsFollow ==
    \A i \in Int : /\ YearOf(i) \in Int /\ MonthOf(i) \in 1..12 /\ FirstOf(i) \in Int /\ LengthAt(i) \in 28..31
                   /\ FirstOf(i + 1) = FirstOf(i) + LengthAt(i)
                   /\ 12 * YearOf(i) + MonthOf(i) = i
<1> SUFFICES ASSUME NEW i \in Int
             PROVE  /\ YearOf(i) \in Int /\ MonthOf(i) \in 1..12 /\ FirstOf(i) \in Int /\ LengthAt(i) \in 28..31
                    /\ FirstOf(i + 1) = FirstOf(i) + LengthAt(i)
                    /\ 12 * YearOf(i) + MonthOf(i) = i
  OBVIOUS
<1> DEFINE y == YearOf(i)
           m == MonthOf(i)
<1>1. y \in Int /\ m \in 1..12 /\ i = 12 * y + m
  <2>1. (i - 1) \div 12 \in Int /\ ((i - 1) % 12) \in 0..11 /\ i - 1 = 12 * ((i - 1) \div 12) + ((i - 1) % 12)
    BY DivMod
  <2> QED
    BY <2>1 DEF YearOf, MonthOf
<1>2. BeforeYear(y) \in Int /\ BeforeYear(y + 1) = BeforeYear(y) + 365 + LeapDay(y)
  BY <1>1, YearLength
<1>3. /\ BeforeMonth(y, m) \in Nat /\ MonthLength(y, m) \in 28..31
      /\ m < 12 => BeforeMonth(y, m + 1) = BeforeMonth(y, m) + MonthLength(y, m)
      /\ m = 12 => BeforeMonth(y, m) + MonthLength(y, m) = 365 + LeapDay(y)
      /\ BeforeMonth(y + 1, 1) = 0
  <2>1. BeforeMonth(y, m) \in Nat /\ MonthLength(y, m) \in 28..31
    BY <1>1, MonthTyped
  <2>2. m < 12 => BeforeMonth(y, m + 1) = BeforeMonth(y, m) + MonthLength(y, m)
    BY <1>1, MonthNext
  <2>3. BeforeMonth(y, 12) + MonthLength(y, 12) = 365 + LeapDay(y)
    BY <1>1, MonthEnds
  <2>4. y + 1 \in Int
    BY <1>1
  <2>5. BeforeMonth(y + 1, 1) = 0
    BY <2>4, MonthEnds
  <2> HIDE DEF y, m
  <2> QED
    BY <2>1, <2>2, <2>3, <2>5
<1>4. m < 12 => YearOf(i + 1) = y /\ MonthOf(i + 1) = m + 1
  <2> HAVE m < 12
  <2> HIDE DEF y, m
  <2>1. (i + 1) - 1 = 12 * y + m /\ 0 <= m /\ (i + 1) - 1 \in Int
    BY <1>1
  <2> DEFINE k == (i + 1) - 1
  <2>2. y = k \div 12 /\ m = (k % 12)
    BY <1>1, <2>1, DivUnique
  <2> QED
    BY <2>2 DEF YearOf, MonthOf
<1>5. m = 12 => YearOf(i + 1) = y + 1 /\ MonthOf(i + 1) = 1
  <2> HAVE m = 12
  <2> HIDE DEF y, m
  <2>1. (i + 1) - 1 = 12 * (y + 1) + 0 /\ (i + 1) - 1 \in Int /\ y + 1 \in Int
    BY <1>1
  <2> DEFINE k == (i + 1) - 1
  <2>2. y + 1 = k \div 12 /\ 0 = (k % 12)
    BY <1>1, <2>1, DivUnique
  <2> QED
    BY <2>2 DEF YearOf, MonthOf
<1>6. FirstOf(i) = BeforeYear(y) + BeforeMonth(y, m) /\ LengthAt(i) = MonthLength(y, m)
  BY DEF FirstOf, LengthAt
<1>7. FirstOf(i + 1) = BeforeYear(YearOf(i + 1)) + BeforeMonth(YearOf(i + 1), MonthOf(i + 1))
  BY DEF FirstOf
<1>8. LeapDay(y) \in {0, 1}
  BY <1>1, LeapDayIs
<1> HIDE DEF y, m
<1>9. FirstOf(i + 1) = FirstOf(i) + LengthAt(i)
  <2>1. CASE m < 12
    BY <1>2, <1>3, <1>4, <1>6, <1>7, <2>1
  <2>2. CASE m = 12
    BY <1>2, <1>3, <1>5, <1>6, <1>7, <1>8, <2>2
  <2> QED
    BY <1>1, <2>1, <2>2
<1> QED
  BY <1>1, <1>2, <1>3, <1>6, <1>9 DEF y, m

\* A date is a day of the month of its index.
LEMMA DateMonth ==
    ASSUME NEW t \in Dates
    PROVE  /\ MonthIndex(t) \in Int /\ YearOf(MonthIndex(t)) = t.year /\ MonthOf(MonthIndex(t)) = t.month
           /\ LengthAt(MonthIndex(t)) = LengthOf(t)
           /\ DayNumber(t) = FirstOf(MonthIndex(t)) + t.day
<1>1. t.year \in Int /\ t.month \in 1..12
  BY DateParts
<1> DEFINE y == t.year
           m == t.month
           i == MonthIndex(t)
<1>2. i = 12 * y + m
  BY DEF MonthIndex
<1> HIDE DEF y, m, i
<1>2a. y \in Int /\ m \in 1..12
  BY <1>1 DEF y, m
<1>3. i \in Int /\ i - 1 = 12 * y + (m - 1) /\ m - 1 \in 0..11 /\ i - 1 \in Int
  BY <1>2, <1>2a
<1> DEFINE k == i - 1
           e == m - 1
<1>4. k \in Int /\ e \in 0..11 /\ k = 12 * y + e
  BY <1>3
<1> HIDE DEF k, e
<1>5. y = k \div 12 /\ e = (k % 12)
  BY <1>2a, <1>4, DivUnique
<1>6. YearOf(i) = y /\ MonthOf(i) = m
  BY <1>2a, <1>5 DEF YearOf, MonthOf, k, e
<1> QED
  BY <1>3, <1>6 DEF y, m, i, LengthAt, FirstOf, DayNumber, LengthOf, MonthLength

\* A day of a month is the date of that month.
LEMMA InMonth ==
    ASSUME NEW t \in Dates, NEW i \in Int, FirstOf(i) < DayNumber(t), DayNumber(t) <= FirstOf(i) + LengthAt(i)
    PROVE  /\ MonthIndex(t) = i /\ t.day = DayNumber(t) - FirstOf(i)
           /\ t.year = YearOf(i) /\ t.month = MonthOf(i)
<1>1. /\ YearOf(i) \in Int /\ MonthOf(i) \in 1..12 /\ FirstOf(i) \in Int /\ LengthAt(i) \in 28..31
      /\ 12 * YearOf(i) + MonthOf(i) = i
  BY MonthsFollow
<1>2. DayNumber(t) \in Int /\ t.sec \in Seconds
  BY DayInYear, DateParts
<1> DEFINE d == DayNumber(t) - FirstOf(i)
           u == [year |-> YearOf(i), month |-> MonthOf(i), day |-> d, sec |-> t.sec]
<1>3. d \in Nat /\ d > 0 /\ d <= LengthAt(i) /\ FirstOf(i) + d = DayNumber(t)
  BY <1>1, <1>2
<1>4. u \in Dates
  <2> HIDE DEF d
  <2>1. d <= MonthLength(YearOf(i), MonthOf(i))
    BY <1>3 DEF LengthAt
  <2> QED
    BY <1>1, <1>2, <1>3, <2>1, IsDate
<1>5. u.year = YearOf(i) /\ u.month = MonthOf(i) /\ u.day = d /\ u.sec = t.sec
  OBVIOUS
<1> HIDE DEF u
<1>6. DayNumber(u) = DayNumber(t)
  BY <1>3, <1>5 DEF DayNumber, FirstOf
<1>7. u = t
  BY <1>4, <1>5, <1>6, SameDate
<1> QED
  BY <1>1, <1>5, <1>7 DEF MonthIndex

\* time.Date: months, days and seconds are carried over.
LEMMA DateIs ==
    ASSUME NEW y \in Int, NEW m \in Int, NEW d \in Int, NEW s \in Int, NEW i \in Int, i = Index(y, m)
    PROVE  /\ Date(y, m, d, s) \in Dates
           /\ DayNumber(Date(y, m, d, s)) = FirstOf(i) + d + s \div SecondsPerDay
           /\ Date(y, m, d, s).sec = (s % SecondsPerDay)
<1> DEFINE e == m - 1
<1>1. y + e \div 12 = YearOf(i) /\ (e % 12) + 1 = MonthOf(i)
  <2>1. e \in Int /\ 12 * y + e = i - 1
    BY DEF Index
  <2> HIDE DEF e
  <2>2. (12 * y + e) \div 12 = y + e \div 12 /\ ((12 * y + e) % 12) = (e % 12)
    BY <2>1, DivPast
  <2> QED
    BY <2>1, <2>2 DEF YearOf, MonthOf
<1> DEFINE n == FirstOf(i) + d + s \div SecondsPerDay
<1>2. Date(y, m, d, s) = Civil(n, s % SecondsPerDay)
  BY <1>1 DEF Date, FirstOf
<1>3. FirstOf(i) \in Int
  BY MonthsFollow
<1>4. s \div SecondsPerDay \in Int /\ (s % SecondsPerDay) \in Seconds
  BY CarriedSeconds
<1>5. n \in Int
  BY <1>3, <1>4
<1> HIDE DEF n
<1> DEFINE z == s % SecondsPerDay
<1>6. z \in Seconds
  BY <1>4
<1> HIDE DEF z
<1>7. Civil(n, z) \in Dates /\ DayNumber(Civil(n, z)) = n /\ Civil(n, z).sec = z
  BY <1>5, <1>6, CivilIs
<1> QED
  BY <1>2, <1>7 DEF n, z

\* A date of a month, by the index of the month.
LEMMA DateInMonth ==
    ASSUME NEW y \in Int, NEW m \in Int, NEW i \in Int, i = Index(y, m),
           NEW d \in Nat, d > 0, d <= LengthAt(i), NEW s \in Seconds
    PROVE  Date(y, m, d, s) = [year |-> YearOf(i), month |-> MonthOf(i), day |-> d, sec |-> s]
<1> DEFINE t == Date(y, m, d, s)
<1>1. d \in Int /\ s \in Int /\ s \div SecondsPerDay = 0 /\ (s % SecondsPerDay) = s
  BY WithinDay
<1>2. FirstOf(i) \in Int /\ LengthAt(i) \in 28..31
  BY MonthsFollow
<1>3. t \in Dates /\ DayNumber(t) = FirstOf(i) + d /\ t.sec = s
  <2>1. t \in Dates /\ DayNumber(t) = FirstOf(i) + d + s \div SecondsPerDay /\ t.sec = (s % SecondsPerDay)
    <3>1. y \in Int /\ m \in Int /\ d \in Int /\ s \in Int
      BY <1>1
    <3> QED
      BY <3>1, DateIs
  <2> HIDE DEF t
  <2> DEFINE q == s \div SecondsPerDay
             r == s % SecondsPerDay
  <2>2. q = 0 /\ r = s
    BY <1>1
  <2>3. t \in Dates /\ DayNumber(t) = FirstOf(i) + d + q /\ t.sec = r
    BY <2>1
  <2> HIDE DEF q, r
  <2>4. FirstOf(i) + d + q = FirstOf(i) + d
    BY <1>1, <1>2, <2>2
  <2> QED
    BY <2>2, <2>3, <2>4
<1> HIDE DEF t
<1>4. t.year = YearOf(i) /\ t.month = MonthOf(i) /\ t.day = d
  BY <1>2, <1>3, InMonth
<1>5. t = [year |-> t.year, month |-> t.month, day |-> t.day, sec |-> t.sec]
  BY <1>3, DateParts
<1> QED
  BY <1>3, <1>4, <1>5 DEF t

\* A day of the month of t.
LEMMA DateOfMonth ==
    ASSUME NEW t \in Dates, NEW d \in Nat, d > 0, d <= LengthOf(t), NEW s \in Seconds
    PROVE  Date(t.year, t.month, d, s) = [year |-> t.year, month |-> t.month, day |-> d, sec |-> s]
<1> DEFINE i == MonthIndex(t)
<1>1. t.year \in Int /\ t.month \in Int /\ i = Index(t.year, t.month)
  BY DateParts DEF MonthIndex, Index
<1>2. i \in Int /\ YearOf(i) = t.year /\ MonthOf(i) = t.month /\ LengthAt(i) = LengthOf(t)
  BY DateMonth
<1> HIDE DEF i
<1> QED
  BY <1>1, <1>2, DateInMonth

\* Date with the days and the seconds of t moved.
LEMMA DateShifted ==
    ASSUME NEW t \in Dates, NEW d \in Int, NEW s \in Int
    PROVE  /\ Date(t.year, t.month, d, s) \in Dates
           /\ DayNumber(Date(t.year, t.month, d, s)) = DayNumber(t) - t.day + d + s \div SecondsPerDay
           /\ Date(t.year, t.month, d, s).sec = (s % SecondsPerDay)
<1> DEFINE i == MonthIndex(t)
<1>1. t.year \in Int /\ t.month \in Int /\ t.day \in Int /\ i = Index(t.year, t.month)
  BY DateParts DEF MonthIndex, Index
<1>2. i \in Int /\ DayNumber(t) = FirstOf(i) + t.day /\ DayNumber(t) \in Int
  BY DateMonth, DayInYear
<1>3. FirstOf(i) \in Int /\ s \div SecondsPerDay \in Int
  BY <1>2, MonthsFollow, CarriedSeconds
<1> DEFINE y == t.year
           m == t.month
           u == Date(y, m, d, s)
<1>4. u \in Dates /\ DayNumber(u) = FirstOf(i) + d + s \div SecondsPerDay /\ u.sec = (s % SecondsPerDay)
  <2>1. y \in Int /\ m \in Int /\ i = Index(y, m) /\ i \in Int
    BY <1>1, <1>2
  <2> HIDE DEF i, y, m
  <2> QED
    BY <2>1, DateIs
<1> HIDE DEF i, u
<1>5. DayNumber(u) = DayNumber(t) - t.day + d + s \div SecondsPerDay
  BY <1>1, <1>2, <1>3, <1>4
<1> QED
  BY <1>4, <1>5 DEF u

\* A second behind t.
LEMMA SecondLater ==
    ASSUME NEW t \in Dates
    PROVE  /\ Add(t, 1) \in Dates /\ Add(t, 1).sec = ((t.sec + 1) % SecondsPerDay)
           /\ t.sec = SecondsPerDay - 1 => DayNumber(Add(t, 1)) = DayNumber(t) + 1 /\ Add(t, 1).sec = 0
<1> DEFINE a == t.sec + 1
           u == Add(t, 1)
<1>1. t.day \in Int /\ t.sec \in Int /\ DayNumber(t) \in Int
  BY DateParts, DayInYear, InSeconds
<1>2. a \in Int
  BY <1>1
<1>3. u = Date(t.year, t.month, t.day, a)
  BY DEF Add
<1> HIDE DEF a, u
<1>4. u \in Dates /\ u.sec = (a % SecondsPerDay) /\ DayNumber(u) = DayNumber(t) - t.day + t.day + a \div SecondsPerDay
  BY <1>1, <1>2, <1>3, DateShifted
<1>5. ASSUME t.sec = SecondsPerDay - 1 PROVE DayNumber(u) = DayNumber(t) + 1 /\ u.sec = 0
  <2>1. a = SecondsPerDay
    BY <1>1, <1>5, DayLength DEF a
  <2>2. 1 = a \div SecondsPerDay /\ 0 = (a % SecondsPerDay)
    <3>1. a = SecondsPerDay * 1 + 0 /\ 0 <= 0 /\ 0 < SecondsPerDay /\ SecondsPerDay \in Nat \ {0}
      BY <2>1, DayLength
    <3> QED
      BY <1>2, <3>1, DivUnique
  <2> DEFINE q == a \div SecondsPerDay
             d == t.day
  <2>3. DayNumber(u) = DayNumber(t) - d + d + q /\ q = 1 /\ d \in Int
    BY <1>1, <1>4, <2>2
  <2> HIDE DEF q, d
  <2>4. DayNumber(u) = DayNumber(t) + 1
    BY <1>1, <2>3
  <2> QED
    BY <1>4, <2>2, <2>4
<1> QED
  BY <1>4, <1>5 DEF a, u

\* A time that is not behind another is before the second after it.
LEMMA SecondBehind ==
    ASSUME NEW t \in Dates, NEW end \in Dates, ~Before(end, t)
    PROVE  Before(t, Add(end, 1))
<1> DEFINE u == Add(end, 1)
           a == end.sec + 1
<1>1. /\ DayNumber(t) \in Int /\ DayNumber(end) \in Int /\ t.sec \in Int /\ end.sec \in Int
      /\ 0 <= end.sec /\ end.sec <= SecondsPerDay - 1 /\ t.sec <= SecondsPerDay - 1 /\ end.day \in Int
  BY DateParts, DayInYear, InSeconds
<1>2. DayNumber(t) < DayNumber(end) \/ (DayNumber(t) = DayNumber(end) /\ t.sec <= end.sec)
  BY <1>1 DEF Before
<1>3. CASE end.sec = SecondsPerDay - 1
  <2>1. DayNumber(u) = DayNumber(end) + 1
    BY <1>3, SecondLater
  <2> HIDE DEF u
  <2>2. Before(t, u)
    BY <1>1, <1>2, <2>1 DEF Before
  <2> QED
    BY <2>2 DEF u
<1>4. CASE end.sec # SecondsPerDay - 1
  <2>1. a \in Int /\ 0 <= a /\ a <= SecondsPerDay - 1
    BY <1>1, <1>4, DayLength
  <2>2. u = Date(end.year, end.month, end.day, a)
    BY DEF Add
  <2> HIDE DEF u, a
  <2>3. a \in Seconds
    BY <2>1, InSeconds
  <2>4. a \div SecondsPerDay = 0 /\ (a % SecondsPerDay) = a
    BY <2>3, WithinDay
  <2>5. u.sec = (a % SecondsPerDay) /\ DayNumber(u) = DayNumber(end) - end.day + end.day + a \div SecondsPerDay
    BY <1>1, <2>1, <2>2, DateShifted
  <2>6. u.sec = a /\ DayNumber(u) = DayNumber(end)
    BY <1>1, <2>4, <2>5
  <2>7. Before(t, u)
    BY <1>1, <1>2, <2>6 DEF Before, a
  <2> QED
    BY <2>7 DEF u
<1> QED
  BY <1>3, <1>4

\* The start and the end of a period, to the second, and the start of the next one.
Encloses(t, start, end, startOfEnd, startOfNext) ==
    /\ ~Before(t, start) /\ ~Before(end, t) /\ startOfEnd = start /\ startOfNext = Add(end, 1)
    /\ end \in Dates

\* Of two dates the earlier one.
LEMMA NotBefore ==
    ASSUME NEW s \in Dates, NEW t \in Dates,
           DayNumber(t) < DayNumber(s) \/ (DayNumber(s) = DayNumber(t) /\ t.sec <= s.sec)
    PROVE  ~Before(s, t)
<1>1. DayNumber(s) \in Int /\ DayNumber(t) \in Int /\ s.sec \in Int /\ t.sec \in Int
  BY DayInYear, DateParts, InSeconds
<1> QED
  BY <1>1 DEF Before

\* The day (StartOfDay, EndOfDay).
LEMMA DayEncloses ==
    ASSUME NEW t \in Dates
    PROVE  Encloses(t, StartOfDay(t), EndOfDay(t), StartOfDay(EndOfDay(t)), StartOfDay(Add(EndOfDay(t), 1)))
<1> DEFINE start == StartOfDay(t)
           end == EndOfDay(t)
           next == Add(end, 1)
           z == SecondsPerDay - 1
<1>0. 0 \in Seconds /\ z \in Seconds
  BY DayLength, InSeconds
<1>1. t.day \in Nat /\ t.day > 0 /\ t.day <= LengthOf(t) /\ t.sec \in Seconds /\ t.year \in Int /\ t.month \in 1..12
  BY DateParts DEF LengthOf, MonthLength
<1>1a. 0 <= t.sec /\ t.sec <= z
  BY <1>1, InSeconds
<1>1b. start = Date(t.year, t.month, t.day, 0) /\ end = Date(t.year, t.month, t.day, z)
  BY DEF StartOfDay, EndOfDay
<1> HIDE DEF z, start, end
<1>2. /\ start = [year |-> t.year, month |-> t.month, day |-> t.day, sec |-> 0]
      /\ end = [year |-> t.year, month |-> t.month, day |-> t.day, sec |-> z]
  BY <1>0, <1>1, <1>1b, DateOfMonth
<1>2a. /\ start.year = t.year /\ start.month = t.month /\ start.day = t.day /\ start.sec = 0
       /\ end.year = t.year /\ end.month = t.month /\ end.day = t.day /\ end.sec = z
  BY <1>2
<1>3. start \in Dates /\ end \in Dates
  BY <1>0, <1>1, <1>2, IsDate DEF LengthOf, MonthLength
<1>4. next \in Dates /\ next.sec = 0
  BY <1>2a, <1>3, SecondLater DEF z
<1>5. DayNumber(start) = DayNumber(t) /\ DayNumber(end) = DayNumber(t)
  BY <1>2a DEF DayNumber
<1>6. StartOfDay(end) = start
  BY <1>1b, <1>2a DEF StartOfDay
<1>7. StartOfDay(next) = next
  <2>1. next.day \in Nat /\ next.day > 0 /\ next.day <= LengthOf(next)
        /\ next = [year |-> next.year, month |-> next.month, day |-> next.day, sec |-> next.sec]
    BY <1>4, DateParts DEF LengthOf, MonthLength
  <2> HIDE DEF next
  <2>2. Date(next.year, next.month, next.day, 0) = [year |-> next.year, month |-> next.month, day |-> next.day, sec |-> 0]
    BY <1>0, <1>4, <2>1, DateOfMonth
  <2> QED
    BY <1>4, <2>1, <2>2 DEF StartOfDay
<1>8. ~Before(t, start) /\ ~Before(end, t)
  <2> HIDE DEF next
  <2>1. start.sec <= t.sec /\ t.sec <= end.sec
    BY <1>1a, <1>2a
  <2>2. DayNumber(t) = DayNumber(start) /\ DayNumber(end) = DayNumber(t)
    BY <1>5
  <2> QED
    BY <1>3, <2>1, <2>2, NotBefore
<1> QED
  BY <1>3, <1>6, <1>7, <1>8 DEF Encloses, start, end

\* The last day of a month.
LEMMA EndOfMonthIs ==
    ASSUME NEW y \in Int, NEW m \in Int, NEW i \in Int, i = Index(y, m), NEW s \in Seconds
    PROVE  AddDate(Date(y, m, 1, s), 0, 1, -1) = [year |-> YearOf(i), month |-> MonthOf(i), day |-> LengthAt(i), sec |-> s]
<1> DEFINE first == Date(y, m, 1, s)
           last == AddDate(first, 0, 1, -1)
           p == YearOf(i)
           q == MonthOf(i)
           l == LengthAt(i)
           f == FirstOf(i)
           g == FirstOf(i + 1)
<1>1. /\ p \in Int /\ q \in 1..12 /\ f \in Int /\ l \in 28..31
      /\ g = f + l /\ 12 * p + q = i
  BY MonthsFollow
<1>1a. s \in Int /\ s \div SecondsPerDay = 0 /\ (s % SecondsPerDay) = s
  BY WithinDay
<1>2. first = [year |-> p, month |-> q, day |-> 1, sec |-> s]
  <2>1. 1 \in Nat /\ 1 > 0 /\ 1 <= l
    BY <1>1
  <2> HIDE DEF p, q
  <2> QED
    BY <2>1, DateInMonth DEF p, q
<1>3. first.year = p /\ first.month = q /\ first.day = 1 /\ first.sec = s
  BY <1>2
<1> HIDE DEF first, p, q, l, f, g
<1>4. last = Date(p + 0, q + 1, 1 + (-1), s)
  BY <1>3 DEF AddDate
<1>5. p + 0 = p /\ 1 + (-1) = 0 /\ q + 1 \in Int
  BY <1>1
<1>6. last = Date(p, q + 1, 0, s)
  BY <1>4, <1>5
<1> HIDE DEF last
<1>7. last \in Dates /\ DayNumber(last) = FirstOf(i + 1) + 0 + s \div SecondsPerDay /\ last.sec = (s % SecondsPerDay)
  <2> DEFINE j == i + 1
             k == q + 1
  <2>1. p \in Int /\ k \in Int /\ 0 \in Int /\ s \in Int /\ j \in Int /\ j = Index(p, k) /\ last = Date(p, k, 0, s)
    BY <1>1, <1>1a, <1>5, <1>6 DEF Index
  <2> HIDE DEF j, k
  <2>2. last \in Dates /\ DayNumber(last) = FirstOf(j) + 0 + s \div SecondsPerDay /\ last.sec = (s % SecondsPerDay)
    BY <2>1, DateIs
  <2> QED
    BY <2>2 DEF j
<1>8. DayNumber(last) = f + l /\ last.sec = s
  <2>1. DayNumber(last) = g + 0 + 0
    BY <1>1a, <1>7 DEF g
  <2> QED
    BY <1>1, <1>1a, <1>7, <2>1
<1>9. last.year = p /\ last.month = q /\ last.day = l
  <2>1. f < DayNumber(last) /\ DayNumber(last) <= f + l /\ DayNumber(last) - f = l
    BY <1>1, <1>8
  <2>2. last.year = YearOf(i) /\ last.month = MonthOf(i) /\ last.day = DayNumber(last) - FirstOf(i)
    BY <1>7, <2>1, InMonth DEF f, l
  <2> QED
    BY <2>1, <2>2 DEF p, q, f
<1>10. last = [year |-> last.year, month |-> last.month, day |-> last.day, sec |-> last.sec]
  BY <1>7, DateParts
<1>11. last = [year |-> p, month |-> q, day |-> l, sec |-> s]
  BY <1>8, <1>9, <1>10
<1> QED
  BY <1>11 DEF last, first, p, q, l

\* The month (StartOfMonth, EndOfMonth).
LEMMA MonthEncloses ==
    ASSUME NEW t \in Dates
    PROVE  /\ Encloses(t, StartOfMonth(t), EndOfMonth(t), StartOfMonth(EndOfMonth(t)), StartOfMonth(Add(EndOfMonth(t), 1)))
           /\ EndOfMonth(t).day = LengthOf(t)
<1> DEFINE start == StartOfMonth(t)
           end == EndOfMonth(t)
           next == Add(end, 1)
           i == MonthIndex(t)
           y == t.year
           m == t.month
           d == t.day
           l == LengthOf(t)
           f == FirstOf(i)
           z == SecondsPerDay - 1
<1>0. 0 \in Seconds /\ z \in Seconds
  BY DayLength, InSeconds
<1>1. d \in Nat /\ d > 0 /\ d <= l /\ t.sec \in Seconds /\ y \in Int /\ m \in 1..12 /\ l = MonthLength(y, m)
  BY DateParts DEF LengthOf, MonthLength
<1>1a. 0 <= t.sec /\ t.sec <= z
  BY <1>1, InSeconds
<1>2. i \in Int /\ i = Index(y, m) /\ i = 12 * y + m /\ YearOf(i) = y /\ MonthOf(i) = m /\ LengthAt(i) = l /\ DayNumber(t) = f + d
  BY DateMonth DEF MonthIndex, Index
<1>3. start = Date(y, m, 1, 0) /\ end = AddDate(Date(y, m, 1, z), 0, 1, -1)
  BY DEF StartOfMonth, EndOfMonth
<1> HIDE DEF z, start, end, i, l, f, y, m, d
<1>4. l \in 28..31 /\ f \in Int /\ FirstOf(i + 1) = f + l /\ FirstOf(i + 1) \in Int /\ LengthAt(i + 1) \in 28..31
  <2>1. i + 1 \in Int
    BY <1>2
  <2> QED
    BY <1>2, <2>1, MonthsFollow DEF f
<1>5. /\ start = [year |-> y, month |-> m, day |-> 1, sec |-> 0]
      /\ end = [year |-> y, month |-> m, day |-> l, sec |-> z]
  <2>1. m \in Int /\ 1 \in Nat /\ 1 > 0 /\ 1 <= l
    BY <1>1, <1>4
  <2>2. y \in Int /\ i \in Int /\ i = Index(y, m) /\ 1 <= LengthAt(i)
    BY <1>1, <1>2, <2>1
  <2>3. Date(y, m, 1, 0) = [year |-> YearOf(i), month |-> MonthOf(i), day |-> 1, sec |-> 0]
    BY <1>0, <2>1, <2>2, DateInMonth
  <2>4. AddDate(Date(y, m, 1, z), 0, 1, -1) = [year |-> YearOf(i), month |-> MonthOf(i), day |-> LengthAt(i), sec |-> z]
    BY <1>0, <2>1, <2>2, EndOfMonthIs
  <2> QED
    BY <1>2, <1>3, <2>3, <2>4
<1>6. /\ start.year = y /\ start.month = m /\ start.day = 1 /\ start.sec = 0
      /\ end.year = y /\ end.month = m /\ end.day = l /\ end.sec = z
  BY <1>5
<1>7. start \in Dates /\ end \in Dates
  <2>1. 1 \in Nat /\ 1 > 0 /\ 1 <= MonthLength(y, m) /\ l \in Nat /\ l > 0 /\ l <= MonthLength(y, m)
    BY <1>1, <1>4
  <2> QED
    BY <1>0, <1>1, <1>5, <2>1, IsDate
<1>8. next \in Dates /\ next.sec = 0 /\ DayNumber(next) = DayNumber(end) + 1
  BY <1>6, <1>7, SecondLater DEF z
<1>9. DayNumber(start) = f + 1 /\ DayNumber(end) = f + l
  <2>1. MonthIndex(start) = i /\ MonthIndex(end) = i
    BY <1>2, <1>6 DEF MonthIndex
  <2>2. DayNumber(start) = FirstOf(MonthIndex(start)) + start.day /\ DayNumber(end) = FirstOf(MonthIndex(end)) + end.day
    BY <1>7, DateMonth
  <2> QED
    BY <1>6, <2>1, <2>2 DEF f
<1>10. StartOfMonth(end) = start
  BY <1>3, <1>6 DEF StartOfMonth
<1>11. StartOfMonth(next) = next
  <2> HIDE DEF next
  <2> DEFINE g == FirstOf(i + 1)
             n == DayNumber(next)
  <2>1. n = g + 1 /\ g < n /\ n <= g + LengthAt(i + 1) /\ n - g = 1 /\ i + 1 \in Int
    BY <1>2, <1>4, <1>8, <1>9
  <2>2. next.day = n - g
    BY <1>8, <2>1, InMonth
  <2> HIDE DEF n, g
  <2>3. next.day = 1
    BY <2>1, <2>2
  <2>4. next = [year |-> next.year, month |-> next.month, day |-> next.day, sec |-> next.sec]
        /\ next.day <= LengthOf(next)
    BY <1>8, DateParts DEF LengthOf, MonthLength
  <2>5. Date(next.year, next.month, next.day, 0) = [year |-> next.year, month |-> next.month, day |-> next.day, sec |-> 0]
    <3>1. next.day \in Nat /\ next.day > 0
      BY <2>3
    <3> QED
      BY <1>0, <1>8, <2>4, <3>1, DateOfMonth
  <2> QED
    BY <1>8, <2>3, <2>4, <2>5 DEF StartOfMonth
<1>12. ~Before(t, start)
  <2>1. f + 1 < f + d \/ (f + d = f + 1 /\ 0 <= t.sec)
    BY <1>1, <1>1a, <1>4
  <2>2. DayNumber(start) < DayNumber(t) \/ (DayNumber(t) = DayNumber(start) /\ start.sec <= t.sec)
    BY <1>2, <1>6, <1>9, <2>1
  <2> QED
    BY <1>7, <2>2, NotBefore
<1>13. ~Before(end, t)
  <2>1. f + d < f + l \/ (f + l = f + d /\ t.sec <= z)
    BY <1>1, <1>1a, <1>4
  <2>2. DayNumber(t) < DayNumber(end) \/ (DayNumber(end) = DayNumber(t) /\ t.sec <= end.sec)
    BY <1>2, <1>6, <1>9, <2>1
  <2> QED
    BY <1>7, <2>2, NotBefore
<1> QED
  BY <1>6, <1>7, <1>10, <1>11, <1>12, <1>13 DEF Encloses, start, end, l

\* A date of a given month of a year.
LEMMA DateOfYear ==
    ASSUME NEW y \in Int, NEW m \in 1..12, NEW d \in Nat, d > 0, d <= MonthLength(y, m), NEW s \in Seconds
    PROVE  /\ Date(y, m, d, s) = [year |-> y, month |-> m, day |-> d, sec |-> s]
           /\ [year |-> y, month |-> m, day |-> d, sec |-> s] \in Dates
<1> DEFINE t == [year |-> y, month |-> m, day |-> d, sec |-> s]
<1>1. t \in Dates
  BY IsDate
<1>2. t.year = y /\ t.month = m /\ t.day = d /\ t.sec = s
  OBVIOUS
<1>3. LengthOf(t) = MonthLength(y, m)
  BY <1>2 DEF LengthOf, MonthLength
<1> HIDE DEF t
<1>4. Date(t.year, t.month, d, s) = [year |-> t.year, month |-> t.month, day |-> d, sec |-> s]
  BY <1>1, <1>3, DateOfMonth
<1> QED
  BY <1>1, <1>2, <1>4 DEF t

\* The year (StartOfYear, EndOfYear).
LEMMA YearEncloses ==
    ASSUME NEW t \in Dates
    PROVE  Encloses(t, StartOfYear(t), EndOfYear(t), StartOfYear(EndOfYear(t)), StartOfYear(Add(EndOfYear(t), 1)))
<1> DEFINE start == StartOfYear(t)
           end == EndOfYear(t)
           next == Add(end, 1)
           y == t.year
           z == SecondsPerDay - 1
<1>0. 0 \in Seconds /\ z \in Seconds
  BY DayLength, InSeconds
<1>1. y \in Int /\ t.sec \in Seconds /\ DayNumber(t) \in Int
      /\ BeforeYear(y) < DayNumber(t) /\ DayNumber(t) <= BeforeYear(y + 1)
      /\ 0 <= t.sec /\ t.sec <= z
  BY DateParts, DayInYear, InSeconds
<1>2. /\ MonthLength(y, 1) = 31 /\ MonthLength(y, 12) = 31
      /\ BeforeMonth(y, 1) = 0 /\ BeforeMonth(y, 12) = 334 + LeapDay(y)
      /\ BeforeMonth(y + 1, 1) = 0 /\ MonthLength(y + 1, 1) = 31
  <2>1. y + 1 \in Int
    BY <1>1
  <2> QED
    BY <1>1, <2>1, MonthTable
<1>3. /\ BeforeYear(y) \in Int /\ BeforeYear(y + 1) = BeforeYear(y) + 365 + LeapDay(y) /\ LeapDay(y) \in {0, 1}
  BY <1>1, YearLength, LeapDayIs
<1>3a. start = Date(y, 1, 1, 0) /\ end = Date(y, 12, 31, z)
  BY DEF StartOfYear, EndOfYear
<1> HIDE DEF start, end, y, z
<1>4. /\ start = [year |-> y, month |-> 1, day |-> 1, sec |-> 0] /\ start \in Dates
      /\ end = [year |-> y, month |-> 12, day |-> 31, sec |-> z] /\ end \in Dates
  <2>1. /\ 1 \in 1..12 /\ 12 \in 1..12 /\ 1 \in Nat /\ 1 > 0 /\ 31 \in Nat /\ 31 > 0
        /\ 1 <= MonthLength(y, 1) /\ 31 <= MonthLength(y, 12)
    BY <1>2
  <2>2. y \in Int
    BY <1>1
  <2>3. Date(y, 1, 1, 0) = [year |-> y, month |-> 1, day |-> 1, sec |-> 0] /\ [year |-> y, month |-> 1, day |-> 1, sec |-> 0] \in Dates
    BY <1>0, <2>1, <2>2, DateOfYear
  <2>4. Date(y, 12, 31, z) = [year |-> y, month |-> 12, day |-> 31, sec |-> z] /\ [year |-> y, month |-> 12, day |-> 31, sec |-> z] \in Dates
    BY <1>0, <2>1, <2>2, DateOfYear
  <2> QED
    BY <1>3a, <2>3, <2>4
<1>5. /\ start.year = y /\ start.month = 1 /\ start.day = 1 /\ start.sec = 0
      /\ end.year = y /\ end.month = 12 /\ end.day = 31 /\ end.sec = z
  BY <1>4
<1>6. DayNumber(start) = BeforeYear(y) + 1 /\ DayNumber(end) = BeforeYear(y + 1)
  BY <1>1, <1>2, <1>3, <1>5 DEF DayNumber
<1>7. next \in Dates /\ next.sec = 0 /\ DayNumber(next) = DayNumber(end) + 1
  BY <1>4, <1>5, SecondLater DEF z
<1>8. StartOfYear(end) = start
  BY <1>3a, <1>5 DEF StartOfYear
<1>9. StartOfYear(next) = next
  <2> HIDE DEF next
  <2> DEFINE u == [year |-> y + 1, month |-> 1, day |-> 1, sec |-> 0]
  <2>1. y + 1 \in Int
    BY <1>1
  <2>2. u \in Dates /\ Date(y + 1, 1, 1, 0) = u
    BY <1>0, <1>2, <2>1, DateOfYear
  <2>3. u.year = y + 1 /\ u.month = 1 /\ u.day = 1 /\ u.sec = 0
    OBVIOUS
  <2> HIDE DEF u
  <2>4. DayNumber(u) = BeforeYear(y + 1) + 1
    BY <1>2, <1>3, <2>3 DEF DayNumber
  <2>5. u = next
    BY <1>6, <1>7, <2>2, <2>3, <2>4, SameDate
  <2> QED
    BY <2>2, <2>3, <2>5 DEF StartOfYear
<1>10. ~Before(t, start)
  <2>1. DayNumber(start) < DayNumber(t) \/ (DayNumber(t) = DayNumber(start) /\ start.sec <= t.sec)
    <3> HIDE DEF next
    <3>1. BeforeYear(y) + 1 < DayNumber(t) \/ DayNumber(t) = BeforeYear(y) + 1
      BY <1>1, <1>3
    <3>2. DayNumber(t) < BeforeYear(y + 1) \/ DayNumber(t) = BeforeYear(y + 1)
      BY <1>1, <1>3
    <3> QED
      BY <1>1, <1>5, <1>6, <3>1, <3>2
  <2> QED
    BY <1>4, <2>1, NotBefore
<1>11. ~Before(end, t)
  <2>1. DayNumber(t) < DayNumber(end) \/ (DayNumber(end) = DayNumber(t) /\ t.sec <= end.sec)
    <3> HIDE DEF next
    <3>1. BeforeYear(y) + 1 < DayNumber(t) \/ DayNumber(t) = BeforeYear(y) + 1
      BY <1>1, <1>3
    <3>2. DayNumber(t) < BeforeYear(y + 1) \/ DayNumber(t) = BeforeYear(y + 1)
      BY <1>1, <1>3
    <3> QED
      BY <1>1, <1>5, <1>6, <3>1, <3>2
  <2> QED
    BY <1>4, <2>1, NotBefore
<1> QED
  BY <1>4, <1>8, <1>9, <1>10, <1>11 DEF Encloses, start, end

\* AddDate by days, from a day of the month of t.
LEMMA DaysLater ==
    ASSUME NEW t \in Dates, NEW s \in Seconds, NEW k \in Int
    PROVE  LET u == AddDate(Date(t.year, t.month, t.day, s), 0, 0, k)
           IN  u \in Dates /\ DayNumber(u) = DayNumber(t) + k /\ u.sec = s
<1> DEFINE u == AddDate(Date(t.year, t.month, t.day, s), 0, 0, k)
<1>1. t.day \in Nat /\ t.day > 0 /\ t.day <= LengthOf(t) /\ t.year \in Int /\ t.month \in Int /\ DayNumber(t) \in Int
  BY DateParts, DayInYear DEF LengthOf, MonthLength
<1>2. Date(t.year, t.month, t.day, s) = [year |-> t.year, month |-> t.month, day |-> t.day, sec |-> s]
  BY <1>1, DateOfMonth
<1>3. u = Date(t.year + 0, t.month + 0, t.day + k, s)
  BY <1>2 DEF AddDate
<1>4. t.year + 0 = t.year /\ t.month + 0 = t.month /\ t.day + k \in Int /\ s \in Int /\ s \div SecondsPerDay = 0 /\ (s % SecondsPerDay) = s
  BY <1>1, WithinDay
<1>5. u = Date(t.year, t.month, t.day + k, s)
  BY <1>3, <1>4
<1> HIDE DEF u
<1>6. u \in Dates /\ DayNumber(u) = DayNumber(t) - t.day + (t.day + k) + s \div SecondsPerDay /\ u.sec = (s % SecondsPerDay)
  BY <1>4, <1>5, DateShifted
<1>7. DayNumber(u) = DayNumber(t) + k /\ u.sec = s
  BY <1>1, <1>4, <1>6
<1> QED
  BY <1>6, <1>7 DEF u

\* The number of the day in its week, Monday's is 1.
WeekdayOf(t) == IF Weekday(t) = 0 THEN 7 ELSE Weekday(t)

\* The week of a date, from its Monday to its Sunday (StartOfWeek, EndOfWeek).
LEMMA WeekIs ==
    ASSUME NEW t \in Dates
    PROVE  /\ WeekdayOf(t) \in 1..7
           /\ StartOfWeek(t) \in Dates /\ StartOfWeek(t).sec = 0
           /\ DayNumber(StartOfWeek(t)) = DayNumber(t) + (1 - WeekdayOf(t))
           /\ EndOfWeek(t) \in Dates /\ EndOfWeek(t).sec = SecondsPerDay - 1
           /\ DayNumber(EndOfWeek(t)) = DayNumber(t) + (7 - WeekdayOf(t))
<1>1. DayNumber(t) \in Int
  BY DayInYear
<1>2. WeekdayOf(t) \in 1..7
  <2> DEFINE n == DayNumber(t)
             r == n % 7
  <2>1. n \in Int /\ 7 \in Nat \ {0} /\ 7 - 1 = 6
    BY <1>1
  <2>2. r \in 0..6 /\ Weekday(t) = r
    <3> HIDE DEF n
    <3>1. (n % 7) \in 0..6
      BY <2>1, DivMod
    <3> QED
      BY <3>1 DEF n, Weekday
  <2> HIDE DEF r
  <2> QED
    BY <2>2 DEF WeekdayOf
<1>3. 1 - WeekdayOf(t) \in Int /\ 7 - WeekdayOf(t) \in Int
  BY <1>2
<1>4. StartOfWeek(t) = AddDate(Date(t.year, t.month, t.day, 0), 0, 0, 1 - WeekdayOf(t))
  BY DEF StartOfWeek, WeekdayOf
<1>5. EndOfWeek(t) = AddDate(Date(t.year, t.month, t.day, SecondsPerDay - 1), 0, 0, 7 - WeekdayOf(t))
  BY DEF EndOfWeek, WeekdayOf
<1>6. 0 \in Seconds /\ SecondsPerDay - 1 \in Seconds
  BY DayLength, InSeconds
<1>7. /\ StartOfWeek(t) \in Dates /\ StartOfWeek(t).sec = 0
      /\ DayNumber(StartOfWeek(t)) = DayNumber(t) + (1 - WeekdayOf(t))
  <2> DEFINE k == 1 - WeekdayOf(t)
             u == StartOfWeek(t)
  <2>1. k \in Int /\ 0 \in Seconds /\ u = AddDate(Date(t.year, t.month, t.day, 0), 0, 0, k)
    BY <1>3, <1>4, <1>6
  <2> HIDE DEF k, u
  <2>2. u \in Dates /\ DayNumber(u) = DayNumber(t) + k /\ u.sec = 0
    BY <2>1, DaysLater
  <2> QED
    BY <2>2 DEF k, u
<1>8. /\ EndOfWeek(t) \in Dates /\ EndOfWeek(t).sec = SecondsPerDay - 1
      /\ DayNumber(EndOfWeek(t)) = DayNumber(t) + (7 - WeekdayOf(t))
  <2> DEFINE k == 7 - WeekdayOf(t)
             z == SecondsPerDay - 1
             u == EndOfWeek(t)
  <2>1. k \in Int /\ z \in Seconds /\ u = AddDate(Date(t.year, t.month, t.day, z), 0, 0, k)
    BY <1>3, <1>5, <1>6
  <2> HIDE DEF k, u, z
  <2>2. u \in Dates /\ DayNumber(u) = DayNumber(t) + k /\ u.sec = z
    BY <2>1, DaysLater
  <2> QED
    BY <2>2 DEF k, u, z
<1> QED
  BY <1>2, <1>7, <1>8

\* Weeks are seven days long, wherever they begin.
LEMMA WeekdayMoves ==
    ASSUME NEW s \in Dates, NEW t \in Dates, NEW k \in 1..7,
           DayNumber(s) = DayNumber(t) + (k - WeekdayOf(t))
    PROVE  WeekdayOf(s) = k
<1>1. DayNumber(s) \in Int /\ DayNumber(t) \in Int
  BY DayInYear
<1> DEFINE n == DayNumber(t)
           q == n \div 7
           r == n % 7
<1>2. n \in Int /\ q \in Int /\ r \in 0..6 /\ n = 7 * q + r /\ Weekday(t) = r
  <2>1. n \in Int /\ 7 \in Nat \ {0} /\ 7 - 1 = 6 /\ Weekday(t) = r
    BY <1>1 DEF Weekday
  <2> HIDE DEF n
  <2>2. n \div 7 \in Int /\ (n % 7) \in 0..6 /\ n = 7 * (n \div 7) + (n % 7)
    BY <2>1, DivMod
  <2> QED
    BY <2>1, <2>2
<1> HIDE DEF n, q, r
<1>3. DayNumber(s) = (IF r = 0 THEN 7 * (q - 1) + k ELSE 7 * q + k)
  BY <1>1, <1>2 DEF WeekdayOf, n
<1>4. \E p \in Int : DayNumber(s) = 7 * p + k
  <2>1. q \in Int /\ q - 1 \in Int
    BY <1>2
  <2> QED
    BY <1>3, <2>1
<1>5. PICK p \in Int : DayNumber(s) = 7 * p + k
  BY <1>4
<1>6. CASE k = 7
  <2>1. DayNumber(s) = 7 * (p + 1) + 0 /\ p + 1 \in Int
    BY <1>5, <1>6
  <2>2. Weekday(s) = 0
    BY <1>1, <2>1, DivUnique DEF Weekday
  <2> QED
    BY <1>6, <2>2 DEF WeekdayOf
<1>7. CASE k # 7
  <2>1. k \in Int /\ 0 <= k /\ k < 7 /\ k # 0
    BY <1>7
  <2>2. Weekday(s) = k
    BY <1>1, <1>5, <2>1, DivUnique DEF Weekday
  <2> QED
    BY <2>1, <2>2 DEF WeekdayOf
<1> QED
  BY <1>6, <1>7

\* The week (StartOfWeek, EndOfWeek).
LEMMA WeekEncloses ==
    ASSUME NEW t \in Dates
    PROVE  Encloses(t, StartOfWeek(t), EndOfWeek(t), StartOfWeek(EndOfWeek(t)), StartOfWeek(Add(EndOfWeek(t), 1)))
<1> DEFINE start == StartOfWeek(t)
           end == EndOfWeek(t)
           next == Add(end, 1)
           w == WeekdayOf(t)
           back == StartOfWeek(end)
<1>1. /\ w \in 1..7 /\ start \in Dates /\ start.sec = 0 /\ end \in Dates /\ end.sec = SecondsPerDay - 1
      /\ DayNumber(start) = DayNumber(t) + (1 - w) /\ DayNumber(end) = DayNumber(t) + (7 - w)
      /\ DayNumber(t) \in Int /\ t.sec \in Seconds
  BY WeekIs, DayInYear, DateParts
<1> HIDE DEF start, end
<1>2. next \in Dates /\ next.sec = 0 /\ DayNumber(next) = DayNumber(end) + 1
  BY <1>1, SecondLater
<1>3. WeekdayOf(end) = 7
  <2>1. 7 \in 1..7 /\ DayNumber(end) = DayNumber(t) + (7 - WeekdayOf(t))
    BY <1>1
  <2> QED
    BY <1>1, <2>1, WeekdayMoves
<1>4. back = start
  <2>1. back \in Dates /\ back.sec = 0 /\ DayNumber(back) = DayNumber(end) + (1 - 7)
    BY <1>1, <1>3, WeekIs
  <2> HIDE DEF back, w
  <2>2. DayNumber(back) = DayNumber(start)
    BY <1>1, <2>1
  <2> QED
    BY <1>1, <2>1, <2>2, SameDate
<1>5. WeekdayOf(next) = 1
  <2> HIDE DEF next, w
  <2> DEFINE s == start
  <2>1. WeekdayOf(start) = 1
    <3>1. 1 \in 1..7 /\ DayNumber(start) = DayNumber(t) + (1 - WeekdayOf(t))
      BY <1>1 DEF w
    <3> QED
      BY <1>1, <3>1, WeekdayMoves
  <2>2. DayNumber(next) = DayNumber(start) + 7 /\ DayNumber(start) \in Int /\ DayNumber(next) \in Int
    BY <1>1, <1>2
  <2>3. Weekday(next) = Weekday(start)
    <3>1. DayNumber(next) = 7 * 1 + DayNumber(start) /\ 1 \in Int
      BY <2>2
    <3> QED
      BY <2>2, <3>1, DivPast DEF Weekday
  <2> QED
    BY <2>1, <2>3 DEF WeekdayOf
<1>6. StartOfWeek(next) = next
  <2> HIDE DEF next
  <2> DEFINE u == StartOfWeek(next)
  <2>1. u \in Dates /\ u.sec = 0 /\ DayNumber(u) = DayNumber(next) + (1 - 1) /\ DayNumber(next) \in Int
    BY <1>2, <1>5, WeekIs, DayInYear
  <2> HIDE DEF u
  <2>2. DayNumber(u) = DayNumber(next)
    BY <2>1
  <2>3. u = next
    BY <1>2, <2>1, <2>2, SameDate
  <2> QED
    BY <2>3 DEF u
<1>7. ~Before(t, start)
  <2> HIDE DEF w, next, back
  <2>1. DayNumber(start) < DayNumber(t) \/ (DayNumber(t) = DayNumber(start) /\ start.sec <= t.sec)
    BY <1>1, InSeconds
  <2> QED
    BY <1>1, <2>1, NotBefore
<1>8. ~Before(end, t)
  <2> HIDE DEF w, next, back
  <2>1. DayNumber(t) < DayNumber(end) \/ (DayNumber(end) = DayNumber(t) /\ t.sec <= end.sec)
    BY <1>1, InSeconds
  <2> QED
    BY <1>1, <2>1, NotBefore
<1> QED
  BY <1>1, <1>4, <1>6, <1>7, <1>8 DEF Encloses, start, end

\* A multiple grows with its factor.
LEMMA TimesGrows == \A p \in Nat, a, b \in Int : a <= b => p * a <= p * b
<1> SUFFICES ASSUME NEW p \in Nat, NEW a \in Int, NEW b \in Int, a <= b PROVE p * a <= p * b
  OBVIOUS
<1> DEFINE c == b - a
<1>1. c \in Nat /\ b = a + c
  OBVIOUS
<1> HIDE DEF c
<1>2. p * c >= 0 /\ p * c \in Int /\ p * a \in Int
  BY <1>1
<1>3. p * b = p * a + p * c
  BY <1>1
<1> QED
  BY <1>2, <1>3

\* The second at which a part of the day, p seconds long, begins, and its last one.
FirstSecond(t, p) == [t EXCEPT !.sec = @ - (@ % p)]
LastSecond(t, p) == [t EXCEPT !.sec = @ - (@ % p) + (p - 1)]

\* A part that divides the day begins and ends within it.
LEMMA PartIs ==
    ASSUME NEW t \in Dates, NEW p \in Nat \ {0}, NEW n \in Nat, SecondsPerDay = p * n
    PROVE  \E q \in Int :
              /\ p * q \in Seconds /\ p * q + (p - 1) \in Seconds /\ p * q <= t.sec /\ t.sec <= p * q + (p - 1)
              /\ FirstSecond(t, p) = [year |-> t.year, month |-> t.month, day |-> t.day, sec |-> p * q]
              /\ LastSecond(t, p) = [year |-> t.year, month |-> t.month, day |-> t.day, sec |-> p * q + (p - 1)]
<1> DEFINE s == t.sec
           q == s \div p
           r == s % p
<1>1. s \in Int /\ 0 <= s /\ s <= SecondsPerDay - 1
  BY DateParts, InSeconds
<1>2. t = [year |-> t.year, month |-> t.month, day |-> t.day, sec |-> s]
  BY DateParts
<1>3. FirstSecond(t, p) = [t EXCEPT !.sec = s - r] /\ LastSecond(t, p) = [t EXCEPT !.sec = s - r + (p - 1)]
  BY DEF FirstSecond, LastSecond
<1> HIDE DEF s
<1>4. q \in Int /\ r \in 0..p - 1 /\ s = p * q + r
  BY <1>1, DivMod
<1> HIDE DEF q, r
<1> DEFINE a == p * q
           z == SecondsPerDay
<1>5. a \in Int /\ z \in Int /\ s = a + r
  BY <1>4, DayLength
<1>6. q >= 0
  <2>1. q <= -1 => a <= p * (-1)
    <3>1. -1 \in Int
      OBVIOUS
    <3> QED
      BY <1>4, <3>1, TimesGrows
  <2>2. p * (-1) = -p
    OBVIOUS
  <2> HIDE DEF a
  <2> QED
    BY <1>1, <1>4, <1>5, <2>1, <2>2
<1>7. q < n
  <2>1. n <= q => p * n <= a
    BY <1>4, TimesGrows
  <2> HIDE DEF a
  <2> QED
    BY <1>1, <1>4, <1>5, <2>1
<1>8. a >= 0
  <2>1. 0 \in Int /\ p * 0 = 0
    OBVIOUS
  <2> QED
    BY <1>4, <1>6, <2>1, TimesGrows
<1>9. a + p <= z
  <2>1. q + 1 <= n /\ q + 1 \in Int
    BY <1>4, <1>7
  <2>2. p * (q + 1) <= p * n
    BY <2>1, TimesGrows
  <2>3. p * (q + 1) = a + p
    BY <1>4
  <2> HIDE DEF a
  <2> QED
    BY <1>5, <2>2, <2>3
<1> HIDE DEF a
<1>10. a <= z - 1 /\ 0 <= a + (p - 1) /\ a + (p - 1) <= z - 1 /\ a + (p - 1) \in Int /\ a <= s /\ s <= a + (p - 1) /\ s - r = a
  BY <1>4, <1>5, <1>8, <1>9
<1>11. a \in Seconds /\ a + (p - 1) \in Seconds
  BY <1>5, <1>8, <1>10, InSeconds
<1>12. /\ FirstSecond(t, p) = [year |-> t.year, month |-> t.month, day |-> t.day, sec |-> a]
       /\ LastSecond(t, p) = [year |-> t.year, month |-> t.month, day |-> t.day, sec |-> a + (p - 1)]
  BY <1>2, <1>3, <1>10
<1>13. a <= t.sec /\ t.sec <= a + (p - 1)
  BY <1>10 DEF s
<1>14. /\ p * q \in Seconds /\ p * q + (p - 1) \in Seconds /\ p * q <= t.sec /\ t.sec <= p * q + (p - 1)
       /\ FirstSecond(t, p) = [year |-> t.year, month |-> t.month, day |-> t.day, sec |-> p * q]
       /\ LastSecond(t, p) = [year |-> t.year, month |-> t.month, day |-> t.day, sec |-> p * q + (p - 1)]
  BY <1>11, <1>12, <1>13 DEF a
<1> QED
  BY <1>4, <1>14

\* At a multiple of its length a part begins.
LEMMA PartBegins ==
    ASSUME NEW t \in Dates, NEW p \in Nat \ {0}, NEW k \in Int, t.sec = p * k
    PROVE  FirstSecond(t, p) = t
<1> DEFINE s == t.sec
<1>1. s \in Int /\ t = [year |-> t.year, month |-> t.month, day |-> t.day, sec |-> s]
  BY DateParts, InSeconds
<1>2. FirstSecond(t, p) = [t EXCEPT !.sec = s - (s % p)]
  BY DEF FirstSecond
<1>3. s = p * k + 0
  BY <1>1
<1> HIDE DEF s
<1>4. 0 = (s % p)
  <2>1. 0 <= 0 /\ 0 < p /\ 0 \in Int
    OBVIOUS
  <2> QED
    BY <1>1, <1>3, <2>1, DivUnique
<1>5. s - (s % p) = s
  BY <1>1, <1>4
<1> QED
  BY <1>1, <1>2, <1>5

\* The parts of the day that divide it (StartOfHour, EndOfHour, StartOfMinute, EndOfMinute).
LEMMA PartOfDay ==
    ASSUME NEW t \in Dates, NEW p \in Nat \ {0}, NEW n \in Nat, SecondsPerDay = p * n
    PROVE  Encloses(t, FirstSecond(t, p), LastSecond(t, p), FirstSecond(LastSecond(t, p), p),
                    FirstSecond(Add(LastSecond(t, p), 1), p))
<1> DEFINE start == FirstSecond(t, p)
           end == LastSecond(t, p)
           next == Add(end, 1)
<1>1. PICK q \in Int :
              /\ p * q \in Seconds /\ p * q + (p - 1) \in Seconds /\ p * q <= t.sec /\ t.sec <= p * q + (p - 1)
              /\ start = [year |-> t.year, month |-> t.month, day |-> t.day, sec |-> p * q]
              /\ end = [year |-> t.year, month |-> t.month, day |-> t.day, sec |-> p * q + (p - 1)]
  BY PartIs
<1> HIDE DEF start, end
<1> DEFINE a == p * q
           b == a + (p - 1)
           z == SecondsPerDay
<1>2. a \in Seconds /\ b \in Seconds /\ a <= t.sec /\ t.sec <= b
  BY <1>1
<1>3. /\ start = [year |-> t.year, month |-> t.month, day |-> t.day, sec |-> a]
      /\ end = [year |-> t.year, month |-> t.month, day |-> t.day, sec |-> b]
  BY <1>1
<1>3a. a \in Int /\ b \in Int /\ 0 <= b /\ b <= z - 1 /\ z \in Nat \ {0}
  BY <1>2, InSeconds, DayLength
<1>4. /\ t.year \in Int /\ t.month \in 1..12 /\ t.day \in Nat /\ t.day > 0 /\ t.day <= MonthLength(t.year, t.month)
  BY DateParts
<1> HIDE DEF b
<1>5. start \in Dates /\ end \in Dates
  <2> HIDE DEF a
  <2> QED
    BY <1>2, <1>3, <1>4, IsDate
<1>6. start.sec = a /\ end.sec = b /\ DayNumber(start) = DayNumber(t) /\ DayNumber(end) = DayNumber(t)
  BY <1>3 DEF DayNumber
<1>7. FirstSecond(end, p) = start
  <2> DEFINE e == end.sec
             r == p - 1
  <2>1. e = p * q + r /\ e \in Int /\ 0 <= r /\ r < p /\ r \in Int
    BY <1>3a, <1>6 DEF b
  <2>2. FirstSecond(end, p) = [end EXCEPT !.sec = e - (e % p)]
    BY DEF FirstSecond
  <2> HIDE DEF e, r
  <2>3. r = (e % p)
    BY <2>1, DivUnique
  <2>4. e - r = a
    BY <1>3a, <2>1
  <2>5. e - (e % p) = a
    BY <2>3, <2>4
  <2> HIDE DEF a
  <2> QED
    BY <1>3, <2>2, <2>5
<1>8. next \in Dates /\ next.sec = ((b + 1) % SecondsPerDay)
  BY <1>5, <1>6, SecondLater
<1>9. FirstSecond(next, p) = next
  <2> HIDE DEF next
  <2>1. b + 1 = p * (q + 1) /\ q + 1 \in Int
    BY <1>3a DEF b
  <2>2. CASE b = z - 1
    <3> DEFINE c == b + 1
    <3>1. c = SecondsPerDay * 1 + 0 /\ c \in Int /\ 0 <= 0 /\ 0 < SecondsPerDay /\ SecondsPerDay \in Nat \ {0}
      BY <1>3a, <2>2
    <3> HIDE DEF c
    <3>2. 0 = (c % SecondsPerDay)
      BY <3>1, DivUnique
    <3>3. next.sec = p * 0 /\ 0 \in Int
      BY <1>8, <3>2 DEF c
    <3> QED
      BY <1>8, <3>3, PartBegins
  <2>3. CASE b # z - 1
    <3> DEFINE c == b + 1
    <3>1. c \in Int /\ 0 <= c /\ c <= SecondsPerDay - 1
      BY <1>3a, <2>3
    <3> HIDE DEF c
    <3>2. c \in Seconds
      BY <3>1, InSeconds
    <3>3. (c % SecondsPerDay) = c
      BY <3>2, WithinDay
    <3>4. next.sec = p * (q + 1)
      BY <1>8, <2>1, <3>3 DEF c
    <3> QED
      BY <1>8, <2>1, <3>4, PartBegins
  <2> QED
    BY <2>2, <2>3
<1>10. ~Before(t, start) /\ ~Before(end, t)
  <2> HIDE DEF a, next
  <2>1. start.sec <= t.sec /\ t.sec <= end.sec /\ DayNumber(t) = DayNumber(start) /\ DayNumber(end) = DayNumber(t)
    BY <1>2, <1>6
  <2> QED
    BY <1>5, <2>1, NotBefore
<1> QED
  BY <1>5, <1>7, <1>9, <1>10 DEF Encloses, start, end

\* A day has as many seconds as its hours and its minutes.
LEMMA DayParts == SecondsPerDay = 3600 * 24 /\ SecondsPerDay = 60 * 1440
BY DEF SecondsPerDay

\* A quotient rounds towards zero, and one of a quotient is a quotient by the product (time_diff.go).
LEMMA QuotientIs == \A a, q, r \in Int, b \in Nat \ {0} : 0 <= r /\ r < b /\ 0 <= q /\ a = b * q + r => Quotient(a, b) = q
<1> SUFFICES ASSUME NEW a \in Int, NEW q \in Int, NEW r \in Int, NEW b \in Nat \ {0},
                    0 <= r, r < b, 0 <= q, a = b * q + r
             PROVE  Quotient(a, b) = q
  OBVIOUS
<1>1. q = a \div b
  BY DivUnique
<1>2. b * q >= 0
  <2>1. 0 \in Int /\ b * 0 = 0
    OBVIOUS
  <2> QED
    BY <2>1, TimesGrows
<1>3. ~(a < 0)
  <2> DEFINE c == b * q
  <2>1. c \in Int /\ c >= 0 /\ a = c + r
    BY <1>2
  <2> HIDE DEF c
  <2> QED
    BY <2>1
<1> QED
  BY <1>1, <1>3 DEF Quotient

\* Dividing by one number and then by another divides by their product,
LEMMA DivTwice == \A a \in Int, b, c \in Nat \ {0} : b * c \in Nat \ {0} /\ (a \div b) \div c = a \div (c * b)
<1> SUFFICES ASSUME NEW a \in Int, NEW b \in Nat \ {0}, NEW c \in Nat \ {0}
             PROVE  b * c \in Nat \ {0} /\ (a \div b) \div c = a \div (c * b)
  OBVIOUS
<1> DEFINE q == a \div b
           r == a % b
           p == q \div c
           s == q % c
           e == c * b
<1>1. q \in Int /\ r \in 0..b - 1 /\ a = b * q + r
  BY DivMod
<1> HIDE DEF q, r
<1>2. p \in Int /\ s \in 0..c - 1 /\ q = c * p + s
  BY <1>1, DivMod
<1> HIDE DEF p, s
<1>3. b * s \in Int /\ 0 <= b * s /\ b * s <= b * (c - 1)
  <2>1. 0 \in Int /\ s \in Int /\ c - 1 \in Int /\ 0 <= s /\ s <= c - 1 /\ b * 0 = 0 /\ b \in Nat
    BY <1>2
  <2> QED
    BY <2>1, TimesGrows
<1>4. b * (c - 1) = e - b /\ e \in Int /\ e = b * c
  OBVIOUS
<1>5. a = e * p + (b * s + r)
  <2>1. b * (c * p + s) = (b * c) * p + b * s
    BY <1>1, <1>2
  <2> QED
    BY <1>1, <1>2, <1>4, <2>1
<1> DEFINE z == b * s + r
<1>6. z \in Int /\ 0 <= z /\ z < e
  <2> DEFINE x == b * s
  <2>1. x \in Int /\ 0 <= x /\ x <= e - b
    BY <1>3, <1>4
  <2> HIDE DEF x, e
  <2>2. x + r \in Int /\ 0 <= x + r /\ x + r < e
    BY <1>1, <1>4, <2>1
  <2> QED
    BY <2>2 DEF x
<1>7. a = e * p + z /\ e \in Nat \ {0}
  <2> HIDE DEF z
  <2>1. e > 0
    BY <1>4, <1>6
  <2> QED
    BY <1>4, <1>5, <2>1 DEF z
<1> HIDE DEF e, z
<1>8. p = a \div e
  BY <1>2, <1>6, <1>7, DivUnique
<1> QED
  BY <1>4, <1>7, <1>8 DEF p, q, e

\* also where the quotient is cut off at zero (DiffInWeeks divides what DiffInDays does).
LEMMA QuotientTwice == \A a \in Int, b, c \in Nat \ {0} : Quotient(Quotient(a, b), c) = Quotient(a, c * b)
<1> SUFFICES ASSUME NEW a \in Int, NEW b \in Nat \ {0}, NEW c \in Nat \ {0}
             PROVE  Quotient(Quotient(a, b), c) = Quotient(a, c * b)
  OBVIOUS
<1>1. CASE a >= 0
  <2> DEFINE q == a \div b
  <2>1. q \in Int /\ q >= 0
    <3> DEFINE r == a % b
    <3>1. q \in Int /\ r \in 0..b - 1 /\ a = b * q + r
      BY DivMod
    <3> HIDE DEF q, r
    <3>2. q <= -1 => b * q <= b * (-1)
      <4>1. -1 \in Int /\ b \in Nat
        OBVIOUS
      <4> QED
        BY <3>1, <4>1, TimesGrows
    <3> DEFINE x == b * q
    <3>3. x \in Int /\ a = x + r /\ (q <= -1 => x <= -b)
      BY <3>1, <3>2
    <3> HIDE DEF x
    <3> QED
      BY <1>1, <3>1, <3>3
  <2>2. Quotient(a, b) = q /\ Quotient(a, c * b) = a \div (c * b)
    BY <1>1 DEF Quotient
  <2>3. q \div c = a \div (c * b)
    BY DivTwice
  <2> HIDE DEF q
  <2>4. Quotient(q, c) = q \div c
    BY <2>1 DEF Quotient
  <2> QED
    BY <2>2, <2>3, <2>4
<1>2. CASE a < 0
  <2> DEFINE n == -a
             q == n \div b
  <2>0. n \in Int /\ n > 0
    BY <1>2
  <2>1. q \in Int /\ q >= 0
    <3> HIDE DEF n
    <3> DEFINE r == n % b
    <3>1. q \in Int /\ r \in 0..b - 1 /\ n = b * q + r
      BY <2>0, DivMod
    <3> HIDE DEF q, r
    <3>2. q <= -1 => b * q <= b * (-1)
      <4>1. -1 \in Int /\ b \in Nat
        OBVIOUS
      <4> QED
        BY <3>1, <4>1, TimesGrows
    <3> DEFINE x == b * q
    <3>3. x \in Int /\ n = x + r /\ (q <= -1 => x <= -b)
      BY <3>1, <3>2
    <3> HIDE DEF x
    <3> QED
      BY <2>0, <3>1, <3>3
  <2>2. Quotient(a, b) = -q /\ Quotient(a, c * b) = -(n \div (c * b))
    BY <1>2 DEF Quotient
  <2>3. q \div c = n \div (c * b)
    <3> HIDE DEF n
    <3>1. (n \div b) \div c = n \div (c * b)
      BY <2>0, DivTwice
    <3> QED
      BY <3>1
  <2> HIDE DEF q
  <2>4. Quotient(-q, c) = -(q \div c)
    <3>1. CASE q = 0
      <4>1. 0 = (q \div c)
        <5>1. q = c * 0 + 0 /\ 0 <= 0 /\ 0 < c /\ 0 \in Int /\ c \in Nat \ {0}
          BY <3>1
        <5> QED
          BY <2>1, <5>1, DivUnique
      <4>2. -q = q /\ ~(q < 0)
        <5>1. -q = 0 - q
          BY <2>1
        <5>2. 0 - q = q /\ ~(q < 0)
          BY <3>1
        <5> QED
          BY <5>1, <5>2
      <4>3. Quotient(q, c) = q \div c
        BY <4>2 DEF Quotient
      <4>4. -(q \div c) = q \div c
        <5> DEFINE x == q \div c
        <5>1. x = 0
          BY <4>1
        <5> HIDE DEF x
        <5>2. x \in Int => -x = 0 - x
          OBVIOUS
        <5>3. x \in Int /\ 0 - x = x
          BY <5>1
        <5> QED
          BY <5>2, <5>3 DEF x
      <4> QED
        BY <4>2, <4>3, <4>4, Zenon
    <3>2. CASE q # 0
      <4>1. -q < 0 /\ -(-q) = q
        BY <2>1, <3>2
      <4> QED
        BY <4>1 DEF Quotient
    <3> QED
      BY <3>1, <3>2
  <2> QED
    BY <2>2, <2>3, <2>4
<1> QED
  BY <1>1, <1>2

\* The rest of what CalendarAgrees says of one time: its parts agree with one another.
PartsAgree(t) ==
    ~IsZero(t) => /\ DayOfYear(t) \in 1..DaysInYear(t) /\ DaysInMonth(t) = LengthOf(t)
                  /\ DayOfWeek(t) = 1 + DiffInDays(StartOfWeek(t), t)
                  /\ t.month \in 3 * Quarter(t) - 2 .. 3 * Quarter(t)

\* The day of a year and the length of a month (DayOfYear, DaysInYear, DaysInMonth),
LEMMA YearParts ==
    ASSUME NEW t \in Dates, ~IsZero(t)
    PROVE  DayOfYear(t) \in 1..DaysInYear(t) /\ DaysInMonth(t) = LengthOf(t)
<1> DEFINE y == t.year
           n == DayNumber(t)
<1>1. y \in Int /\ n \in Int /\ BeforeYear(y) < n /\ n <= BeforeYear(y + 1)
  BY DateParts, DayInYear
<1>2. BeforeYear(y) \in Int /\ BeforeYear(y + 1) = BeforeYear(y) + 365 + LeapDay(y) /\ LeapDay(y) \in {0, 1}
  BY <1>1, YearLength, LeapDayIs
<1>3. DayOfYear(t) = n - BeforeYear(y)
  BY DEF DayOfYear
<1>4. DaysInYear(t) = 365 + LeapDay(y)
  <2>1. DaysInYear(t) = IF Leap(y) THEN 366 ELSE 365
    BY DEF DaysInYear, IsLeapYear, Year
  <2> HIDE DEF y
  <2> QED
    BY <2>1 DEF LeapDay
<1> HIDE DEF y, n
<1>5. DayOfYear(t) \in 1..DaysInYear(t)
  BY <1>1, <1>2, <1>3, <1>4
<1>6. DaysInMonth(t) = LengthOf(t)
  BY MonthEncloses DEF DaysInMonth
<1> QED
  BY <1>5, <1>6

\* and the day of the week (DayOfWeek).
LEMMA WeekParts ==
    ASSUME NEW t \in Dates, ~IsZero(t)
    PROVE  DayOfWeek(t) = 1 + DiffInDays(StartOfWeek(t), t)
<1> DEFINE start == StartOfWeek(t)
           w == WeekdayOf(t)
           n == DayNumber(t)
           s == t.sec
           z == SecondsPerDay
           a == DiffInSeconds(start, t)
           d == w - 1
<1>1. w \in 1..7 /\ start.sec = 0 /\ DayNumber(start) = n + (1 - w) /\ n \in Int
  BY WeekIs, DayInYear
<1>2. s \in Int /\ 0 <= s /\ s < z /\ z \in Nat \ {0}
  BY DateParts, InSeconds, DayLength
<1>3. DayOfWeek(t) = w
  BY DEF DayOfWeek, WeekdayOf, DaysPerWeek
<1>4. a = (n - DayNumber(start)) * z + s - start.sec
  BY DEF DiffInSeconds
<1>5. DiffInDays(start, t) = Quotient(a, z)
  BY DEF DiffInDays
<1> HIDE DEF start, w, n, s, z, a
<1>6. n - DayNumber(start) = d /\ d \in Int /\ 0 <= d
  BY <1>1
<1>7. a = d * z + s - 0
  BY <1>1, <1>4, <1>6
<1> HIDE DEF d
<1>8. a = z * d + s /\ a \in Int
  BY <1>2, <1>6, <1>7
<1>9. Quotient(a, z) = d
  BY <1>2, <1>6, <1>8, QuotientIs
<1> QED
  BY <1>1, <1>3, <1>5, <1>9 DEF d, start

\* The parts of a time agree with one another.
LEMMA PartsTogether ==
    ASSUME NEW t \in Dates
    PROVE  PartsAgree(t)
<1> SUFFICES ASSUME ~IsZero(t)
             PROVE  t.month \in 3 * Quarter(t) - 2 .. 3 * Quarter(t)
  BY YearParts, WeekParts DEF PartsAgree
<1> DEFINE m == t.month
           q == Quarter(t)
<1>1. m \in 1..12
  BY DateParts
<1>2. q = IF m >= 10 THEN 4 ELSE IF m >= 7 THEN 3 ELSE IF m >= 4 THEN 2 ELSE IF m >= 1 THEN 1 ELSE 0
  BY DEF Quarter, Month
<1> HIDE DEF m, q
<1>3. m \in 3 * q - 2 .. 3 * q
  BY <1>1, <1>2
<1> QED
  BY <1>3 DEF m, q

\* Every period encloses every time.
PeriodsEnclose(t) ==
    /\ Encloses(t, StartOfYear(t), EndOfYear(t), StartOfYear(EndOfYear(t)), StartOfYear(Add(EndOfYear(t), 1)))
    /\ Encloses(t, StartOfMonth(t), EndOfMonth(t), StartOfMonth(EndOfMonth(t)), StartOfMonth(Add(EndOfMonth(t), 1)))
    /\ Encloses(t, StartOfWeek(t), EndOfWeek(t), StartOfWeek(EndOfWeek(t)), StartOfWeek(Add(EndOfWeek(t), 1)))
    /\ Encloses(t, StartOfDay(t), EndOfDay(t), StartOfDay(EndOfDay(t)), StartOfDay(Add(EndOfDay(t), 1)))
    /\ Encloses(t, StartOfHour(t), EndOfHour(t), StartOfHour(EndOfHour(t)), StartOfHour(Add(EndOfHour(t), 1)))
    /\ Encloses(t, StartOfMinute(t), EndOfMinute(t), StartOfMinute(EndOfMinute(t)), StartOfMinute(Add(EndOfMinute(t), 1)))

\* Years, months, weeks, days, hours and minutes do (StartOfYear to EndOfMinute).
LEMMA AllEnclose == \A t \in Dates : PeriodsEnclose(t)
<1> SUFFICES ASSUME NEW t \in Dates PROVE PeriodsEnclose(t)
  OBVIOUS
<1>1. Encloses(t, StartOfHour(t), EndOfHour(t), StartOfHour(EndOfHour(t)), StartOfHour(Add(EndOfHour(t), 1)))
  <2>1. \A u : FirstSecond(u, 3600) = StartOfHour(u) /\ LastSecond(u, 3600) = EndOfHour(u)
    <3> DEFINE e == 3600 - 1
    <3>1. e = 3599
      OBVIOUS
    <3>2. \A u : LastSecond(u, 3600) = [u EXCEPT !.sec = @ - (@ % 3600) + e]
      BY DEF LastSecond
    <3> HIDE DEF e
    <3>3. \A u : LastSecond(u, 3600) = EndOfHour(u)
      BY <3>1, <3>2 DEF EndOfHour
    <3>4. \A u : FirstSecond(u, 3600) = StartOfHour(u)
      BY DEF FirstSecond, StartOfHour
    <3> QED
      BY <3>3, <3>4
  <2>2. 3600 \in Nat \ {0} /\ 24 \in Nat /\ SecondsPerDay = 3600 * 24
    BY DayParts
  <2>3. Encloses(t, FirstSecond(t, 3600), LastSecond(t, 3600), FirstSecond(LastSecond(t, 3600), 3600),
                 FirstSecond(Add(LastSecond(t, 3600), 1), 3600))
    BY <2>2, PartOfDay
  <2> DEFINE end == EndOfHour(t)
             next == Add(end, 1)
  <2>4. FirstSecond(t, 3600) = StartOfHour(t) /\ LastSecond(t, 3600) = end
    BY <2>1
  <2>5. Encloses(t, StartOfHour(t), end, FirstSecond(end, 3600), FirstSecond(next, 3600))
    BY <2>3, <2>4
  <2> HIDE DEF end, next
  <2>6. FirstSecond(end, 3600) = StartOfHour(end) /\ FirstSecond(next, 3600) = StartOfHour(next)
    BY <2>1
  <2>7. Encloses(t, StartOfHour(t), end, StartOfHour(end), StartOfHour(next))
    BY <2>5, <2>6
  <2> QED
    BY <2>7 DEF end, next
<1>2. Encloses(t, StartOfMinute(t), EndOfMinute(t), StartOfMinute(EndOfMinute(t)), StartOfMinute(Add(EndOfMinute(t), 1)))
  <2>1. \A u : FirstSecond(u, 60) = StartOfMinute(u) /\ LastSecond(u, 60) = EndOfMinute(u)
    <3> DEFINE e == 60 - 1
    <3>1. e = 59
      OBVIOUS
    <3>2. \A u : LastSecond(u, 60) = [u EXCEPT !.sec = @ - (@ % 60) + e]
      BY DEF LastSecond
    <3> HIDE DEF e
    <3>3. \A u : LastSecond(u, 60) = EndOfMinute(u)
      BY <3>1, <3>2 DEF EndOfMinute
    <3>4. \A u : FirstSecond(u, 60) = StartOfMinute(u)
      BY DEF FirstSecond, StartOfMinute
    <3> QED
      BY <3>3, <3>4
  <2>2. 60 \in Nat \ {0} /\ 1440 \in Nat /\ SecondsPerDay = 60 * 1440
    BY DayParts
  <2>3. Encloses(t, FirstSecond(t, 60), LastSecond(t, 60), FirstSecond(LastSecond(t, 60), 60),
                 FirstSecond(Add(LastSecond(t, 60), 1), 60))
    BY <2>2, PartOfDay
  <2> DEFINE end == EndOfMinute(t)
             next == Add(end, 1)
  <2>4. FirstSecond(t, 60) = StartOfMinute(t) /\ LastSecond(t, 60) = end
    BY <2>1
  <2>5. Encloses(t, StartOfMinute(t), end, FirstSecond(end, 60), FirstSecond(next, 60))
    BY <2>3, <2>4
  <2> HIDE DEF end, next
  <2>6. FirstSecond(end, 60) = StartOfMinute(end) /\ FirstSecond(next, 60) = StartOfMinute(next)
    BY <2>1
  <2>7. Encloses(t, StartOfMinute(t), end, StartOfMinute(end), StartOfMinute(next))
    BY <2>5, <2>6
  <2> QED
    BY <2>7 DEF end, next
<1> QED
  BY <1>1, <1>2, YearEncloses, MonthEncloses, WeekEncloses, DayEncloses DEF PeriodsEnclose

\* What CalendarAgrees says of a time that travelled by weeks and less.
SecondsAgree(s, t, seconds) ==
    /\ DiffInSeconds(s, t) = seconds /\ DiffInMinutes(s, t) = Quotient(seconds, 60)
    /\ DiffInWeeks(s, t) = Quotient(seconds, 7 * SecondsPerDay)

\* The differences of two times are those of their seconds (DiffInSeconds, DiffInMinutes, DiffInWeeks).
LEMMA SecondsTogether ==
    ASSUME NEW s, NEW t, NEW x \in Int, DiffInSeconds(s, t) = x
    PROVE  SecondsAgree(s, t, x)
<1>1. DiffInMinutes(s, t) = Quotient(x, 60)
  BY DEF DiffInMinutes
<1>2. DiffInWeeks(s, t) = Quotient(Quotient(x, SecondsPerDay), 7)
  BY DEF DiffInWeeks, DiffInDays, DaysPerWeek
<1>3. SecondsPerDay \in Nat \ {0} /\ 7 \in Nat \ {0}
  BY DayLength
<1>4. Quotient(Quotient(x, SecondsPerDay), 7) = Quotient(x, 7 * SecondsPerDay)
  BY <1>3, QuotientTwice
<1> QED
  BY <1>1, <1>2, <1>4 DEF SecondsAgree

\* Add: the seconds that passed are the seconds added.
LEMMA AddIs ==
    ASSUME NEW t \in Dates, NEW x \in Int
    PROVE  Add(t, x) \in Dates /\ DiffInSeconds(t, Add(t, x)) = x
<1> DEFINE u == Add(t, x)
           a == t.sec + x
           z == SecondsPerDay
           q == a \div z
           r == a % z
           d == t.day
           n == DayNumber(t)
<1>1. a \in Int /\ d \in Int /\ n \in Int /\ t.sec \in Int
  BY DateParts, DayInYear, InSeconds
<1>2. u = Date(t.year, t.month, t.day, a)
  BY DEF Add
<1> HIDE DEF a, u
<1>3. u \in Dates /\ DayNumber(u) = n - d + d + q /\ u.sec = r
  BY <1>1, <1>2, DateShifted
<1>4. q \in Int /\ r \in Int /\ a = z * q + r
  <2>1. z \in Nat \ {0}
    BY DayLength
  <2> HIDE DEF z
  <2> QED
    BY <1>1, <2>1, DivMod
<1> HIDE DEF q, r
<1>5. DiffInSeconds(t, u) = (DayNumber(u) - n) * z + u.sec - t.sec
  BY DEF DiffInSeconds
<1>6. z \in Int
  BY DayLength
<1> HIDE DEF d, n, z
<1>7. DayNumber(u) - n = q
  BY <1>1, <1>3, <1>4
<1>8. DiffInSeconds(t, u) = z * q + r - t.sec
  <2>1. DiffInSeconds(t, u) = q * z + r - t.sec
    BY <1>3, <1>5, <1>7
  <2>2. q * z = z * q
    BY <1>4, <1>6
  <2> QED
    BY <2>1, <2>2
<1>9. DiffInSeconds(t, u) = a - t.sec
  BY <1>1, <1>4, <1>6, <1>8
<1>10. a - t.sec = x
  BY <1>1 DEF a
<1> QED
  BY <1>3, <1>9, <1>10 DEF u

\* AddDays: so many days have passed.
LEMMA AddDaysIs ==
    ASSUME NEW t \in Dates, NEW k \in Int
    PROVE  AddDays(t, k) \in Dates /\ DiffInSeconds(t, AddDays(t, k)) = k * SecondsPerDay
<1> DEFINE u == AddDays(t, k)
           z == SecondsPerDay
           n == DayNumber(t)
           s == t.sec
<1>1. /\ t.year \in Int /\ t.month \in Int /\ t.day \in Int /\ n \in Int /\ s \in Seconds /\ s \in Int
  BY DateParts, DayInYear, InSeconds
<1>2. u = AddDate(Date(t.year, t.month, t.day, s), 0, 0, k)
  <2>1. t.day \in Nat /\ t.day > 0 /\ t.day <= LengthOf(t)
    BY DateParts DEF LengthOf, MonthLength
  <2>2. Date(t.year, t.month, t.day, s) = [year |-> t.year, month |-> t.month, day |-> t.day, sec |-> s]
    BY <1>1, <2>1, DateOfMonth
  <2>3. t = [year |-> t.year, month |-> t.month, day |-> t.day, sec |-> s]
    BY DateParts
  <2> QED
    BY <2>2, <2>3 DEF AddDays
<1> HIDE DEF u, s
<1>3. u \in Dates /\ DayNumber(u) = n + k /\ u.sec = s
  BY <1>1, <1>2, DaysLater
<1>4. DiffInSeconds(t, u) = (DayNumber(u) - n) * z + u.sec - s
  BY DEF DiffInSeconds, s
<1>5. z \in Int
  BY DayLength
<1> HIDE DEF n, z
<1>6. DayNumber(u) - n = k
  BY <1>1, <1>3
<1>7. DiffInSeconds(t, u) = k * z + s - s
  BY <1>3, <1>4, <1>6
<1>8. DiffInSeconds(t, u) = k * z
  BY <1>1, <1>5, <1>7
<1> QED
  BY <1>3, <1>8 DEF u, z

\* What becomes of a time that travels by months.
Arrives(s, t, kind, months) ==
    LET i == MonthIndex(s) + months IN
    /\ t.sec = s.sec
    /\ s.day <= LengthAt(i) => MonthIndex(t) = i /\ t.day = s.day
    /\ s.day > LengthAt(i) => IF kind = "clip" THEN MonthIndex(t) = i /\ t.day = LengthAt(i)
                              ELSE MonthIndex(t) = i + 1 /\ t.day = s.day - LengthAt(i)

\* AddDate by months: the days a shorter month lacks are carried over.
LEMMA CarryIs ==
    ASSUME NEW t \in Dates, NEW y \in Int, NEW m \in Int, NEW n \in Int, Index(y, m) = MonthIndex(t) + n
    PROVE  LET u == Date(y, m, t.day, t.sec) IN u \in Dates /\ Arrives(t, u, "carry", n)
<1> DEFINE u == Date(y, m, t.day, t.sec)
           i == MonthIndex(t) + n
           d == t.day
           s == t.sec
           f == FirstOf(i)
           l == LengthAt(i)
<1>1. d \in 1..31 /\ d \in Int /\ s \in Int /\ s \in Seconds /\ s \div SecondsPerDay = 0 /\ (s % SecondsPerDay) = s
  BY DateParts, WithinDay
<1>2. i \in Int /\ i = Index(y, m)
  BY DateMonth
<1>3. u = Date(y, m, d, s)
  OBVIOUS
<1> HIDE DEF i, d, s, u
<1>4. f \in Int /\ l \in 28..31 /\ FirstOf(i + 1) = f + l /\ LengthAt(i + 1) \in 28..31 /\ FirstOf(i + 1) \in Int /\ i + 1 \in Int
  <2>1. i + 1 \in Int
    BY <1>2
  <2> QED
    BY <1>2, <2>1, MonthsFollow
<1>5. u \in Dates /\ DayNumber(u) = f + d + s \div SecondsPerDay /\ u.sec = (s % SecondsPerDay)
  BY <1>1, <1>2, <1>3, DateIs
<1>6. DayNumber(u) = f + d /\ u.sec = s
  <2> DEFINE q == s \div SecondsPerDay
             r == s % SecondsPerDay
  <2>1. q = 0 /\ r = s /\ DayNumber(u) = f + d + q /\ u.sec = r
    BY <1>1, <1>5
  <2> HIDE DEF q, r, f
  <2> QED
    BY <1>1, <1>4, <2>1
<1>7. ASSUME d <= l PROVE MonthIndex(u) = i /\ u.day = d
  <2> HIDE DEF f, l
  <2>1. f < DayNumber(u) /\ DayNumber(u) <= f + l /\ DayNumber(u) - f = d
    BY <1>1, <1>4, <1>6, <1>7
  <2> QED
    BY <1>2, <1>5, <2>1, InMonth DEF f, l
<1>8. ASSUME d > l PROVE MonthIndex(u) = i + 1 /\ u.day = d - l
  <2> DEFINE j == i + 1
             g == FirstOf(j)
  <2>0. g = f + l /\ LengthAt(j) \in 28..31 /\ j \in Int
    BY <1>4
  <2> HIDE DEF f, l, g, j
  <2>1. g < DayNumber(u) /\ DayNumber(u) <= g + LengthAt(j) /\ DayNumber(u) - g = d - l
    BY <1>1, <1>4, <1>6, <1>8, <2>0
  <2>2. MonthIndex(u) = j /\ u.day = DayNumber(u) - g
    BY <1>5, <2>0, <2>1, InMonth DEF g
  <2> QED
    BY <2>1, <2>2 DEF j
<1>9. Arrives(t, u, "carry", n)
  <2>1. "carry" # "clip"
    OBVIOUS
  <2> QED
    BY <1>6, <1>7, <1>8, <2>1 DEF Arrives, i, d, s
<1> QED
  BY <1>5, <1>9 DEF u

\* The NoOverflow forms stop at the last day of a shorter month.
LEMMA ClipIs ==
    ASSUME NEW t \in Dates, NEW y \in Int, NEW m \in Int
    PROVE  LET u == WithDay(t, AddDate(Date(y, m, 1, t.sec), 0, 1, -1)) IN
           /\ u \in Dates
           /\ ~IsZero(t) => \A n \in Int : Index(y, m) = MonthIndex(t) + n => Arrives(t, u, "clip", n)
<1> DEFINE last == AddDate(Date(y, m, 1, t.sec), 0, 1, -1)
           u == WithDay(t, last)
           i == Index(y, m)
           s == t.sec
           l == LengthAt(i)
           p == YearOf(i)
           q == MonthOf(i)
           d == IF Day(t) < last.day THEN Day(t) ELSE last.day
<1>1. s \in Seconds /\ s \in Int /\ t.day \in Nat /\ t.day > 0
  BY DateParts, InSeconds
<1>2. i \in Int
  BY DEF Index
<1>3. p \in Int /\ q \in 1..12 /\ l \in 28..31 /\ Index(p, q) = i
  BY <1>2, MonthsFollow DEF Index
<1>4. last = [year |-> p, month |-> q, day |-> l, sec |-> s]
  BY <1>1, <1>2, EndOfMonthIs
<1>4a. u = Date(last.year, last.month, d, s)
  BY DEF WithDay
<1> HIDE DEF last, u, i, s, l, p, q
<1>5. last.year = p /\ last.month = q /\ last.day = l
  BY <1>4
<1>6. Day(t) \in Int /\ (~IsZero(t) => Day(t) = t.day)
  BY <1>1 DEF Day
<1>7. d \in Int /\ d = IF Day(t) < l THEN Day(t) ELSE l
  BY <1>3, <1>5, <1>6
<1> HIDE DEF d
<1>8. u = Date(p, q, d, s) /\ q \in Int
  BY <1>3, <1>4a, <1>5
<1>9. u \in Dates
  BY <1>1, <1>2, <1>3, <1>7, <1>8, DateIs
<1>10. ASSUME ~IsZero(t), NEW n \in Int, i = MonthIndex(t) + n
       PROVE  Arrives(t, u, "clip", n)
  <2>1. d \in Nat /\ d > 0 /\ d <= l /\ d = IF t.day < l THEN t.day ELSE l
    BY <1>1, <1>3, <1>6, <1>7, <1>10
  <2>2. u = [year |-> YearOf(i), month |-> MonthOf(i), day |-> d, sec |-> s]
    BY <1>1, <1>2, <1>3, <1>8, <2>1, DateInMonth DEF l
  <2>3. u.day = d /\ u.sec = s /\ u.year = p /\ u.month = q
    BY <2>2 DEF p, q
  <2>4. MonthIndex(u) = i
    BY <1>3, <2>3 DEF MonthIndex, Index
  <2>5. t.day <= l => u.day = t.day
    BY <1>1, <1>3, <2>1, <2>3
  <2>6. t.day > l => u.day = l
    BY <1>1, <1>3, <2>1, <2>3
  <2> QED
    BY <1>10, <2>3, <2>4, <2>5, <2>6 DEF Arrives, l, s
<1> QED
  BY <1>9, <1>10 DEF u, last, i

\* What CalendarAgrees says of a time that travelled by months.
MonthsAgree(s, t, kind, months) ==
    LET target == Date(s.year, s.month + months, 1, s.sec)
        exists == s.day <= LengthOf(target) IN
    /\ exists => MonthIndex(t) = MonthIndex(s) + months /\ t.day = s.day
                 /\ (~IsZero(t) => /\ DiffInMonths(s, t) = months
                                   /\ DiffInYears(s, t) = Quotient(months, 12))
    /\ ~exists => IF kind = "clip"
                  THEN MonthIndex(t) = MonthIndex(target) /\ t.day = LengthOf(target)
                  ELSE MonthIndex(t) = MonthIndex(target) + 1 /\ t.day = s.day - LengthOf(target)
    /\ t.sec = s.sec

\* DiffInMonths of the same day of two months.
LEMMA DiffIs ==
    ASSUME NEW s \in Dates, NEW t \in Dates, NEW n \in Int, ~IsZero(s), ~IsZero(t),
           s.day = t.day, MonthIndex(t) = MonthIndex(s) + n
    PROVE  DiffInMonths(s, t) = n /\ DiffInYears(s, t) = Quotient(n, 12)
<1> DEFINE dy == Year(t) - Year(s)
           dd == Day(t) - Day(s)
           b == IF dd < 0 THEN 1 ELSE 0
           dm == Month(t) - Month(s) - b
           near == Abs(DiffInHours(t, s)) < DaysInMonth(s) * 24
<1>1. /\ s.year \in Int /\ s.month \in Int /\ s.day \in Int /\ t.year \in Int /\ t.month \in Int /\ t.day \in Int
  BY DateParts
<1>2. /\ Year(s) = s.year /\ Month(s) = s.month /\ Day(s) = s.day
      /\ Year(t) = t.year /\ Month(t) = t.month /\ Day(t) = t.day
  BY DEF Year, Month, Day
<1>3. dd = 0 /\ b = 0
  BY <1>1, <1>2
<1>4. 12 * t.year + t.month = 12 * s.year + s.month + n
  BY DEF MonthIndex
<1>5. dy \in Int /\ dm \in Int /\ 12 * dy + dm = n
  <2> DEFINE y == s.year
             m == s.month
             z == t.year
             k == t.month
  <2>1. y \in Int /\ m \in Int /\ z \in Int /\ k \in Int
    BY <1>1
  <2>2. dy = z - y /\ dm = k - m - 0
    BY <1>2, <1>3
  <2>3. 12 * z + k = 12 * y + m + n
    BY <1>4
  <2> HIDE DEF dy, dm, y, m, z, k
  <2> QED
    BY <2>1, <2>2, <2>3
<1>6. DiffInMonths(s, t) = IF dy = 0 /\ dm = 0 THEN 0 ELSE IF dy = 0 /\ dd # 0 /\ near THEN 0 ELSE dy * MonthsPerYear + dm
  BY Zenon DEF DiffInMonths
<1> HIDE DEF dy, dd, dm, near, b
<1>7. DiffInMonths(s, t) = IF dy = 0 /\ dm = 0 THEN 0 ELSE dy * MonthsPerYear + dm
  BY <1>3, <1>6
<1>8. DiffInMonths(s, t) = n
  BY <1>5, <1>7 DEF MonthsPerYear
<1> QED
  BY <1>8 DEF DiffInYears

\* The differences of two times so many months apart (DiffInMonths, DiffInYears).
LEMMA MonthsTogether ==
    ASSUME NEW s \in Dates, NEW t \in Dates, NEW kind, NEW n \in Int, ~IsZero(s), Arrives(s, t, kind, n)
    PROVE  MonthsAgree(s, t, kind, n)
<1> DEFINE i == MonthIndex(s) + n
           target == Date(s.year, s.month + n, 1, s.sec)
           l == LengthAt(i)
           m == s.month + n
<1>1. s.year \in Int /\ m \in Int /\ s.sec \in Seconds /\ s.day \in Int
  BY DateParts
<1>2. i \in Int /\ MonthIndex(s) \in Int
  BY DateMonth
<1>2a. i = Index(s.year, m)
  BY <1>1, DateParts DEF MonthIndex, Index
<1>3. t.sec = s.sec
  BY DEF Arrives
<1>4. s.day <= l => MonthIndex(t) = i /\ t.day = s.day
  BY DEF Arrives
<1>5. s.day > l => IF kind = "clip" THEN MonthIndex(t) = i /\ t.day = l
                   ELSE MonthIndex(t) = i + 1 /\ t.day = s.day - l
  BY DEF Arrives
<1>6. target = Date(s.year, m, 1, s.sec)
  OBVIOUS
<1> HIDE DEF target, m
<1>7. YearOf(i) \in Int /\ MonthOf(i) \in 1..12 /\ l \in 28..31 /\ 12 * YearOf(i) + MonthOf(i) = i
  <2> HIDE DEF i
  <2> QED
    BY <1>2, MonthsFollow
<1>8. target = [year |-> YearOf(i), month |-> MonthOf(i), day |-> 1, sec |-> s.sec]
  <2> HIDE DEF i, l
  <2>1. 1 \in Nat /\ 1 > 0 /\ 1 <= LengthAt(i)
    BY <1>7 DEF l
  <2> QED
    BY <1>1, <1>2, <1>2a, <1>6, <2>1, DateInMonth
<1>9. MonthIndex(target) = i /\ LengthOf(target) = l
  <2> HIDE DEF i, l
  <2>1. target.year = YearOf(i) /\ target.month = MonthOf(i)
    BY <1>8
  <2>2. MonthIndex(target) = i
    BY <1>7, <2>1 DEF MonthIndex
  <2>3. LengthOf(target) = l
    BY <2>1 DEF LengthOf, l, LengthAt, MonthLength
  <2> QED
    BY <2>2, <2>3
<1>10. s.day <= l /\ ~IsZero(t) => DiffInMonths(s, t) = n /\ DiffInYears(s, t) = Quotient(n, 12)
  <2> HAVE s.day <= l /\ ~IsZero(t)
  <2>1. s.day = t.day /\ MonthIndex(t) = MonthIndex(s) + n
    BY <1>4
  <2> HIDE DEF i, l
  <2> QED
    BY <2>1, DiffIs
<1>11. i = MonthIndex(s) + n /\ l \in Int
  BY <1>7
<1>12. target = Date(s.year, s.month + n, 1, s.sec)
  BY DEF target
<1> HIDE DEF i, l
<1> DEFINE exists == s.day <= LengthOf(target)
<1>13. exists => s.day <= l
  BY <1>9
<1>14. ~exists => s.day > l
  BY <1>1, <1>9, <1>11
<1>15. exists => MonthIndex(t) = MonthIndex(s) + n /\ t.day = s.day
                 /\ (~IsZero(t) => DiffInMonths(s, t) = n /\ DiffInYears(s, t) = Quotient(n, 12))
  BY <1>4, <1>10, <1>11, <1>13
<1>16. ~exists => IF kind = "clip"
                  THEN MonthIndex(t) = MonthIndex(target) /\ t.day = LengthOf(target)
                  ELSE MonthIndex(t) = MonthIndex(target) + 1 /\ t.day = s.day - LengthOf(target)
  BY <1>5, <1>9, <1>14
<1> QED
  BY <1>3, <1>15, <1>16, Zenon DEF MonthsAgree, target

\* What a move does to a time, by its kind.
Journey(s, t, kind, months, seconds) ==
    /\ t \in Dates /\ months \in Int /\ seconds \in Int
    /\ kind \in {"clip", "carry"} => (~IsZero(s) => Arrives(s, t, kind, months))
    /\ kind = "time" => DiffInSeconds(s, t) = seconds

\* By years and months (time_traveler.go), and so by centuries and quarters.
LEMMA ByYearsIs ==
    ASSUME NEW t \in Dates, NEW n \in Int
    PROVE  Journey(t, AddYears(t, n), "carry", 12 * n, 0) /\ Journey(t, AddYearsNoOverflow(t, n), "clip", 12 * n, 0)
<1> DEFINE y == t.year + n
           m == t.month
           d == t.day
           k == 12 * n
           z == Year(t) + n
           u == AddYears(t, n)
           v == AddYearsNoOverflow(t, n)
<1>1. t.year \in Int /\ m \in Int /\ d \in Int /\ y \in Int /\ k \in Int /\ 0 \in Int
  BY DateParts
<1>2. Index(y, m) = MonthIndex(t) + k
  BY <1>1 DEF Index, MonthIndex
<1>3. Year(t) \in Int /\ z \in Int /\ (~IsZero(t) => z = y)
  BY <1>1 DEF Year
<1>4. v = WithDay(t, AddDate(Date(z, m, 1, t.sec), 0, 1, -1))
  BY DEF AddYearsNoOverflow
<1>5. u = Date(y, m + 0, d + 0, t.sec)
  BY DEF AddYears, AddDate
<1>6. m + 0 = m /\ d + 0 = d
  BY <1>1
<1>7. u = Date(y, m, t.day, t.sec)
  BY <1>5, <1>6
<1> HIDE DEF y, m, k, z, u, v
<1>8. u \in Dates /\ Arrives(t, u, "carry", k)
  BY <1>1, <1>2, <1>7, CarryIs
<1>9. v \in Dates /\ (~IsZero(t) => \A x \in Int : Index(z, m) = MonthIndex(t) + x => Arrives(t, v, "clip", x))
  BY <1>1, <1>3, <1>4, ClipIs
<1>10. ~IsZero(t) => Arrives(t, v, "clip", k)
  BY <1>1, <1>2, <1>3, <1>9
<1>11. "carry" # "time" /\ "clip" # "time"
  OBVIOUS
<1>12. Journey(t, u, "carry", k, 0) /\ Journey(t, v, "clip", k, 0)
  BY <1>1, <1>8, <1>9, <1>10, <1>11, Zenon DEF Journey
<1> QED
  BY <1>12 DEF u, v, k

\* AddMonths and AddMonthsNoOverflow go the months they are given,
LEMMA ByMonthsIs ==
    ASSUME NEW t \in Dates, NEW n \in Int
    PROVE  Journey(t, AddMonths(t, n), "carry", n, 0) /\ Journey(t, AddMonthsNoOverflow(t, n), "clip", n, 0)
<1> DEFINE y == t.year
           m == t.month + n
           d == t.day
           z == Year(t)
           u == AddMonths(t, n)
           v == AddMonthsNoOverflow(t, n)
<1>1. t.month \in Int /\ m \in Int /\ d \in Int /\ y \in Int /\ 0 \in Int
  BY DateParts
<1>2. Index(y, m) = MonthIndex(t) + n
  BY <1>1 DEF Index, MonthIndex
<1>3. z \in Int /\ (~IsZero(t) => z = y)
  BY <1>1 DEF Year
<1>4. v = WithDay(t, AddDate(Date(z, m, 1, t.sec), 0, 1, -1))
  BY DEF AddMonthsNoOverflow
<1>5. u = Date(y + 0, m, d + 0, t.sec)
  BY DEF AddMonths, AddDate
<1>6. y + 0 = y /\ d + 0 = d
  BY <1>1
<1>7. u = Date(y, m, t.day, t.sec)
  BY <1>5, <1>6
<1> HIDE DEF y, m, z, u, v
<1>8. u \in Dates /\ Arrives(t, u, "carry", n)
  BY <1>1, <1>2, <1>7, CarryIs
<1>9. v \in Dates /\ (~IsZero(t) => \A x \in Int : Index(z, m) = MonthIndex(t) + x => Arrives(t, v, "clip", x))
  BY <1>1, <1>3, <1>4, ClipIs
<1>10. ~IsZero(t) => Arrives(t, v, "clip", n)
  BY <1>1, <1>2, <1>3, <1>9
<1>11. "carry" # "time" /\ "clip" # "time"
  OBVIOUS
<1>12. Journey(t, u, "carry", n, 0) /\ Journey(t, v, "clip", n, 0)
  BY <1>1, <1>8, <1>9, <1>10, <1>11, Zenon DEF Journey
<1> QED
  BY <1>12 DEF u, v

\* and Add and AddDays the seconds and the days.
LEMMA ByTimeIs ==
    ASSUME NEW t \in Dates, NEW n \in Int
    PROVE  Journey(t, Add(t, n), "time", 0, n) /\ Journey(t, AddDays(t, n), "time", 0, n * SecondsPerDay)
<1>1. 0 \in Int /\ n * SecondsPerDay \in Int
  BY DayLength
<1>2. "time" \notin {"clip", "carry"}
  OBVIOUS
<1>3. Add(t, n) \in Dates /\ DiffInSeconds(t, Add(t, n)) = n
  BY AddIs
<1>4. AddDays(t, n) \in Dates /\ DiffInSeconds(t, AddDays(t, n)) = n * SecondsPerDay
  BY AddDaysIs
<1>5. Journey(t, Add(t, n), "time", 0, n)
  BY <1>1, <1>2, <1>3, Zenon DEF Journey
<1>6. Journey(t, AddDays(t, n), "time", 0, n * SecondsPerDay)
  BY <1>1, <1>2, <1>4, Zenon DEF Journey
<1> QED
  BY <1>5, <1>6

\* The inductive invariant: the times are dates, and the last move was a journey from one to the other.
CalendarInv ==
    /\ ct \in Dates /\ was \in Dates /\ fraction \in Nat
    /\ moved.count > 0 => Journey(was, ct, moved.kind, moved.months, moved.seconds)

\* A time from the outside is a date that has not moved.
LEMMA CalendarStarts == CalendarInit => CalendarInv
<1> SUFFICES ASSUME CalendarInit PROVE CalendarInv
  OBVIOUS
<1>1. moved.count = 0 /\ ct \in Dates /\ was \in Dates /\ fraction \in Nat
  BY CalendarAssumption DEF CalendarInit
<1>2. ~(moved.count > 0)
  BY <1>1
<1> QED
  BY <1>1, <1>2, Zenon DEF CalendarInv

\* A move that is a journey keeps the invariant.
LEMMA MoveKeeps ==
    ASSUME CalendarInv, NEW kind, NEW months, NEW seconds, NEW to,
           Journey(ct, to, kind, months, seconds), Move(kind, months, seconds, to)
    PROVE  CalendarInv'
<1>1. was' = ct /\ ct' = to /\ moved'.kind = kind /\ moved'.months = months /\ moved'.seconds = seconds
  BY DEF Move
<1>2. ct \in Dates /\ to \in Dates /\ fraction' \in Nat
  BY Zenon DEF CalendarInv, Journey, Move
<1>3. Journey(was', ct', moved'.kind, moved'.months, moved'.seconds)
  BY <1>1, Zenon
<1> QED
  BY <1>1, <1>2, <1>3, Zenon DEF CalendarInv

\* Every move of Calendar is a journey from one date to another.
LEMMA CalendarKeeps == CalendarInv /\ [CalendarNext]_calendarVars => CalendarInv'
<1> SUFFICES ASSUME CalendarInv, [CalendarNext]_calendarVars PROVE CalendarInv'
  OBVIOUS
<1>1. CASE UNCHANGED calendarVars
  BY <1>1, Zenon DEF CalendarInv, calendarVars
<1>2. CASE CalendarNext
  <2> PICK n \in Amounts :
        \/ ByCenturies(n) \/ ByYears(n) \/ ByQuarters(n) \/ ByMonths(n) \/ ByWeeks(n)
        \/ ByDays(n) \/ ByHours(n) \/ ByMinutes(n) \/ BySeconds(n)
    BY <1>2, Zenon DEF CalendarNext
  <2>1. n \in Int /\ ct \in Dates
    BY CalendarAssumption DEF CalendarInv
  <2>2. CASE ByCenturies(n)
    <3>1. 100 * n \in Int /\ 12 * (100 * n) = 1200 * n
      BY <2>1
    <3> DEFINE k == 100 * n
    <3>2. Journey(ct, AddYears(ct, k), "carry", 12 * k, 0) /\ Journey(ct, AddYearsNoOverflow(ct, k), "clip", 12 * k, 0)
      <4> HIDE DEF k
      <4> SUFFICES ASSUME k \in Int
                   PROVE  Journey(ct, AddYears(ct, k), "carry", 12 * k, 0) /\ Journey(ct, AddYearsNoOverflow(ct, k), "clip", 12 * k, 0)
        BY <3>1 DEF k
      <4> QED
        BY <2>1, ByYearsIs
    <3>3. Journey(ct, AddCenturies(ct, n), "carry", 1200 * n, 0)
          /\ Journey(ct, AddCenturiesNoOverflow(ct, n), "clip", 1200 * n, 0)
      <4> DEFINE x == 12 * k
                 y == 1200 * n
      <4>1. AddCenturies(ct, n) = AddYears(ct, k) /\ AddCenturiesNoOverflow(ct, n) = AddYearsNoOverflow(ct, k)
        BY DEF AddCenturies, AddCenturiesNoOverflow
      <4>2. x = y
        BY <3>1
      <4>3. Journey(ct, AddYears(ct, k), "carry", x, 0) /\ Journey(ct, AddYearsNoOverflow(ct, k), "clip", x, 0)
        BY <3>2
      <4> HIDE DEF k, x, y
      <4>4. Journey(ct, AddCenturies(ct, n), "carry", y, 0) /\ Journey(ct, AddCenturiesNoOverflow(ct, n), "clip", y, 0)
        BY <4>1, <4>2, <4>3
      <4> QED
        BY <4>4 DEF y
    <3>4. Move("carry", 1200 * n, 0, AddCenturies(ct, n)) \/ Move("clip", 1200 * n, 0, AddCenturiesNoOverflow(ct, n))
      BY <2>2, Zenon DEF ByCenturies
    <3> QED
      BY <3>3, <3>4, MoveKeeps
  <2>3. CASE ByYears(n)
    <3>1. Journey(ct, AddYears(ct, n), "carry", 12 * n, 0) /\ Journey(ct, AddYearsNoOverflow(ct, n), "clip", 12 * n, 0)
      BY <2>1, ByYearsIs
    <3>2. Move("carry", 12 * n, 0, AddYears(ct, n)) \/ Move("clip", 12 * n, 0, AddYearsNoOverflow(ct, n))
      BY <2>3, Zenon DEF ByYears
    <3> QED
      BY <3>1, <3>2, MoveKeeps
  <2>4. CASE ByQuarters(n)
    <3> DEFINE k == 3 * n
    <3>1. k \in Int
      BY <2>1
    <3>2. Journey(ct, AddMonths(ct, k), "carry", k, 0) /\ Journey(ct, AddMonthsNoOverflow(ct, k), "clip", k, 0)
      <4> HIDE DEF k
      <4> QED
        BY <2>1, <3>1, ByMonthsIs
    <3>3. Journey(ct, AddQuarters(ct, n), "carry", 3 * n, 0) /\ Journey(ct, AddQuartersNoOverflow(ct, n), "clip", 3 * n, 0)
      BY <3>2, Zenon DEF AddQuarters, AddQuartersNoOverflow
    <3>4. Move("carry", 3 * n, 0, AddQuarters(ct, n)) \/ Move("clip", 3 * n, 0, AddQuartersNoOverflow(ct, n))
      BY <2>4, Zenon DEF ByQuarters
    <3> QED
      BY <3>3, <3>4, MoveKeeps
  <2>5. CASE ByMonths(n)
    <3>1. Journey(ct, AddMonths(ct, n), "carry", n, 0) /\ Journey(ct, AddMonthsNoOverflow(ct, n), "clip", n, 0)
      BY <2>1, ByMonthsIs
    <3>2. Move("carry", n, 0, AddMonths(ct, n)) \/ Move("clip", n, 0, AddMonthsNoOverflow(ct, n))
      BY <2>5, Zenon DEF ByMonths
    <3> QED
      BY <3>1, <3>2, MoveKeeps
  <2>6. CASE ByWeeks(n)
    <3> DEFINE k == n * 7
    <3>1. k \in Int
      BY <2>1
    <3>2. Journey(ct, AddDays(ct, k), "time", 0, k * SecondsPerDay)
      <4> HIDE DEF k
      <4> QED
        BY <2>1, <3>1, ByTimeIs
    <3>3. Journey(ct, AddWeeks(ct, n), "time", 0, n * 7 * SecondsPerDay)
      BY <3>2, Zenon DEF AddWeeks, DaysPerWeek
    <3>4. Move("time", 0, n * 7 * SecondsPerDay, AddWeeks(ct, n))
      BY <2>6, Zenon DEF ByWeeks
    <3> QED
      BY <3>3, <3>4, MoveKeeps
  <2>7. CASE ByDays(n)
    <3>1. Journey(ct, AddDays(ct, n), "time", 0, n * SecondsPerDay)
      BY <2>1, ByTimeIs
    <3>2. Move("time", 0, n * SecondsPerDay, AddDays(ct, n))
      BY <2>7, Zenon DEF ByDays
    <3> QED
      BY <3>1, <3>2, MoveKeeps
  <2>8. CASE ByHours(n)
    <3> DEFINE k == 3600 * n
    <3>1. k \in Int /\ k = n * 3600
      BY <2>1
    <3>2. Journey(ct, Add(ct, k), "time", 0, k)
      <4> HIDE DEF k
      <4> QED
        BY <2>1, <3>1, ByTimeIs
    <3>3. Journey(ct, AddHours(ct, n), "time", 0, n * 3600)
      <4> DEFINE x == n * 3600
      <4>1. AddHours(ct, n) = Add(ct, k)
        BY DEF AddHours
      <4>2. k = x
        BY <3>1
      <4> HIDE DEF k, x
      <4>3. Journey(ct, AddHours(ct, n), "time", 0, x)
        BY <3>2, <4>1, <4>2
      <4> QED
        BY <4>3 DEF x
    <3>4. Move("time", 0, n * 3600, AddHours(ct, n))
      BY <2>8 DEF ByHours
    <3> QED
      BY <3>3, <3>4, MoveKeeps
  <2>9. CASE ByMinutes(n)
    <3> DEFINE k == 60 * n
    <3>1. k \in Int /\ k = n * 60
      BY <2>1
    <3>2. Journey(ct, Add(ct, k), "time", 0, k)
      <4> HIDE DEF k
      <4> QED
        BY <2>1, <3>1, ByTimeIs
    <3>3. Journey(ct, AddMinutes(ct, n), "time", 0, n * 60)
      BY <3>1, <3>2, Zenon DEF AddMinutes
    <3>4. Move("time", 0, n * 60, AddMinutes(ct, n))
      BY <2>9, Zenon DEF ByMinutes
    <3> QED
      BY <3>3, <3>4, MoveKeeps
  <2>10. CASE BySeconds(n)
    <3>1. Journey(ct, AddSeconds(ct, n), "time", 0, n)
      BY <2>1, ByTimeIs DEF AddSeconds
    <3>2. Move("time", 0, n, AddSeconds(ct, n))
      BY <2>10, Zenon DEF BySeconds
    <3> QED
      BY <3>1, <3>2, MoveKeeps
  <2> QED
    BY <2>2, <2>3, <2>4, <2>5, <2>6, <2>7, <2>8, <2>9, <2>10
<1> QED
  BY <1>1, <1>2

\* What CalendarAgrees says follows from the invariant, whatever the times are.
LEMMA CalendarFollows == CalendarInv => CalendarAgrees
<1> SUFFICES ASSUME CalendarInv, moved.count > 0 PROVE CalendarAgrees
  BY Zenon DEF CalendarAgrees
<1>1. ct \in Dates /\ was \in Dates
  BY Zenon DEF CalendarInv
<1>2. Journey(was, ct, moved.kind, moved.months, moved.seconds)
  BY Zenon DEF CalendarInv
<1>3. ASSUME moved.kind \in {"clip", "carry"}, ~IsZero(was) PROVE MonthsAgree(was, ct, moved.kind, moved.months)
  <2>1. moved.months \in Int /\ Arrives(was, ct, moved.kind, moved.months)
    BY <1>2, <1>3, Zenon DEF Journey
  <2> QED
    BY <1>1, <1>3, <2>1, MonthsTogether
<1>4. ASSUME moved.kind = "time" PROVE SecondsAgree(was, ct, moved.seconds)
  <2>1. moved.seconds \in Int /\ DiffInSeconds(was, ct) = moved.seconds
    BY <1>2, <1>4, Zenon DEF Journey
  <2> QED
    BY <2>1, SecondsTogether
<1>5. PartsAgree(ct)
  BY <1>1, PartsTogether
<1>6. \A a, b, c, d : Encloses(ct, a, b, c, d) => Period(a, b, c, d)
  <2> SUFFICES ASSUME NEW a, NEW b, NEW c, NEW d, Encloses(ct, a, b, c, d)
               PROVE  Period(a, b, c, d)
    OBVIOUS
  <2>1. b \in Dates /\ ~Before(ct, a) /\ ~Before(b, ct) /\ c = a /\ d = Add(b, 1)
    BY Zenon DEF Encloses
  <2>2. Before(ct, d)
    BY <1>1, <2>1, SecondBehind
  <2>3. ~(fraction < 0)
    <3>1. fraction \in Nat
      BY Zenon DEF CalendarInv
    <3> QED
      BY <3>1
  <2> QED
    BY <2>1, <2>2, <2>3, Zenon DEF Earlier, Period
<1>7. PeriodsEnclose(ct)
  BY <1>1, AllEnclose
<1>8. /\ Period(StartOfYear(ct), EndOfYear(ct), StartOfYear(EndOfYear(ct)), StartOfYear(Add(EndOfYear(ct), 1)))
      /\ Period(StartOfMonth(ct), EndOfMonth(ct), StartOfMonth(EndOfMonth(ct)), StartOfMonth(Add(EndOfMonth(ct), 1)))
      /\ Period(StartOfWeek(ct), EndOfWeek(ct), StartOfWeek(EndOfWeek(ct)), StartOfWeek(Add(EndOfWeek(ct), 1)))
      /\ Period(StartOfDay(ct), EndOfDay(ct), StartOfDay(EndOfDay(ct)), StartOfDay(Add(EndOfDay(ct), 1)))
      /\ Period(StartOfHour(ct), EndOfHour(ct), StartOfHour(EndOfHour(ct)), StartOfHour(Add(EndOfHour(ct), 1)))
      /\ Period(StartOfMinute(ct), EndOfMinute(ct), StartOfMinute(EndOfMinute(ct)), StartOfMinute(Add(EndOfMinute(ct), 1)))
  BY <1>6, <1>7, Zenon DEF PeriodsEnclose
<1>9. moved.kind \in {"clip", "carry"} /\ ~IsZero(was) =>
          LET target == Date(was.year, was.month + moved.months, 1, was.sec)
              exists == was.day <= LengthOf(target) IN
          /\ exists => MonthIndex(ct) = MonthIndex(was) + moved.months /\ ct.day = was.day
                       /\ (~IsZero(ct) => /\ DiffInMonths(was, ct) = moved.months
                                          /\ DiffInYears(was, ct) = Quotient(moved.months, 12))
          /\ ~exists => IF moved.kind = "clip"
                        THEN MonthIndex(ct) = MonthIndex(target) /\ ct.day = LengthOf(target)
                        ELSE MonthIndex(ct) = MonthIndex(target) + 1 /\ ct.day = was.day - LengthOf(target)
          /\ ct.sec = was.sec
  <2>1. moved.kind \in {"clip", "carry"} /\ ~IsZero(was) => MonthsAgree(was, ct, moved.kind, moved.months)
    BY <1>3
  <2> QED
    BY <2>1, Zenon DEF MonthsAgree
<1>10. moved.kind = "time" => /\ DiffInSeconds(was, ct) = moved.seconds
                              /\ DiffInMinutes(was, ct) = Quotient(moved.seconds, 60)
                              /\ DiffInWeeks(was, ct) = Quotient(moved.seconds, 7 * SecondsPerDay)
  BY <1>4, Zenon DEF SecondsAgree
<1>11. ~IsZero(ct) => /\ DayOfYear(ct) \in 1..DaysInYear(ct) /\ DaysInMonth(ct) = LengthOf(ct)
                      /\ DayOfWeek(ct) = 1 + DiffInDays(StartOfWeek(ct), ct)
                      /\ ct.month \in 3 * Quarter(ct) - 2 .. 3 * Quarter(ct)
  BY <1>5, Zenon DEF PartsAgree
<1> QED
  BY <1>8, <1>9, <1>10, <1>11, Zenon DEF CalendarAgrees

\* Wherever a time travels, its parts, its periods and its differences agree (CalendarAgrees).
THEOREM CalendarIsRight == CalendarSpec => []CalendarAgrees
<1>1. CalendarInit => CalendarInv
  BY CalendarStarts
<1>2. CalendarInv /\ [CalendarNext]_calendarVars => CalendarInv'
  BY CalendarKeeps
<1>3. CalendarInv => CalendarAgrees
  BY CalendarFollows
<1> QED
  BY <1>1, <1>2, <1>3, PTL DEF CalendarSpec
=============================================================================
