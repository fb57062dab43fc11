------------------------------ MODULE RedisLock ------------------------------
(***************************************************************************)
(* components/redis/lock.go: Lock objects that compete for one key.  Every *)
(* operation holds the object's mu from its first look at the state to the *)
(* answer of redis, so it is one step; a command may also fail, before or  *)
(* after redis has carried it out.  Time goes in steps of a third of the   *)
(* ttl, the period of the watchdog; a renewal is assumed to take less.     *)
(***************************************************************************)
EXTENDS Naturals

CONSTANTS Locks, AutoRenew,     \* the Lock objects; those made WithAutoRenew
          MaxTokens, MaxErrors  \* bounds: attempts that reach redis; failed commands

ASSUME RedisLockAssumption == AutoRenew \subseteq Locks

VARIABLES
    key, pttl,      \* redis: the token under the key (0: none) and its thirds of a ttl left
    token, watching, stopCh,   \* the fields of a Lock; stopCh is named by the token it was made for
    dogs,           \* watchdog goroutines: lock, token, whether the ticker has fired, ctx is done
    closed,         \* the stop channels that have been closed
    tokens, errors, \* cnuid.Next; the failed commands so far
    expired,        \* history: tokens that redis has expired
    excused         \* history: tokens without a watchdog, for a reason the code knows of

lockVars == <<key, pttl, token, watching, stopCh, dogs, closed, tokens, errors, expired, excused>>

Ttl == 3
LockInit ==
    /\ key = 0 /\ pttl = 0 /\ tokens = 0 /\ errors = 0
    /\ token = [l \in Locks |-> 0] /\ watching = [l \in Locks |-> FALSE] /\ stopCh = [l \in Locks |-> 0]
    /\ dogs = {} /\ closed = {} /\ expired = {} /\ excused = {}

Fails == errors < MaxErrors /\ errors' = errors + 1
-----------------------------------------------------------------------------
\* startWatchdog: nothing when the object is marked as watched already, be it by a
\* goroutine that has left since.
StartWatchdog(l, t) ==
    IF l \notin AutoRenew \/ watching[l]
    THEN /\ UNCHANGED <<watching, stopCh, dogs>>
         /\ excused' = excused \cup {t}
    ELSE /\ watching' = [watching EXCEPT ![l] = TRUE] /\ stopCh' = [stopCh EXCEPT ![l] = t]
         /\ dogs' = dogs \cup {[lock |-> l, token |-> t, due |-> FALSE, done |-> FALSE]}
         /\ UNCHANGED excused

\* TryLock, which Lock repeats at every tick until its ctx is done: SetNX.
TryLock(l) ==
    /\ tokens < MaxTokens /\ tokens' = tokens + 1
    /\ \/ /\ key = 0 /\ key' = tokens' /\ pttl' = Ttl
          /\ token' = [token EXCEPT ![l] = tokens']
          /\ StartWatchdog(l, tokens') /\ UNCHANGED errors
       \/ /\ key = 0 /\ Fails /\ key' = tokens' /\ pttl' = Ttl     \* the answer is lost
          /\ UNCHANGED <<token, watching, stopCh, dogs, excused>>
       \/ /\ key # 0
          /\ UNCHANGED <<key, pttl, token, watching, stopCh, dogs, errors, excused>>
    /\ UNCHANGED <<closed, expired>>

StopWatchdog(l) ==
    /\ closed' = IF watching[l] THEN closed \cup {stopCh[l]} ELSE closed
    /\ watching' = [watching EXCEPT ![l] = FALSE]

\* Mutant: DEL without the comparison.
UnlockScript_Del(t) == key' = 0
\* The script: delete when the token is still ours.
UnlockScript(t) == key' = IF key = t THEN 0 ELSE key

\* Unlock forgets the token whatever redis answers.
Unlock(l) ==
    /\ token[l] # 0 /\ StopWatchdog(l) /\ token' = [token EXCEPT ![l] = 0]
    /\ \/ UnlockScript(token[l]) /\ UNCHANGED errors
       \/ Fails /\ UNCHANGED key
    /\ UNCHANGED <<pttl, stopCh, dogs, tokens, expired, excused>>

\* renew: the script sets the ttl again when the token is still ours.
Renewed(l) == token[l] # 0 /\ key = token[l]
Renew(l) ==
    /\ Renewed(l) /\ pttl' = Ttl
    /\ UNCHANGED <<key, token, watching, stopCh, dogs, closed, tokens, errors, expired, excused>>

\* The watchdog: stopCh or ctx ends it; at a tick it renews, and leaves when the
\* object has another token or when the renewal fails.
DogLeaves(d) ==
    /\ d \in dogs /\ dogs' = dogs \ {d}
    /\ \/ d.token \in closed /\ UNCHANGED <<errors, excused>>
       \/ d.done /\ excused' = excused \cup {d.token} /\ UNCHANGED errors
       \/ d.due /\ token[d.lock] # d.token /\ UNCHANGED <<errors, excused>>
       \/ d.due /\ token[d.lock] = d.token /\ ~Renewed(d.lock) /\ UNCHANGED <<errors, excused>>
       \/ d.due /\ Fails /\ excused' = excused \cup {d.token}
    /\ UNCHANGED <<key, pttl, token, watching, stopCh, closed, tokens, expired>>

DogRenews(d) ==
    /\ d \in dogs /\ d.due /\ token[d.lock] = d.token /\ Renewed(d.lock)
    /\ dogs' = (dogs \ {d}) \cup {[d EXCEPT !.due = FALSE]} /\ pttl' = Ttl
    /\ UNCHANGED <<key, token, watching, stopCh, closed, tokens, errors, expired, excused>>

\* The ctx of the call that took the lock is done.
Cancel(d) ==
    /\ d \in dogs /\ ~d.done /\ dogs' = (dogs \ {d}) \cup {[d EXCEPT !.done = TRUE]}
    /\ UNCHANGED <<key, pttl, token, watching, stopCh, closed, tokens, errors, expired, excused>>

\* Mutant: the ticker has the period of the ttl.
TickerFires_WholeTtl(d) == [d EXCEPT !.due = pttl = 1]
TickerFires(d) == [d EXCEPT !.due = TRUE]

\* A third of the ttl passes.
Tick ==
    /\ key # 0 /\ \A d \in dogs : ~d.due
    /\ pttl' = pttl - 1 /\ key' = IF pttl = 1 THEN 0 ELSE key
    /\ expired' = IF pttl = 1 THEN expired \cup {key} ELSE expired
    /\ dogs' = {TickerFires(d) : d \in dogs}
    /\ UNCHANGED <<token, watching, stopCh, closed, tokens, errors, excused>>

\* The process dies with the lock.
LockCrash(l) ==
    /\ token[l] # 0 /\ token' = [token EXCEPT ![l] = 0] /\ watching' = [watching EXCEPT ![l] = FALSE]
    /\ dogs' = {d \in dogs : d.lock # l}
    /\ UNCHANGED <<key, pttl, stopCh, closed, tokens, errors, expired, excused>>
-----------------------------------------------------------------------------
LockNext ==
    \/ \E l \in Locks : TryLock(l) \/ Unlock(l) \/ Renew(l) \/ LockCrash(l)
    \/ \E d \in dogs : DogLeaves(d) \/ DogRenews(d) \/ Cancel(d)
    \/ Tick

LockSpec == LockInit /\ [][LockNext]_lockVars
-----------------------------------------------------------------------------
\* Who has taken the lock keeps it until his own Unlock or its expiry: nobody deletes
\* or takes the key of another, whatever he believes to hold.  And a lock made
\* WithAutoRenew does not expire under its holder, unless the ctx of the call that took
\* it is done, a renewal has failed, or it was taken again without Unlock, when
\* startWatchdog finds watching still set by the watchdog of the token before.
LockKept ==
    \A l \in Locks : token[l] # 0 =>
        IF token[l] \in expired THEN token[l] \in excused ELSE key = token[l]
==============================================================================
