---------------------------- MODULE LoginLockout ----------------------------
(***************************************************************************)
(* The lockout after failed password logins (app/core/login_lockout.py and *)
(* login in app/routers/auth.py).                                          *)
(*                                                                         *)
(* Two in-memory dictionaries, each an insertion-ordered sequence here:    *)
(* setting an existing key keeps its place, and the first key goes when    *)
(* there are too many.  A login looks at the lock, awaits the database and *)
(* records the outcome, so attempts in flight outlive the lock they beat.  *)
(***************************************************************************)
EXTENDS Naturals, FiniteSets, Sequences, SequencesExt

CONSTANTS
    Emails,      \* normalised addresses
    Attempts,    \* logins in flight at a time
    MaxFailures, \* MAX_FAILED_ATTEMPTS
    LockTime,    \* LOCKOUT_SECONDS, in ticks of the clock
    Capacity     \* MAX_TRACKED_EMAILS

ASSUME LockoutAssumption ==
    /\ MaxFailures \in Nat \ {0} /\ LockTime \in Nat \ {0} /\ Capacity \in Nat \ {0}
    /\ IsFiniteSet(Attempts) /\ "none" \notin Emails

VARIABLES
    failures, \* _failures: the number of recorded failures of each key
    locked,   \* _locked_until: the ticks left of each lock
    attempt,  \* attempt[a]: the address an admitted login is for
    guesses,  \* history: failures since the last success or lapsed lock, while not evicted
    evicted   \* history: addresses dropped for want of room

lockvars == <<failures, locked, attempt, guesses, evicted>>

NoAttempt == "none"
AllGuesses == MaxFailures + Cardinality(Attempts)

(* dict operations *)
Keys(dict) == {dict[i].key : i \in DOMAIN dict}
Place(dict, e) == CHOOSE i \in DOMAIN dict : dict[i].key = e
ValueOf(dict, e) == IF e \in Keys(dict) THEN dict[Place(dict, e)].val ELSE 0
Drop(dict, e) == IF e \in Keys(dict) THEN RemoveAt(dict, Place(dict, e)) ELSE dict
Put(dict, e, v) ==
    IF e \in Keys(dict) THEN [dict EXCEPT ![Place(dict, e)].val = v]
    ELSE Append(dict, [key |-> e, val |-> v])
\* _evict_oldest_if_over_capacity, on one of the two
Fit(dict) == IF Len(dict) > Capacity THEN Tail(dict) ELSE dict

LockInit ==
    /\ failures = <<>> /\ locked = <<>> /\ evicted = {}
    /\ attempt = [a \in Attempts |-> NoAttempt]
    /\ guesses = [e \in Emails |-> 0]

\* is_locked: a lapsed lock takes the failures recorded meanwhile along.
AdmitLogin(a, e) ==
    /\ attempt[a] = NoAttempt /\ ValueOf(locked, e) = 0
    /\ attempt' = [attempt EXCEPT ![a] = e]
    /\ locked' = Drop(locked, e)
    /\ failures' = IF e \in Keys(locked) THEN Drop(failures, e) ELSE failures
    /\ guesses' = IF e \in Keys(locked) THEN [guesses EXCEPT ![e] = 0] ELSE guesses
    /\ UNCHANGED evicted

PastLimit(n) == n > MaxFailures
AtLimit(n) == n >= MaxFailures

\* record_failure
LoginFails(a) ==
    LET e == attempt[a]
        count == ValueOf(failures, e) + 1
        counted == Put(failures, e, count)
        kept == IF AtLimit(count) THEN Drop(counted, e) ELSE counted
        locks == IF AtLimit(count) THEN Put(locked, e, LockTime) ELSE locked
    IN  /\ e # NoAttempt
        /\ failures' = Fit(kept) /\ locked' = Fit(locks)
        /\ evicted' = evicted \cup (Keys(kept) \ Keys(Fit(kept)))
                              \cup (Keys(locks) \ Keys(Fit(locks)))
        /\ guesses' = [x \in Emails |->
               IF x \in evicted' THEN 0
               ELSE IF x = e /\ guesses[x] < AllGuesses THEN guesses[x] + 1
               ELSE guesses[x]]
        /\ attempt' = [attempt EXCEPT ![a] = NoAttempt]

\* record_success
LoginSucceeds(a) ==
    LET e == attempt[a]
    IN  /\ e # NoAttempt
        /\ failures' = Drop(failures, e) /\ locked' = Drop(locked, e)
        /\ guesses' = [guesses EXCEPT ![e] = 0]
        /\ attempt' = [attempt EXCEPT ![a] = NoAttempt]
        /\ UNCHANGED evicted

LoginDies(a) ==
    /\ attempt[a] # NoAttempt
    /\ attempt' = [attempt EXCEPT ![a] = NoAttempt]
    /\ UNCHANGED <<failures, locked, guesses, evicted>>

LockTick ==
    /\ \E i \in DOMAIN locked : locked[i].val > 0
    /\ locked' = [i \in DOMAIN locked |->
                     [locked[i] EXCEPT !.val = IF @ > 0 THEN @ - 1 ELSE 0]]
    /\ UNCHANGED <<failures, attempt, guesses, evicted>>

LockNext ==
    \/ \E a \in Attempts :
        \/ \E e \in Emails : AdmitLogin(a, e)
        \/ LoginFails(a) \/ LoginSucceeds(a) \/ LoginDies(a)
    \/ LockTick

LockSpec == LockInit /\ [][LockNext]_lockvars

----------------------------------------------------------------------------
\* Between a success, or the end of a lock, and the next lock an address gets
\* the allowed failures and no more than the other logins already past the
\* look at the lock, unless the dictionaries were full.
LockoutHolds ==
    \A e \in Emails \ evicted :
        /\ guesses[e] <= MaxFailures + Cardinality(Attempts) - 1
        /\ guesses[e] >= MaxFailures => e \in Keys(locked)
============================================================================
