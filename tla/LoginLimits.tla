----------------------------- MODULE LoginLimits -----------------------------
(***************************************************************************)
(* The limits on failed logins (apps/api/internal/auth/limits.go) and the  *)
(* logins and password changes that they count (login.go).                 *)
(*                                                                         *)
(* Redis has a count per account and per client address; a count's key     *)
(* expires at the end of a window that begins when the key is created.     *)
(* An attempt (Login, ChangePassword) is counted as failed before its      *)
(* password is checked, and takes its count back if it does not fail.      *)
(* What it does in between is in Accounts; here it fails, succeeds, or is  *)
(* stopped.  Each action is one pipeline, which Redis runs atomically and  *)
(* which may fail, before or after Redis has run it.                       *)
(***************************************************************************)
EXTENDS Integers, FiniteSets

CONSTANTS
  Accounts,         \* emails that logins are tried with
  Addresses,        \* client addresses (an IPv4 address or an IPv6 /64)
  Attempts,         \* bound: attempts in progress at once
  AccountFailures,  \* failed attempts of an account in a window
  AddressFailures,  \* failed attempts of an address in a window
  MaxCount,         \* bound: no attempt is started at this count
  NoKey             \* the counter of an attempt that is not in progress

Counters == Accounts \cup Addresses

ASSUME LoginLimitsAssumption ==
  /\ {AccountFailures, AddressFailures} \subseteq Nat \ {0}
  /\ MaxCount \in Nat
  /\ IsFiniteSet(Attempts)
  /\ Accounts \cap Addresses = {}
  /\ NoKey \notin Counters \cup Attempts

VARIABLES
  count,    \* Redis: the counts; 0 where there is no key
  keys,     \* Redis: the counters that have a key, with its window
  attempt,  \* the attempts in progress
  wrong,    \* history: attempts that failed since the counter's key was last created or removed
  carried,  \* history: attempts that were in progress when the key was last removed
  lost      \* history: a count that should have been taken back since then was not

limits == <<count, keys, attempt, wrong, carried, lost>>

\* pc: "refused" (past a limit; about to take its count back), "check" (about to
\* check the password and to record the login).
Attempt ==
  [pc : {"idle", "refused", "check"}, account : Accounts \cup {NoKey}, address : Addresses \cup {NoKey}]

LimitsTypeOK ==
  /\ count \in [Counters -> -Cardinality(Attempts) .. MaxCount]
  /\ keys \in SUBSET Counters
  /\ attempt \in [Attempts -> Attempt]
  /\ wrong \in [Counters -> Nat]
  /\ carried \in [Counters -> 0 .. Cardinality(Attempts)]
  /\ lost \in [Counters -> BOOLEAN]

NoAttempt == [pc |-> "idle", account |-> NoKey, address |-> NoKey]

LimitsInit ==
  /\ count = [k \in Counters |-> 0]
  /\ keys = {}
  /\ attempt = [a \in Attempts |-> NoAttempt]
  /\ wrong = [k \in Counters |-> 0]
  /\ carried = [k \in Counters |-> 0]
  /\ lost = [k \in Counters |-> FALSE]

-----------------------------------------------------------------------------

\* counters(email, address)
CountersOf(a) == {attempt[a].account, attempt[a].address}

Limit(k) == IF k \in Accounts THEN AccountFailures ELSE AddressFailures

InProgress(k) == {a \in Attempts : k \in CountersOf(a)}

EndAttempt(a) == attempt' = [attempt EXCEPT ![a] = NoAttempt]

\* INCR or DECR of every counter of ks; a key that was absent gets a window.
Add(ks, n) ==
  /\ count' = [k \in Counters |-> IF k \in ks THEN count[k] + n ELSE count[k]]
  /\ keys' = keys \cup ks

\* The attempt's count stays although it should not.
Lose(a) == lost' = [k \in Counters |-> lost[k] \/ k \in CountersOf(a)]

\* The count the attempt took is within the limit.
Admitted(k) == count[k] + 1 <= Limit(k)

\* Begin: the attempt takes its place in both counts, and is refused if that passes
\* either limit.
Begin(a, account, address) ==
  LET ks == {account, address}
  IN
  /\ attempt[a].pc = "idle"
  /\ \A k \in ks : count[k] < MaxCount
  /\ Add(ks, 1)
  /\ attempt' = [attempt EXCEPT ![a] =
       [pc |-> IF \A k \in ks : Admitted(k) THEN "check" ELSE "refused",
        account |-> account, address |-> address]]
  /\ UNCHANGED <<wrong, carried, lost>>

\* takeBack, which may fail.
TakeBack(a) ==
  \/ Add(CountersOf(a), -1) /\ UNCHANGED lost
  \/ Lose(a) /\ (Add(CountersOf(a), -1) \/ UNCHANGED <<count, keys>>)

\* Begin's end for an attempt past a limit.
Refuse(a) ==
  /\ attempt[a].pc = "refused"
  /\ TakeBack(a)
  /\ EndAttempt(a)
  /\ UNCHANGED <<wrong, carried>>

\* fail, wrongPassword: the password does not match, the user is unknown or disabled,
\* or the user changed during the attempt; the count stays.
Fail(a) ==
  /\ attempt[a].pc = "check"
  /\ wrong' = [k \in Counters |-> IF k \in CountersOf(a) THEN wrong[k] + 1 ELSE wrong[k]]
  /\ EndAttempt(a)
  /\ UNCHANGED <<count, keys, carried, lost>>

\* unchecked: the password could not be checked, or it matched and the login could not
\* be recorded.
Unchecked(a) ==
  /\ attempt[a].pc = "check"
  /\ TakeBack(a)
  /\ EndAttempt(a)
  /\ UNCHANGED <<wrong, carried>>

\* Counter k's key is removed, by a step of attempt a or by Redis (a = NoKey).
Removed(k, a) ==
  /\ wrong' = [wrong EXCEPT ![k] = 0]
  /\ carried' = [carried EXCEPT ![k] = Cardinality(InProgress(k) \ {a})]

\* Mutant: a success clears the address's failures too.
Clear_Both(a) ==
  /\ count' = [k \in Counters |-> IF k \in CountersOf(a) THEN 0 ELSE count[k]]
  /\ keys' = keys \ CountersOf(a)
  /\ Removed(attempt[a].account, a)
  /\ lost' = [lost EXCEPT ![attempt[a].account] = FALSE]

\* The pipeline of Succeeded: the account's count is deleted, the address's is taken
\* back.
Clear(a) ==
  LET account == attempt[a].account
      address == attempt[a].address
  IN
  /\ count' = [count EXCEPT ![account] = 0, ![address] = @ - 1]
  /\ keys' = (keys \ {account}) \cup {address}
  /\ Removed(account, a)
  /\ lost' = [lost EXCEPT ![account] = FALSE]

\* Succeeded, which may fail: the attempt has succeeded all the same.
Succeeded(a) ==
  /\ attempt[a].pc = "check"
  /\ \/ Clear(a)
     \/ Lose(a) /\ UNCHANGED <<count, keys, wrong, carried>>
  /\ EndAttempt(a)

\* The attempt ends without taking its count back: the answer of Begin was lost, or
\* the replica died.
Abandoned(a) ==
  /\ attempt[a].pc # "idle"
  /\ Lose(a)
  /\ EndAttempt(a)
  /\ UNCHANGED <<count, keys, wrong, carried>>

\* The window of k ends, and Redis removes its key.
Expire(k) ==
  /\ k \in keys
  /\ keys' = keys \ {k}
  /\ count' = [count EXCEPT ![k] = 0]
  /\ lost' = [lost EXCEPT ![k] = FALSE]
  /\ Removed(k, NoKey)
  /\ UNCHANGED attempt

LimitsNext ==
  \/ \E a \in Attempts :
       \/ \E account \in Accounts, address \in Addresses : Begin(a, account, address)
       \/ Refuse(a) \/ Fail(a) \/ Unchecked(a) \/ Succeeded(a) \/ Abandoned(a)
  \/ \E k \in Counters : Expire(k)

LimitsSpec == LimitsInit /\ [][LimitsNext]_limits

-----------------------------------------------------------------------------

\* Between two removals of a counter's key no more attempts fail than its limit,
\* and one for each attempt that was in progress when the window began (Begin
\* counts before it checks; decrement "allows one more login in it, never one
\* fewer").
LimitHolds == \A k \in Counters : wrong[k] <= Limit(k) + carried[k]

\* Nobody is locked out by anything but failures: a count is no more than the attempts
\* that failed in its window and those in progress, whatever was refused, succeeded or
\* was stopped by an outage, unless Redis failed to take a count back (unchecked,
\* takeBack, Succeeded).
NoPhantomFailures ==
  \A k \in Counters : ~lost[k] => count[k] <= wrong[k] + Cardinality(InProgress(k))

\* Every lockout ends by itself: a counter that lets no attempt in, and has none in
\* progress, has a key with a window, at whose end Redis removes it, whatever counts
\* were lost, taken back after the key had expired, or cleared by another attempt
\* (ExpireNX in Begin and decrement).
LockoutHasEnd ==
  \A k \in Counters : count[k] < Limit(k) \/ InProgress(k) # {} \/ k \in keys

\* The limits on failed logins are exact, however many attempts run at once and
\* whatever answers of Redis are lost: they hold, only failures count, and every
\* lockout has an end.
LimitsExact == LimitHolds /\ NoPhantomFailures /\ LockoutHasEnd
=============================================================================
