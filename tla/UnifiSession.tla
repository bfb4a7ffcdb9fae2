---------------------------- MODULE UnifiSession ----------------------------
(***************************************************************************)
(* The session with the UniFi controller that all threads of a process     *)
(* share (unifi.py): one cookie jar, used again as long as it is thought   *)
(* good, a login under a lock, and requests that log in again once when    *)
(* the controller refuses the cookie.                                      *)
(*                                                                         *)
(* A request sends the jar's cookie under the lock and waits for the       *)
(* answer without it, so another thread may clear or replace the cookie    *)
(* in between.  The cookie is good until the controller ends its session.  *)
(***************************************************************************)
EXTENDS Naturals, FiniteSets

CONSTANTS Threads,
          MaxLoginAttempts, MaxAttempts,   \* of a login; of a request
          MaxRequests, MaxExpiries, MaxFaults   \* bounds of the model

VARIABLES
  jar,       \* the cookie held: none, good, or ended by the controller
  fresh,     \* the jar is younger than the reuse window
  expiries,  \* sessions the controller ended or the reuse window aged
  faults,    \* throttled and lost calls
  lock,      \* the thread that holds the session's lock
  t          \* Threads -> its control state

vars == <<jar, fresh, expiries, faults, lock, t>>

None == "none"
Nobody == "nobody"
Idle == [at |-> "idle", relogin |-> TRUE, attempt |-> 1, tries |-> 1, nth |-> 1]

Init == /\ jar = None /\ fresh = FALSE
        /\ expiries = 0 /\ faults = 0
        /\ lock = Nobody
        /\ t = [x \in Threads |-> Idle]

Goto(x, at) == t' = [t EXCEPT ![x].at = at]

-----------------------------------------------------------------------------
(* login(): with the lock, look whether the session can be used again.     *)

Lock(x) == /\ t[x].at \in {"idle", "again"} /\ lock = Nobody
           /\ lock' = x
           /\ Goto(x, IF t[x].at = "idle" THEN "login" ELSE "relogin")
           /\ UNCHANGED <<jar, fresh, expiries, faults>>

Locked(x) == t[x].at \in {"login", "relogin"} /\ lock = x

SessionActive == jar # None /\ fresh

(* A thread that just waited for another one's login uses it.              *)
Reuse(x) == /\ Locked(x) /\ SessionActive
            /\ lock' = Nobody
            /\ t' = [t EXCEPT ![x].at = "send", ![x].tries = 1]
            /\ UNCHANGED <<jar, fresh, expiries, faults>>

LoginLocked(x) == /\ Locked(x) /\ ~SessionActive
                  /\ jar' = "good" /\ fresh' = TRUE
                  /\ lock' = Nobody
                  /\ t' = [t EXCEPT ![x].at = "send", ![x].tries = 1]
                  /\ UNCHANGED <<expiries, faults>>

(* A refused or lost login is tried again after a pause, the lock held.    *)
LoginFails(x) ==
  /\ Locked(x) /\ ~SessionActive /\ faults < MaxFaults
  /\ faults' = faults + 1
  /\ IF t[x].tries < MaxLoginAttempts
     THEN t' = [t EXCEPT ![x].tries = @ + 1] /\ UNCHANGED lock
     ELSE t' = [t EXCEPT ![x].at = "failed"] /\ lock' = Nobody
  /\ UNCHANGED <<jar, fresh, expiries>>

-----------------------------------------------------------------------------
(* _request(): the answer to the cookie that was sent.                     *)

Send(x) == /\ t[x].at = "send" /\ lock = Nobody
           /\ Goto(x, IF jar = "good" THEN "granted"
                      ELSE IF jar # None THEN "refused" ELSE "refusedBare")
           /\ UNCHANGED <<jar, fresh, expiries, faults, lock>>

Served(x) == /\ t[x].at = "granted"
             /\ Goto(x, "served")
             /\ UNCHANGED <<jar, fresh, expiries, faults, lock>>

(* 429, or a lost connection on a read: again after a pause, a few times.  *)
Throttled(x) ==
  /\ t[x].at \in {"granted", "refused"} /\ faults < MaxFaults
  /\ faults' = faults + 1
  /\ t' = [t EXCEPT ![x].at = IF t[x].attempt < MaxAttempts THEN "send" ELSE "failed",
                    ![x].attempt = @ + 1]
  /\ UNCHANGED <<jar, fresh, expiries, lock>>

(* 401 or 403: when the jar still holds a cookie and this request has not  *)
(* logged in again yet, the session is dropped and a login follows.        *)
Refused(x) ==
  /\ t[x].at \in {"refused", "refusedBare"} /\ lock = Nobody
  /\ IF t[x].relogin /\ jar # None
     THEN /\ jar' = None /\ fresh' = FALSE
          /\ t' = [t EXCEPT ![x].at = "again", ![x].relogin = FALSE, ![x].attempt = 1]
     ELSE /\ Goto(x, "failed")
          /\ UNCHANGED <<jar, fresh>>
  /\ UNCHANGED <<expiries, faults, lock>>

Rest(x) == /\ t[x].at \in {"served", "failed"} /\ t[x].nth < MaxRequests
           /\ t' = [t EXCEPT ![x] = [Idle EXCEPT !.nth = t[x].nth + 1]]
           /\ UNCHANGED <<jar, fresh, expiries, faults, lock>>

-----------------------------------------------------------------------------
(* The controller ends the session; the reuse window ends.                 *)

Expires == /\ jar = "good" /\ expiries < MaxExpiries
           /\ jar' = "ended" /\ expiries' = expiries + 1
           /\ UNCHANGED <<fresh, faults, lock, t>>

Ages == /\ fresh /\ expiries < MaxExpiries
        /\ fresh' = FALSE /\ expiries' = expiries + 1
        /\ UNCHANGED <<jar, faults, lock, t>>

Next == \/ Expires \/ Ages
        \/ \E x \in Threads : \/ Lock(x) \/ Reuse(x) \/ LoginLocked(x) \/ LoginFails(x)
                              \/ Send(x) \/ Served(x) \/ Throttled(x) \/ Refused(x)
                              \/ Rest(x)

Spec == Init /\ [][Next]_vars

-----------------------------------------------------------------------------
TypeOK == /\ jar \in {None, "good", "ended"} /\ (fresh => jar # None)
          /\ lock \in Threads \union {Nobody}
          /\ \A x \in Threads : /\ t[x].attempt \in 1 .. MaxAttempts + 1
                                /\ t[x].tries \in 1 .. MaxLoginAttempts

(* unifi.py:82-83: concurrent callers "wait, then see the just-established *)
(* session and reuse it": no thread throws away a session the controller   *)
(* still honours.                                                          *)
GoodSessionIsKept == [][jar = "good" => jar' # None]_jar

(* unifi.py:154-155: "On 401/403 (session expired or revoked) it           *)
(* re-authenticates ONCE and retries": when no call is lost and only one   *)
(* session ends, no request fails, whatever the other threads do meanwhile. *)
ExpiryIsBridged ==
  faults = 0 /\ expiries <= 1 => \A x \in Threads : t[x].at # "failed"

=============================================================================
