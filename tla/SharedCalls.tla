---------------------------- MODULE SharedCalls ----------------------------
(***************************************************************************)
(* What the deduplication promises, without lock, stored result, channel   *)
(* or clock: requests that want the same thing share the response of one   *)
(* vendor call.  A request makes a call of its own or takes the response   *)
(* of another's successful call for the same key, never both; while a call *)
(* for a key is in flight no other begins, unless one of the key was late. *)
(***************************************************************************)
CONSTANTS Request, Key, None

VARIABLES state,   \* where a request stands
          want,    \* the key it wants a response for
          answer,  \* the request whose call gave it its response
          late     \* keys of which some call was late

vars == <<state, want, answer, late>>

InFlight(r) == state[r] \in {"calling", "settled"}
Begun(r) == state[r] \in {"asking", "calling", "settled"}
Move(r, from, to) == state[r] = from /\ state' = [state EXCEPT ![r] = to]

Init ==
  /\ state = [r \in Request |-> "idle"]
  /\ want = [r \in Request |-> None]
  /\ answer = [r \in Request |-> None]
  /\ late = {}

Ask(r) ==
  /\ Move(r, "idle", "asking")
  /\ \E k \in Key : want' = [want EXCEPT ![r] = k]
  /\ UNCHANGED <<answer, late>>

BeginCall(r) ==
  /\ Move(r, "asking", "calling")
  /\ want[r] \in late \/ \A s \in Request : InFlight(s) => want[s] # want[r]
  /\ UNCHANGED <<want, answer, late>>

CallSucceeds(r) ==
  /\ Move(r, "calling", "settled")
  /\ answer' = [answer EXCEPT ![r] = r]
  /\ UNCHANGED <<want, late>>

CallFails(r) == Move(r, "calling", "settled") /\ UNCHANGED <<want, answer, late>>

Leave(r) == Move(r, "settled", "ended") /\ UNCHANGED <<want, answer, late>>

Share(r) ==
  /\ Move(r, "asking", "ended")
  /\ \E s \in Request : /\ answer[s] = s /\ want[s] = want[r]
                        /\ answer' = [answer EXCEPT ![r] = s]
  /\ UNCHANGED <<want, late>>

GiveUp(r) == Move(r, "asking", "ended") /\ UNCHANGED <<want, answer, late>>

(* Some of the calls in flight turn out to be late.                        *)
RunLate ==
  /\ \E R \in SUBSET {r \in Request : InFlight(r)} :
       late' = late \cup {want[r] : r \in R}
  /\ UNCHANGED <<state, want, answer>>

Crash ==
  /\ state' = [r \in Request |-> IF Begun(r) THEN "gone" ELSE state[r]]
  /\ UNCHANGED <<want, answer, late>>

Next ==
  \/ \E r \in Request :
       \/ Ask(r) \/ BeginCall(r) \/ CallSucceeds(r) \/ CallFails(r)
       \/ Leave(r) \/ Share(r) \/ GiveUp(r)
  \/ RunLate
  \/ Crash

Spec == Init /\ [][Next]_vars
=============================================================================
