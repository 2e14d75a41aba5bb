------------------------------ MODULE WorkQueue ------------------------------
(***************************************************************************)
(* What every leased request queue of the backend promises to the rest of  *)
(* the system.  Work is submitted under a key; a key has one open attempt  *)
(* at a time; a worker takes the open attempt under a claim that was never *)
(* used before, and may take it again when the earlier holder is presumed  *)
(* gone; an attempt ends once, and only while it is held.                  *)
(* MetadataWorker and RankingSync implement this module under a refinement *)
(* mapping of their rows.                                                  *)
(***************************************************************************)
EXTENDS Naturals, Sequences

CONSTANT Keys

VARIABLES attempts,  \* the attempts made under each key, the oldest first
          taken      \* how many claims were ever handed out

vars == <<attempts, taken>>

Outcomes == {"done", "failed"}
Attempt  == [phase : {"queued", "held"} \cup Outcomes, holder : Nat]

Last(k) == attempts[k][Len(attempts[k])]
Open(k) == attempts[k] # <<>> /\ Last(k).phase \in {"queued", "held"}

SetLast(k, attempt) ==
  attempts' = [attempts EXCEPT ![k][Len(attempts[k])] = attempt]

Init == attempts = [k \in Keys |-> <<>>] /\ taken = 0

\* Work is asked for: a new attempt, unless the key has one open.
Submit(k) ==
  /\ ~Open(k)
  /\ attempts' = [attempts EXCEPT ![k] =
                    Append(@, [phase |-> "queued", holder |-> 0])]
  /\ UNCHANGED taken

\* A worker takes the open attempt; an earlier holder loses it.
Take(k) ==
  /\ Open(k)
  /\ taken' = taken + 1
  /\ SetLast(k, [phase |-> "held", holder |-> taken + 1])

\* The holder ends its attempt.
End(k, outcome) ==
  /\ Open(k) /\ Last(k).phase = "held"
  /\ SetLast(k, [phase |-> outcome, holder |-> 0])
  /\ UNCHANGED taken

Next == \E k \in Keys : \/ Submit(k) \/ Take(k)
                        \/ \E outcome \in Outcomes : End(k, outcome)

Spec == Init /\ [][Next]_vars
==============================================================================
