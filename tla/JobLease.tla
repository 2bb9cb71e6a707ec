------------------------------- MODULE JobLease -------------------------------
(***************************************************************************)
(* What the job queue promises about claims, whatever the handlers do:     *)
(* a job has at most one holder, a claim that has not expired is never     *)
(* taken over, every claim burns exactly one attempt, and no job is        *)
(* claimed more than MaxAttempts times between resets, which also end the  *)
(* claim.  JobQueue is shown to implement this.                            *)
(***************************************************************************)
EXTENDS Naturals

CONSTANTS Jobs,         \* job identifiers
          Workers,      \* render machines
          MaxAttempts,  \* claims a job may burn
          NoWorker      \* the holder of an unclaimed job

VARIABLES holder,    \* [Jobs -> Workers \cup {NoWorker}]
          claim,     \* [Jobs -> {"live", "over"}]: has the claim expired or ended
          attempts   \* [Jobs -> Nat]: claims burnt since the last reset

leaseVars == <<holder, claim, attempts>>

Init == /\ holder = [j \in Jobs |-> NoWorker]
        /\ claim = [j \in Jobs |-> "over"]
        /\ attempts = [j \in Jobs |-> 0]

(* A worker takes an unclaimed job, or one whose claim has expired. *)
Claim(w, j) == /\ claim[j] = "over"
               /\ attempts[j] < MaxAttempts
               /\ holder' = [holder EXCEPT ![j] = w]
               /\ claim' = [claim EXCEPT ![j] = "live"]
               /\ attempts' = [attempts EXCEPT ![j] = @ + 1]

(* The claim is extended; the holder stays. *)
Renew(j) == /\ holder[j] # NoWorker
            /\ claim' = [claim EXCEPT ![j] = "live"]
            /\ UNCHANGED <<holder, attempts>>

(* The visibility timeout passes. *)
Expire(j) == /\ claim' = [claim EXCEPT ![j] = "over"]
             /\ UNCHANGED <<holder, attempts>>

(* Claims are given up or withdrawn; the attempts they burnt stay burnt. *)
Release(S) == /\ holder' = [j \in Jobs |-> IF j \in S THEN NoWorker ELSE holder[j]]
              /\ claim' = [j \in Jobs |-> IF j \in S THEN "over" ELSE claim[j]]
              /\ UNCHANGED attempts

(* The job starts again from zero attempts, and unclaimed. *)
Reset(j) == /\ holder' = [holder EXCEPT ![j] = NoWorker]
            /\ claim' = [claim EXCEPT ![j] = "over"]
            /\ attempts' = [attempts EXCEPT ![j] = 0]

Next == \/ \E w \in Workers, j \in Jobs : Claim(w, j)
        \/ \E j \in Jobs : Renew(j) \/ Expire(j) \/ Reset(j)
        \/ \E S \in SUBSET Jobs : Release(S)

Spec == Init /\ [][Next]_leaseVars
===============================================================================
