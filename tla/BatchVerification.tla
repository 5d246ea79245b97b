------------------------- MODULE BatchVerification -------------------------
(***************************************************************************)
(* What verify_batch promises: the caller's slice receives, for every      *)
(* input, the verdict of the policy on that input alone, once, in whatever *)
(* order, and the call returns only when all are written.  Nothing here    *)
(* knows of lanes, caches or queues.                                       *)
(***************************************************************************)
EXTENDS Policy, Sequences

CONSTANTS Batches,   \* the batches a caller may submit: sequences of inputs
          Unwritten  \* what the caller's slice holds before the call

VARIABLES policy,  \* of the verifier that serves
          batch,   \* the inputs of the call
          out,     \* the caller's slice
          state    \* "idle", "verifying" or "done"

vars == <<policy, batch, out, state>>

\* [8](sB - kA - R) is the identity, for a canonical s.
Zip215Accepts(i) ==
    /\ i.s < L
    /\ i.key.onCurve
    /\ i.r.onCurve
    /\ EqualUpToTorsion(Combination(i.s, i.k, i.key.point), i.r.point)

\* R is the canonical encoding of sB - kA for a canonical s, and neither R nor
\* the key is of small order.
DalekAccepts(i) ==
    /\ i.s < L
    /\ i.key.onCurve
    /\ ~IsSmallOrder(i.key.point)
    /\ i.r = Compressed(Combination(i.s, i.k, i.key.point))
    /\ ~IsSmallOrder(i.r.point)

Accepts(i) == IF policy = "Dalek" THEN DalekAccepts(i) ELSE Zip215Accepts(i)

Init == /\ policy \in Policies
        /\ batch = << >>
        /\ out = << >>
        /\ state = "idle"

\* The caller goes on with a verifier of this policy.
Switch(p) == /\ state = "idle"
             /\ policy' = p
             /\ UNCHANGED <<batch, out, state>>

Submit(b) == /\ state = "idle"
             /\ batch' = b
             /\ out' = [i \in DOMAIN b |-> Unwritten]
             /\ state' = "verifying"
             /\ UNCHANGED policy

\* Some of the verdicts that are still due, or the last of them all together
Write == /\ state = "verifying"
         /\ \E done \in SUBSET {i \in DOMAIN batch : out[i] = Unwritten} :
               out' = [i \in DOMAIN batch |-> IF i \in done THEN Accepts(batch[i]) ELSE out[i]]
         /\ state' \in {"verifying", "done"}
         /\ state' = "done" => \A i \in DOMAIN batch : out'[i] # Unwritten
         /\ UNCHANGED <<policy, batch>>

\* The caller has the slice back.
Return == /\ state = "done"
          /\ batch' = << >>
          /\ out' = << >>
          /\ state' = "idle"
          /\ UNCHANGED policy

Next == (\E p \in Policies : Switch(p)) \/ (\E b \in Batches : Submit(b)) \/ Write \/ Return

Spec == Init /\ [][Next]_vars
=============================================================================
