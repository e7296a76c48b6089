------------------------------ MODULE EffectLedger ------------------------------
(***************************************************************************)
(* What the workflow store promises about the effects of a run, without    *)
(* workers, leases, retries, attempts or crashes: an effect is planned     *)
(* once, and then at most one of four things happens to it.  It is given   *)
(* to the claw, in one message; it is found to have happened already; it   *)
(* fails for good; or it is withdrawn.                                     *)
(***************************************************************************)
CONSTANTS Effects,      \* what may be planned
          Carriers      \* the messages that can carry an effect to the claw

VARIABLES phase,        \* effect -> unplanned, open, done, failed or withdrawn
          carriers      \* effect -> the messages that carry it

ledger == <<phase, carriers>>

LedgerPhases == {"unplanned", "open", "done", "failed", "withdrawn"}

LedgerInit ==
    /\ phase \in [Effects -> {"unplanned", "open"}]
    /\ carriers = [k \in Effects |-> {}]

\* Any number of effects move from one phase to another.
SomeMove(from, to) ==
    /\ phase' \in [Effects -> LedgerPhases]
    /\ \A k \in Effects : phase'[k] # phase[k] => phase[k] = from /\ phase'[k] = to

Plan == SomeMove("unplanned", "open") /\ UNCHANGED carriers

Withdraw == SomeMove("open", "withdrawn") /\ UNCHANGED carriers

Ends(k, to) == phase[k] = "open" /\ phase' = [phase EXCEPT ![k] = to]

Give(k, m) ==
    /\ carriers[k] = {} /\ \A j \in Effects : m \notin carriers[j]
    /\ Ends(k, "done")
    /\ carriers' = [carriers EXCEPT ![k] = {m}]

Confirm(k) == Ends(k, "done") /\ UNCHANGED carriers

Fail(k) == Ends(k, "failed") /\ UNCHANGED carriers

LedgerNext ==
    \/ Plan \/ Withdraw
    \/ \E k \in Effects : Confirm(k) \/ Fail(k) \/ \E m \in Carriers : Give(k, m)

LedgerSpec == LedgerInit /\ [][LedgerNext]_ledger
================================================================================
