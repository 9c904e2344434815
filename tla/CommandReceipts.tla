--------------------------- MODULE CommandReceipts ---------------------------
(***************************************************************************)
(* What the Plugin promises about an idempotency key: the call that        *)
(* reserved it is the only one to settle it; a key whose holder is lost    *)
(* stays pending for good; a settled key keeps its intent and its outcome  *)
(* until retention forgets it, and only settled keys are forgotten.        *)
(***************************************************************************)
CONSTANTS Keys, Calls, Intents, Nobody

VARIABLE receipt

Absent == [phase |-> "absent"]

Pending(c, i) == [phase |-> "pending", holder |-> c, intent |-> i]

Settled(i, o) == [phase |-> "settled", intent |-> i, outcome |-> o]

Init == receipt = [k \in Keys |-> Absent]

Reserve(k, c, i) ==
  /\ receipt[k] = Absent
  /\ \A j \in Keys : receipt[j].phase = "pending" => receipt[j].holder # c
  /\ receipt' = [receipt EXCEPT ![k] = Pending(c, i)]

\* On any outcome.
Settle(k) ==
  /\ receipt[k].phase = "pending"
  /\ receipt[k].holder # Nobody
  /\ receipt'[k].phase = "settled"
  /\ receipt' = [receipt EXCEPT ![k] = Settled(receipt[k].intent, receipt'[k].outcome)]

Lose(k) ==
  /\ receipt[k].phase = "pending"
  /\ receipt' = [receipt EXCEPT ![k].holder = Nobody]

\* Any number of settled keys at once.
Forget ==
  /\ DOMAIN receipt' = Keys
  /\ \A k \in Keys :
       receipt'[k] # receipt[k] => receipt[k].phase = "settled" /\ receipt'[k] = Absent

Next ==
  \/ Forget
  \/ \E k \in Keys : Settle(k) \/ Lose(k)
  \/ \E k \in Keys, c \in Calls, i \in Intents : Reserve(k, c, i)

Spec == Init /\ [][Next]_receipt
=============================================================================
