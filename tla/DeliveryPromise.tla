-------------------------- MODULE DeliveryPromise ---------------------------
(***************************************************************************)
(* What deliver_once of app/infra/sns.py promises its callers, without its *)
(* steps: an attempt to send a notification begins only while there is no  *)
(* receipt, or when the receipts cannot be read; an attempt sends one copy *)
(* at most; and a receipt is written only for a notification of which a    *)
(* copy was sent, so that a receipt never hides one that was not.          *)
(***************************************************************************)
EXTENDS Naturals

CONSTANTS
  Notifs,   \* notifications
  Runners   \* who may attempt to send one

VARIABLES
  trying,   \* the runners that may still send a notification
  copies,   \* copies of a notification sent to the topic
  receipt,  \* notifications known to be delivered
  blind     \* attempts that began without reading the receipts

promiseVars == <<trying, copies, receipt, blind>>

PromiseInit ==
  /\ trying = [n \in Notifs |-> {}]
  /\ copies = [n \in Notifs |-> 0]
  /\ receipt = {}
  /\ blind = [n \in Notifs |-> 0]

Try(n, r) ==
  /\ n \notin receipt
  /\ trying' = [trying EXCEPT ![n] = @ \cup {r}]
  /\ UNCHANGED <<copies, receipt, blind>>

TryBlindly(n, r) ==
  /\ trying' = [trying EXCEPT ![n] = @ \cup {r}]
  /\ blind' = [blind EXCEPT ![n] = @ + 1]
  /\ UNCHANGED <<copies, receipt>>

Send(n, r) ==
  /\ r \in trying[n]
  /\ trying' = [trying EXCEPT ![n] = @ \ {r}]
  /\ copies' = [copies EXCEPT ![n] = @ + 1]
  /\ UNCHANGED <<receipt, blind>>

GiveUp(n, r) ==
  /\ r \in trying[n]
  /\ trying' = [trying EXCEPT ![n] = @ \ {r}]
  /\ UNCHANGED <<copies, receipt, blind>>

Confirm(n) ==
  /\ copies[n] > 0
  /\ receipt' = receipt \cup {n}
  /\ UNCHANGED <<trying, copies, blind>>

(* A receipt lapses after its time to live.                                *)
Forget(n) ==
  /\ receipt' = receipt \ {n}
  /\ UNCHANGED <<trying, copies, blind>>

PromiseNext ==
  \E n \in Notifs :
    \/ Confirm(n)
    \/ Forget(n)
    \/ \E r \in Runners : Try(n, r) \/ TryBlindly(n, r) \/ Send(n, r) \/ GiveUp(n, r)

PromiseSpec == PromiseInit /\ [][PromiseNext]_promiseVars
=============================================================================
