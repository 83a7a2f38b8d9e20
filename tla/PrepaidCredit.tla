---------------------------- MODULE PrepaidCredit ----------------------------
(***************************************************************************)
(* What prepaid credit promises, with no page, checkout, provider or slot  *)
(* in it: a balance that never leaves its range, moved by credit that was  *)
(* paid for, by what is spent and by what an operator adjusts, each under  *)
(* an identity that moves money once.  Credit may come to be doubted, even *)
(* before it is there; its account then spends nothing until the doubt is  *)
(* settled, which takes the credit, on that very account, and is for good. *)
(* (ccfleetd/wallet.py, wallet_topups.py, store.spending_blocked.)         *)
(***************************************************************************)
EXTENDS Integers

CONSTANTS Accounts, Limit, Identities, Events

VARIABLES
  balance,                    \* what each account has
  credited, spent, adjusted,  \* the moves made so far
  doubted, settled            \* credit under review, and reviewed

vars == <<balance, credited, spent, adjusted, doubted, settled>>

Doubts == [order : Identities, account : Accounts, event : Events]

Init ==
  /\ balance = [a \in Accounts |-> 0]
  /\ credited = {} /\ spent = {} /\ adjusted = {}
  /\ doubted = {} /\ settled = {}

Move(k, a, n) == [identity |-> k, account |-> a, cents |-> n]

Gain(a) == balance'[a] - balance[a]

(* The balance of one account moves, under an identity no move bears yet.   *)
Moves(k, a) ==
  /\ \A m \in credited \cup spent \cup adjusted : m.identity # k
  /\ balance'[a] \in 0..Limit
  /\ balance' = [balance EXCEPT ![a] = balance[a] + Gain(a)]

InDoubt(a) == \E d \in doubted \ settled : d.account = a

Credit(k, a) ==
  /\ Gain(a) > 0 /\ Moves(k, a)
  /\ credited' = credited \cup {Move(k, a, Gain(a))}
  /\ UNCHANGED <<spent, adjusted, doubted, settled>>

Spend(k, a) ==
  /\ Gain(a) < 0 /\ Moves(k, a) /\ ~InDoubt(a)
  /\ spent' = spent \cup {Move(k, a, -Gain(a))}
  /\ UNCHANGED <<credited, adjusted, doubted, settled>>

Adjust(k, a) ==
  /\ Moves(k, a)
  /\ adjusted' = adjusted \cup {Move(k, a, Gain(a))}
  /\ UNCHANGED <<credited, spent, doubted, settled>>

Doubt(d) ==
  /\ d \notin doubted
  /\ doubted' = doubted \cup {d}
  /\ UNCHANGED <<balance, credited, spent, adjusted, settled>>

Settle(d) ==
  /\ d \in doubted \ settled
  /\ \E m \in credited : m.identity = d.order /\ m.account = d.account
  /\ settled' = settled \cup {d}
  /\ UNCHANGED <<balance, credited, spent, adjusted, doubted>>

Next ==
  \/ \E a \in Accounts : Gain(a) # 0 /\ \E k \in Identities :
       Credit(k, a) \/ Spend(k, a) \/ Adjust(k, a)
  \/ \E d \in Doubts : Doubt(d) \/ Settle(d)

Spec == Init /\ [][Next]_vars

=============================================================================
