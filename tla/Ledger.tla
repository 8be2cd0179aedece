------------------------------- MODULE Ledger -------------------------------
(***************************************************************************)
(* What budget enforcement promises to a team, with no database in sight:  *)
(* an account per team and month; a call is let through only while its     *)
(* account is below the amount and refused only when it is not; the bill   *)
(* of a call is posted once, as a whole, to the account of the month it is *)
(* billed in.  A bill may be written off in two cases only: the account of *)
(* that month was never posted to, or the figure would not fit.            *)
(***************************************************************************)
EXTENDS Integers

CONSTANTS Requests, Teams, Budgeted, Amount, MaxSpent, MaxCost, MaxMonth

VARIABLES
    month,     \* the current month
    balance,   \* balance[t][m]: what team t has been charged for month m
    team,      \* team[r]: who pays for r
    account,   \* account[r]: the month r is checked against, then billed in
    status,    \* status[r]: how far the call is
    bill       \* bill[r]: what r costs

vars == <<month, balance, team, account, status, bill>>

Statuses == {"new", "open", "granted", "billed", "closed"}

Init ==
    /\ month = 1
    /\ balance = [t \in Teams |-> [m \in 1..MaxMonth |-> 0]]
    /\ team \in [Requests -> Teams]
    /\ account = [r \in Requests |-> 1]
    /\ status = [r \in Requests |-> "new"]
    /\ bill = [r \in Requests |-> 0]

Balance(r) == balance[team[r]][account[r]]
Move(r, s) == status' = [status EXCEPT ![r] = s]

Open(r) ==
    /\ status[r] = "new"
    /\ Move(r, IF team[r] \in Budgeted THEN "open" ELSE "granted")
    /\ account' = [account EXCEPT ![r] = month]
    /\ UNCHANGED <<month, balance, team, bill>>

Grant(r) ==
    /\ status[r] = "open"
    /\ Balance(r) < Amount[team[r]]
    /\ Move(r, "granted")
    /\ UNCHANGED <<month, balance, team, account, bill>>

Refuse(r) ==
    /\ status[r] = "open"
    /\ Balance(r) >= Amount[team[r]]
    /\ Move(r, "closed")
    /\ UNCHANGED <<month, balance, team, account, bill>>

Bill(r) ==
    /\ status[r] = "granted"
    /\ \E c \in 0..MaxCost :
        /\ bill' = [bill EXCEPT ![r] = c]
        /\ Move(r, IF c > 0 /\ team[r] \in Budgeted THEN "billed" ELSE "closed")
    /\ account' = [account EXCEPT ![r] = month]
    /\ UNCHANGED <<month, balance, team>>

Fail(r) ==
    /\ status[r] = "granted"
    /\ Move(r, "closed")
    /\ UNCHANGED <<month, balance, team, account, bill>>

Post(r) ==
    /\ status[r] = "billed"
    /\ Balance(r) + bill[r] <= MaxSpent
    /\ balance' = [balance EXCEPT ![team[r]][account[r]] = @ + bill[r]]
    /\ Move(r, "closed")
    /\ UNCHANGED <<month, team, account, bill>>

WriteOff(r) ==
    /\ status[r] = "billed"
    /\ Balance(r) = 0 \/ Balance(r) + bill[r] > MaxSpent
    /\ Move(r, "closed")
    /\ UNCHANGED <<month, balance, team, account, bill>>

NextMonth ==
    /\ month < MaxMonth
    /\ month' = month + 1
    /\ UNCHANGED <<balance, team, account, status, bill>>

Next ==
    \/ \E r \in Requests :
        Open(r) \/ Grant(r) \/ Refuse(r) \/ Bill(r) \/ Fail(r) \/ Post(r) \/ WriteOff(r)
    \/ NextMonth

Spec == Init /\ [][Next]_vars
=============================================================================
