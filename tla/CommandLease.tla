----------------------------- MODULE CommandLease ------------------------------
(***************************************************************************)
(* What the cloud promises about the manual tests of one device: each is a *)
(* lease of the lamp.  Leases are granted one after the other, a lease     *)
(* goes on only by what the device has reported of it, and once stopped it *)
(* is held until the lamp is reported off.  A lease that is not stopped    *)
(* may lapse at any time, and one that is over is never taken up again.    *)
(***************************************************************************)
EXTENDS Naturals

CONSTANTS
  MaxLeases  \* bound on the leases

VARIABLES
  lease,    \* where each lease stands
  reported  \* what the device has reported of each

leaseVars == <<lease, reported>>

Leases == 1 .. MaxLeases
Held == {"QUEUED", "FORWARDED", "RECEIVED", "APPLIED"}
Ending == {"OFF", "FAILED", "EXPIRED"}
Reports == (Held \ {"QUEUED"}) \cup Ending \cup {"CANCELLED"}

LeaseInit ==
  /\ lease = [n \in Leases |-> "ABSENT"]
  /\ reported = {}

(* The next lease, when no other is held or the one that is lapses.        *)
Grant(n) ==
  /\ \A m \in Leases : lease[m] = "ABSENT" <=> m >= n
  /\ \A m \in Leases : lease[m] # "CANCELLED"
  /\ lease' = [m \in Leases |-> IF m = n THEN "QUEUED" ELSE IF lease[m] \in Held THEN "EXPIRED" ELSE lease[m]]
  /\ UNCHANGED reported

Lapse(n) ==
  /\ lease[n] \in Held
  /\ lease' = [lease EXCEPT ![n] = "EXPIRED"]
  /\ UNCHANGED reported

(* On the word of the administrator or of the device.                      *)
Stop(n) ==
  /\ lease[n] \in Held
  /\ lease' = [lease EXCEPT ![n] = "CANCELLED"]
  /\ UNCHANGED reported

(* The device reports on a lease, again or late as it may be.              *)
Report(n, e) ==
  /\ lease[n] # "ABSENT"
  /\ reported' = reported \cup {<<n, e>>}
  /\ UNCHANGED lease

(* One report moves a lease one step on, or ends it.                       *)
Advance(n, e) ==
  /\ <<n, e>> \in reported
  /\ <<lease[n], e>> \in {<<"QUEUED", "FORWARDED">>, <<"FORWARDED", "RECEIVED">>, <<"RECEIVED", "APPLIED">>,
                          <<"APPLIED", "OFF">>, <<"CANCELLED", "OFF">>}
       \cup Held \X {"FAILED"}
  /\ lease' = [lease EXCEPT ![n] = e]
  /\ UNCHANGED reported

LeaseNext ==
  \E n \in Leases :
    \/ Grant(n) \/ Lapse(n) \/ Stop(n)
    \/ \E e \in Reports : Report(n, e) \/ Advance(n, e)

LeaseSpec == LeaseInit /\ [][LeaseNext]_leaseVars

(* At any time at most one lease is held or being stopped: this is what    *)
(* create_manual_command promises an administrator who starts a test.     *)
OneLease == \A m, n \in Leases : {lease[m], lease[n]} \subseteq Held \cup {"CANCELLED"} => m = n

================================================================================
