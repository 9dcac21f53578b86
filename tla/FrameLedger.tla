------------------------------ MODULE FrameLedger ------------------------------
(***************************************************************************)
(* What the cloud promises about the JPEGs of one session, whatever a      *)
(* gateway sends and however often it repeats it: the first content kept   *)
(* for a slot (a capture and a frame index) is the only one ever kept      *)
(* there, and a content is confirmed only once it is kept.                 *)
(***************************************************************************)
CONSTANTS
  Slots,
  Contents,
  NoContent

VARIABLES
  ledger,    \* the content kept for a slot
  confirmed  \* slots and contents a gateway has been answered 2xx for

ledgerVars == <<ledger, confirmed>>

LedgerInit ==
  /\ ledger = [s \in Slots |-> NoContent]
  /\ confirmed = {}

(* The original of a slot is written, and never overwritten.               *)
Keep(s, c) ==
  /\ ledger[s] = NoContent
  /\ ledger' = [ledger EXCEPT ![s] = c]
  /\ UNCHANGED confirmed

(* A gateway is told that its content is kept.                             *)
Confirm(s, c) ==
  /\ ledger[s] = c
  /\ confirmed' = confirmed \cup {<<s, c>>}
  /\ UNCHANGED ledger

LedgerNext == \E s \in Slots, c \in Contents : Keep(s, c) \/ Confirm(s, c)

LedgerSpec == LedgerInit /\ [][LedgerNext]_ledgerVars

(* A content the gateway was told is kept, is kept: the gateway deletes    *)
(* its JPEG on that word (UploadWorker, after a 2xx).                      *)
ConfirmedIsKept == \A p \in confirmed : ledger[p[1]] = p[2]

================================================================================
