------------------------------ MODULE KVStore ------------------------------
(***************************************************************************)
(* What one barrel promises to the program that opened it, with no word of *)
(* log files, positions or indexes.                                        *)
(*                                                                         *)
(*   visible   what a read finds now                                       *)
(*   durable   what the next open of the same path will find               *)
(*   intact    no append has been cut short in this data file, so every    *)
(*             acknowledged write also changes durable                     *)
(*                                                                         *)
(* clear() empties only what is visible; a restart shows what is durable.  *)
(***************************************************************************)
CONSTANTS
  Key,
  Entry,    \* a value with its expiry time
  Absent    \* no entry: never written, deleted or cleared

VARIABLES visible, durable, intact

kvVars == <<visible, durable, intact>>

Contents == [Key -> Entry \cup {Absent}]
Nothing  == [k \in Key |-> Absent]

TypeOK ==
  /\ visible \in Contents
  /\ durable \in Contents
  /\ intact \in BOOLEAN

Init ==
  /\ visible = Nothing
  /\ durable = Nothing
  /\ intact = TRUE

(* A write (e \in Entry) or a deletion (e = Absent).  Once the file holds a *)
(* torn record the write is visible, but no restart will find it.          *)
Write(k, e) ==
  /\ visible' = [visible EXCEPT ![k] = e]
  /\ durable' = IF intact THEN [durable EXCEPT ![k] = e] ELSE durable
  /\ UNCHANGED intact

(* clear(): every key disappears until it is written again or the barrel    *)
(* restarts.                                                               *)
Forget ==
  /\ visible' = Nothing
  /\ UNCHANGED <<durable, intact>>

(* The barrel closes, or its process dies between two operations.           *)
Restart ==
  /\ visible' = durable
  /\ UNCHANGED <<durable, intact>>

(* The process dies in the middle of an append.                             *)
Tear ==
  /\ visible' = durable
  /\ intact' = FALSE
  /\ UNCHANGED durable

Next ==
  \/ \E k \in Key, e \in Entry \cup {Absent} : Write(k, e)
  \/ Forget
  \/ Restart
  \/ Tear

Spec == Init /\ [][Next]_kvVars

=============================================================================
