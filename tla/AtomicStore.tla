---------------------------- MODULE AtomicStore ----------------------------
(***************************************************************************)
(* What GTStore promises its clients (README, "Client library"): a map     *)
(* from keys to versioned values on which every put and every get takes    *)
(* effect at one instant between its call and its return.  A put installs  *)
(* the version after the one its client last read; a get returns the value *)
(* and the version of one state of the map.  After a failure a call may    *)
(* return without an answer, its effect applied or not.                    *)
(***************************************************************************)
EXTENDS Naturals

CONSTANTS Clients, Keys, PutValues, EmptyValue, VersionLimit, None

Absent == [val |-> EmptyValue, ver |-> 0]

VARIABLES
  db,      \* key -> value and version
  pend,    \* client -> the call in progress
  known,   \* client -> key -> the version it last read
  ret,     \* client -> what its last get returned
  faulty   \* a process has failed

vars == <<db, pend, known, ret, faulty>>

Init ==
  /\ db = [k \in Keys |-> Absent]
  /\ pend = [c \in Clients |-> None]
  /\ known = [c \in Clients |-> [k \in Keys |-> 0]]
  /\ ret = [c \in Clients |-> EmptyValue]
  /\ faulty = FALSE

Begin(c, op, k, v) ==
  /\ pend[c] = None
  /\ pend' = [pend EXCEPT ![c] = [op |-> op, key |-> k, val |-> v,
                                  done |-> FALSE, cell |-> Absent]]
  /\ UNCHANGED <<db, known, ret, faulty>>

Waiting(c, op) == pend[c] # None /\ pend[c].op = op /\ ~pend[c].done

ApplyPut(c) ==
  /\ Waiting(c, "put")
  /\ LET k == pend[c].key
     IN  db' = [db EXCEPT ![k] = [val |-> pend[c].val,
                                  ver |-> (known[c][k] + 1) % VersionLimit]]
  /\ pend' = [pend EXCEPT ![c].done = TRUE]
  /\ UNCHANGED <<known, ret, faulty>>

ApplyGet(c) ==
  /\ Waiting(c, "get")
  /\ pend' = [pend EXCEPT ![c].done = TRUE, ![c].cell = db[pend[c].key]]
  /\ UNCHANGED <<db, known, ret, faulty>>

Return(c) ==
  /\ pend[c] # None /\ pend[c].done
  /\ IF pend[c].op = "get"
     THEN /\ ret' = [ret EXCEPT ![c] = pend[c].cell.val]
          /\ known' = [known EXCEPT ![c][pend[c].key] = pend[c].cell.ver]
     ELSE UNCHANGED <<ret, known>>
  /\ pend' = [pend EXCEPT ![c] = None]
  /\ UNCHANGED <<db, faulty>>

Abandon(c) ==
  /\ faulty /\ pend[c] # None
  /\ pend' = [pend EXCEPT ![c] = None]
  /\ UNCHANGED <<db, known, ret, faulty>>

Fail ==
  /\ faulty' = TRUE
  /\ UNCHANGED <<db, pend, known, ret>>

Next ==
  \/ \E c \in Clients :
       \/ \E k \in Keys : \/ \E v \in PutValues : Begin(c, "put", k, v)
                          \/ Begin(c, "get", k, EmptyValue)
       \/ ApplyPut(c) \/ ApplyGet(c) \/ Return(c) \/ Abandon(c)
  \/ Fail

Spec == Init /\ [][Next]_vars
=============================================================================
