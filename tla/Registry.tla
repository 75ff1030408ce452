------------------------------ MODULE Registry ------------------------------
(***************************************************************************)
(* What clients of the management API may rely on: a durable table from    *)
(* stream ids to configurations that changes only as a pending call asks   *)
(* for.  A call to create takes effect at most once and never replaces an  *)
(* entry; a call to update changes the pipeline of an entry that is still  *)
(* there and nothing else of it, so it cannot bring back one that was      *)
(* deleted while it was pending; each change touches one entry; and a call *)
(* that was answered, or lost, changes nothing any more.                   *)
(***************************************************************************)
CONSTANTS Ids, Ports, NoPort, Pipes, Clients, None

VARIABLES
  table,   \* the entries
  calls,   \* what each client has asked for and has not been answered
  doubt    \* the ids of which the table promises nothing

Entries == [port : Ports \cup {NoPort}, pipe : Pipes]

New  == [op |-> "new", id |-> None, val |-> None]
Done == [op |-> "done", id |-> None, val |-> None]

TableInit == /\ table \in [Ids -> Entries \cup {None}]
             /\ calls = [c \in Clients |-> New]
             /\ doubt = {}

Answered(c) == calls' = [calls EXCEPT ![c] = Done]

Create(c, id) == /\ calls[c].op = "create" /\ calls[c].id = id
                 /\ table[id] = None
                 /\ table' = [table EXCEPT ![id] = calls[c].val]
                 /\ Answered(c)

Update(c, id) == /\ calls[c].op = "update" /\ calls[c].id = id
                 /\ table[id] # None
                 /\ table' = [table EXCEPT ![id].pipe = calls[c].val]
                 /\ Answered(c)

Delete(c, id) == /\ calls[c] = New
                 /\ table[id] # None
                 /\ table' = [table EXCEPT ![id] = None]
                 /\ Answered(c)

\* Clients ask, and are answered or lost.
Talk == \A c \in Clients : calls'[c] = calls[c] \/ calls[c] = New \/ calls'[c] = Done

Stray(id) == /\ id \in doubt
             /\ \A other \in Ids \ {id} : table'[other] = table[other]
             /\ Talk

TableNext == \/ \E c \in Clients, id \in Ids : Create(c, id) \/ Update(c, id) \/ Delete(c, id)
             \/ \E id \in Ids : Stray(id)
             \/ Talk /\ UNCHANGED table

RegistrySpec == TableInit /\ [][TableNext]_<<table, calls, doubt>>
=============================================================================
