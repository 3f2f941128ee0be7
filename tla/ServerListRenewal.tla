------------------------- MODULE ServerListRenewal -------------------------
(***************************************************************************)
(* The signed list of index servers and its renewal on Mainline            *)
(* (iroh-mainline-endpoint-discovery/src/server_list.rs, republisher.rs,   *)
(* bin/iroh-index-list.rs).                                                *)
(*                                                                         *)
(* A signed list is a number: their order is that of the sequence number   *)
(* and, between lists with the same one, of the bytes. Nodes of Mainline   *)
(* hold lists of different age.                                            *)
(***************************************************************************)
EXTENDS Integers, FiniteSets

CONSTANTS Server,    \* sockets that pass valid_address
          Item,      \* the items signed by the key of the list
          Addresses, \* the sockets in each; an empty set is a withdrawal
          Malformed, \* the items that do not decode
          Renewed,   \* the lists that their operator renews
          Absent     \* no item

ASSUME ItemAssumption ==
  /\ Item \subseteq Nat /\ Malformed \subseteq Item /\ Renewed \subseteq Item
  /\ Addresses \in [Item -> SUBSET Server]
  /\ Absent \notin Item

VARIABLES
  held,    \* the items that nodes of Mainline hold
  renewing \* the republisher of each list

listVars == <<held, renewing>>

\* ServerList::decode, and ServerList::new, which allows two servers.
Decodes(item) == item \notin Malformed /\ Cardinality(Addresses[item]) <= 2

InitList ==
  /\ held = Malformed
  /\ renewing = [i \in Renewed |-> "off"]

\* iroh-index-list: the list is signed and republish_server_list begins, unless it does not
\* decode.
SignList(i) ==
  /\ renewing[i] = "off"
  /\ Decodes(i)
  /\ renewing' = [renewing EXCEPT ![i] = "put"]
  /\ UNCHANGED held

\* renew: the list is put; a failure or a timeout may have reached some nodes.
Put(i) ==
  /\ renewing[i] = "put"
  /\ held' \in {held, held \cup {i}}
  /\ renewing' = [renewing EXCEPT ![i] = "sleep"]

\* A node that holds a newer list reports it: renewal ends, as it does when the node of the
\* operator shuts down.
Conflict(i) ==
  /\ renewing[i] = "put"
  /\ \E newer \in held : newer > i
  /\ renewing' = [renewing EXCEPT ![i] = "ended"]
  /\ UNCHANGED held

\* RENEW after a success, RETRY after a failure.
Wake(i) ==
  /\ renewing[i] = "sleep"
  /\ renewing' = [renewing EXCEPT ![i] = "put"]
  /\ UNCHANGED held

Renew == \E i \in Renewed : SignList(i) \/ Put(i) \/ Conflict(i) \/ Wake(i)
============================================================================
